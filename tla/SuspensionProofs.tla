--------------------------- MODULE SuspensionProofs ---------------------------
(* Theorems about Suspension, for any number of replicas and of concurrent *)
(* calls.                                                                  *)
EXTENDS Suspension, TLAPS

CallsTyped == call \in [Call -> InFlight \cup {NoCall}]

(* What a call in flight looks like after it moved to another step.        *)
LEMMA GotoLemma ==
  ASSUME CallsTyped, NEW c \in Call, call[c] # NoCall, NEW s \in Step, Goto(c, s)
  PROVE  /\ CallsTyped' /\ call'[c] # NoCall
         /\ call'[c].at = call[c].at /\ call'[c].op = call[c].op
         /\ call'[c].step = s /\ call'[c].row = call[c].row
         /\ \A d \in Call : d # c => call'[d] = call[d]
<1>1. call[c] \in InFlight  BY DEF CallsTyped
<1>2. /\ [call[c] EXCEPT !.step = s] \in InFlight
      /\ [call[c] EXCEPT !.step = s].at = call[c].at
      /\ [call[c] EXCEPT !.step = s].op = call[c].op
      /\ [call[c] EXCEPT !.step = s].step = s
      /\ [call[c] EXCEPT !.step = s].row = call[c].row
  BY <1>1 DEF InFlight
<1>3. call' = [call EXCEPT ![c] = [call[c] EXCEPT !.step = s]]
  BY DEF Goto
<1>4. call'[c] = [call[c] EXCEPT !.step = s] /\ \A d \in Call : d # c => call'[d] = call[d]
  BY <1>3 DEF CallsTyped
<1>5. CallsTyped'  BY <1>2, <1>3 DEF CallsTyped
<1> QED  BY <1>2, <1>4, <1>5, NoCallAssumption

(* A call that answered is gone; the others are as they were.              *)
LEMMA ReturnLemma ==
  ASSUME CallsTyped, NEW c \in Call, Return(c)
  PROVE  /\ CallsTyped'
         /\ call'[c] = NoCall
         /\ \A d \in Call : d # c => call'[d] = call[d]
BY DEF CallsTyped, Return

(* decide() waits for findUnique(), then holds the row it answered.        *)
LEMMA ReadLemma ==
  ASSUME CallsTyped, NEW c \in Call, call[c] # NoCall,
         NEW s \in Step, NEW seen \in Row \cup {"none"},
         call' = [call EXCEPT ![c].step = s, ![c].row = seen]
  PROVE  /\ CallsTyped'
         /\ call'[c].at = call[c].at /\ call'[c].op = call[c].op
         /\ call'[c].step = s /\ call'[c].row = seen
         /\ \A d \in Call : d # c => call'[d] = call[d]
<1>1. call[c] \in InFlight  BY DEF CallsTyped
<1> DEFINE n == [[call[c] EXCEPT !.step = s] EXCEPT !.row = seen]
<1>2. n \in InFlight /\ n.at = call[c].at /\ n.op = call[c].op /\ n.step = s /\ n.row = seen
  BY <1>1 DEF InFlight
<1>3. call' = [call EXCEPT ![c] = n]
  BY DEF CallsTyped
<1>4. call'[c] = n /\ \A d \in Call : d # c => call'[d] = call[d]
  BY <1>3 DEF CallsTyped
<1>5. CallsTyped'  BY <1>2, <1>3 DEF CallsTyped
<1> QED  BY <1>2, <1>4, <1>5

(* decide() turns into the suspend() it awaits.                            *)
LEMMA AutoSuspendLemma ==
  ASSUME CallsTyped, NEW c \in Call, call[c] # NoCall,
         call' = [call EXCEPT ![c].op = "suspend", ![c].step = "sadd", ![c].row = "none"]
  PROVE  /\ CallsTyped'
         /\ call'[c].at = call[c].at /\ call'[c].op = "suspend"
         /\ call'[c].step = "sadd" /\ call'[c].row = "none"
         /\ \A d \in Call : d # c => call'[d] = call[d]
<1>1. call[c] \in InFlight  BY DEF CallsTyped
<1> DEFINE n == [[[call[c] EXCEPT !.op = "suspend"] EXCEPT !.step = "sadd"] EXCEPT !.row = "none"]
<1>2. /\ n \in InFlight /\ n.at = call[c].at /\ n.op = "suspend"
      /\ n.step = "sadd" /\ n.row = "none"
  BY <1>1 DEF InFlight, Operation, Step, Row, Status
<1>3. call' = [call EXCEPT ![c] = n]
  BY DEF CallsTyped
<1>4. call'[c] = n /\ \A d \in Call : d # c => call'[d] = call[d]
  BY <1>3 DEF CallsTyped
<1>5. CallsTyped'  BY <1>2, <1>3 DEF CallsTyped
<1> QED  BY <1>2, <1>4, <1>5

(* resolve() ends its call or sends it on to the quota or to the heal, and *)
(* starts no work but a lazy creation or a promotion on its own replica.   *)
LEMMA ResolveLemma ==
  ASSUME CallsTyped, NEW c \in Call, call[c] # NoCall,
         NEW seen, NEW entries, Resolve(c, seen, entries)
  PROVE  /\ CallsTyped'
         /\ \A d \in Call : d # c => call'[d] = call[d]
         /\ \/ call'[c] = NoCall
            \/ /\ call'[c].step \in {"quota", "heal"}
               /\ call'[c].at = call[c].at /\ call'[c].op = call[c].op
               /\ call'[c].row = call[c].row
               /\ call'[c].step = "heal" =>
                    seen = "suspended" \/ ~domain[call[c].at]
         /\ \/ tasks' = tasks
            \/ \E k \in {"create", "promote"} :
                 /\ k = "promote" => MayPromote
                 /\ tasks' = tasks \cup {[kind |-> k, at |-> call[c].at, row |-> "none"]}
         /\ \/ cache' = entries
            \/ cache' = [entries EXCEPT ![call[c].at] = [row |-> "absent", fresh |-> TRUE]]
<1>1. /\ \/ Return(c)
         \/ Goto(c, "quota")
         \/ Goto(c, "heal") /\ (seen = "suspended" \/ ~domain[call[c].at])
      /\ \/ tasks' = tasks
         \/ \E k \in {"create", "promote"} :
              /\ k = "promote" => MayPromote
              /\ tasks' = tasks \cup {[kind |-> k, at |-> call[c].at, row |-> "none"]}
      /\ \/ cache' = entries
         \/ cache' = [entries EXCEPT ![call[c].at] = [row |-> "absent", fresh |-> TRUE]]
  BY DEF Resolve
<1>2. "quota" \in Step /\ "heal" \in Step  BY DEF Step
<1>3. CASE Return(c)  BY <1>1, <1>3, ReturnLemma
<1>4. CASE Goto(c, "quota")  BY <1>1, <1>2, <1>4, GotoLemma
<1>5. CASE Goto(c, "heal") /\ (seen = "suspended" \/ ~domain[call[c].at])
  BY <1>1, <1>2, <1>5, GotoLemma
<1> QED  BY <1>1, <1>3, <1>4, <1>5

-----------------------------------------------------------------------------
LEMMA TypeInit == Init => TypeOK
<1> SUFFICES ASSUME Init PROVE TypeOK
  OBVIOUS
<1>1. row \in Row  BY OpsAssumption DEF Init, Row
<1>2. NoEntry \in Entry  BY DEF NoEntry, Entry
<1>3. cache \in [Replica -> Entry]  BY <1>2 DEF Init
<1>4. admin \in 0..MaxAdmin  BY BoundAssumption DEF Init
<1> QED  BY <1>1, <1>3, <1>4 DEF Init, TypeOK

(* Entries put into the LRU, and their removal.                            *)
LEMMA CacheLemma ==
  ASSUME cache \in [Replica -> Entry], NEW r \in Replica, NEW seen \in Row
  PROVE  /\ Put(r, seen) \in [Replica -> Entry]
         /\ Drop(r) \in [Replica -> Entry]
         /\ \A q \in Replica : /\ q # r => Put(r, seen)[q] = cache[q] /\ Drop(r)[q] = cache[q]
         /\ Put(r, seen)[r] = [row |-> seen, fresh |-> TRUE]
         /\ Drop(r)[r] = NoEntry
BY DEF Put, Drop, Entry, NoEntry

LEMMA TypeNext == TypeOK /\ [Next]_vars => TypeOK'
<1> SUFFICES ASSUME TypeOK, [Next]_vars PROVE TypeOK'
  OBVIOUS
<1>0. CallsTyped  BY DEF TypeOK, CallsTyped
<1>a. ASSUME NEW c \in Call, call[c] # NoCall
      PROVE  call[c] \in InFlight /\ call[c].at \in Replica
  BY <1>a DEF TypeOK, InFlight
<1>b. ASSUME CallsTyped', UNCHANGED <<row, enabled, cache, domain, reloads, tasks, admin>>,
             blocked' \in BOOLEAN, cause' \in BOOLEAN
      PROVE  TypeOK'
  BY <1>b DEF TypeOK, CallsTyped
<1>c. ASSUME NEW c \in Call, call[c] # NoCall, NEW seen \in Row, NEW entries,
             entries \in [Replica -> Entry], Resolve(c, seen, entries),
             UNCHANGED <<blocked, row, enabled, domain, reloads, admin, cause>>
      PROVE  TypeOK'
  <2>1. CallsTyped'  BY <1>0, <1>c, ResolveLemma
  <2>2. call[c].at \in Replica  BY <1>a, <1>c
  <2>3. [row |-> "absent", fresh |-> TRUE] \in Entry  BY DEF Entry, Row
  <2>4. cache' \in [Replica -> Entry]
    BY <1>0, <1>c, <2>2, <2>3, ResolveLemma
  <2>5. \A k \in {"create", "promote"} : [kind |-> k, at |-> call[c].at, row |-> "none"] \in Task
    BY <2>2 DEF Task
  <2>6. tasks' \subseteq Task
    BY <1>0, <1>c, <2>5, ResolveLemma DEF TypeOK
  <2> QED  BY <1>c, <2>1, <2>4, <2>6 DEF TypeOK, CallsTyped
<1>1. ASSUME NEW c \in Call, NEW r \in Replica, NEW op \in Operation,
             NEW given \in Status \cup {"none"}, Begin(c, r, op, given)
      PROVE  TypeOK'
  <2> DEFINE n == [at |-> r, op |-> op, step |-> FirstStep(op), row |-> given]
  <2>1. n \in InFlight
    BY DEF InFlight, Step, Row, FirstStep
  <2>2. CallsTyped'  BY <1>0, <1>1, <2>1 DEF Begin, CallsTyped
  <2>3. admin' \in 0..MaxAdmin
    BY <1>1, BoundAssumption DEF Begin, TypeOK
  <2>4. cause' \in BOOLEAN  BY <1>1, Zenon DEF Begin, TypeOK
  <2> QED  BY <1>1, <2>2, <2>3, <2>4 DEF Begin, TypeOK, CallsTyped
<1>2. ASSUME NEW c \in Call, IsSuspended(c) PROVE TypeOK'
  <2>1. call[c] # NoCall /\ (Return(c) \/ Goto(c, "lookup"))
    BY <1>2 DEF IsSuspended, At
  <2>2. CallsTyped'  BY <1>0, <2>1, ReturnLemma, GotoLemma DEF Step
  <2> QED  BY <1>2, <1>b, <2>2 DEF IsSuspended, TypeOK
<1>3. ASSUME NEW c \in Call, Lookup(c) PROVE TypeOK'
  <2> DEFINE e == cache[call[c].at]
  <2>1. call[c] # NoCall /\ call[c].at \in Replica
    BY <1>3, <1>a DEF Lookup, At
  <2>2. e \in Entry /\ e.row \in Row \cup {"none"}
    BY <2>1 DEF TypeOK, Entry
  <2>3. CASE e.fresh
    <3>1. Resolve(c, e.row, cache)  BY <1>3, <2>3 DEF Lookup
    <3>2. e.row # "none"
      BY <3>1 DEF Resolve
    <3>3. cache \in [Replica -> Entry]  BY DEF TypeOK
    <3>4. e.row \in Row  BY <2>2, <3>2
    <3> QED  BY <1>3, <1>c, <2>1, <3>1, <3>3, <3>4 DEF Lookup
  <2>4. CASE ~e.fresh
    <3>1. call' = [call EXCEPT ![c].step = "read", ![c].row = e.row]
      BY <1>3, <2>4 DEF Lookup
    <3>2. CallsTyped'  BY <1>0, <2>1, <2>2, <3>1, ReadLemma DEF Step
    <3> QED  BY <1>3, <1>b, <2>4, <3>2 DEF Lookup, TypeOK
  <2> QED  BY <2>3, <2>4
<1>4. ASSUME NEW c \in Call, Read(c) PROVE TypeOK'
  <2>1. call[c] # NoCall /\ row \in Row \cup {"none"}
    BY <1>4 DEF Read, At, TypeOK
  <2>2. CallsTyped'  BY <1>0, <1>4, <2>1, ReadLemma DEF Read, Step
  <2> QED  BY <1>4, <1>b, <2>2 DEF Read, TypeOK
<1>5. ASSUME NEW c \in Call, Fill(c) PROVE TypeOK'
  <2>1. /\ call[c] # NoCall /\ call[c].at \in Replica /\ call[c].row \in Row \cup {"none"}
        /\ Resolve(c, call[c].row, Put(call[c].at, call[c].row))
    BY <1>5, <1>a DEF Fill, At, InFlight
  <2>2. call[c].row \in Row  BY <2>1 DEF Resolve
  <2>3. Put(call[c].at, call[c].row) \in [Replica -> Entry]
    BY <2>1, <2>2, CacheLemma DEF TypeOK
  <2> QED  BY <1>5, <1>c, <2>1, <2>2, <2>3 DEF Fill
<1>6. ASSUME NEW c \in Call, ReadFails(c) PROVE TypeOK'
  <2> DEFINE seen == IF call[c].row = "none" THEN "absent" ELSE call[c].row
  <2>1. /\ call[c] # NoCall /\ seen \in Row /\ Resolve(c, seen, cache)
        /\ cache \in [Replica -> Entry]
    BY <1>6, <1>a DEF ReadFails, At, InFlight, Row, TypeOK
  <2> QED  BY <1>6, <1>c, <2>1 DEF ReadFails
<1>7. ASSUME NEW c \in Call, Heal(c) PROVE TypeOK'
  BY <1>7, <1>0, <1>b, ReturnLemma DEF Heal, TypeOK
<1>8. ASSUME NEW c \in Call, RateCheck(c) PROVE TypeOK'
  <2>1. call[c] # NoCall /\ (Return(c) \/ Goto(c, "anomaly"))
    BY <1>8 DEF RateCheck, At
  <2>2. CallsTyped'  BY <1>0, <2>1, ReturnLemma, GotoLemma DEF Step
  <2> QED  BY <1>8, <1>b, <2>2 DEF RateCheck, TypeOK
<1>9. ASSUME NEW c \in Call, Evaluate(c) PROVE TypeOK'
  <2>1. call[c] # NoCall  BY <1>9 DEF Evaluate, At
  <2>2. CallsTyped'  BY <1>0, <1>9, <2>1, ReturnLemma, AutoSuspendLemma DEF Evaluate
  <2>3. cause' \in BOOLEAN  BY <1>9 DEF Evaluate, TypeOK
  <2> QED  BY <1>9, <1>b, <2>2, <2>3 DEF Evaluate, TypeOK
<1>10. ASSUME NEW c \in Call, Sadd(c) PROVE TypeOK'
  <2>1. CallsTyped'  BY <1>0, <1>10, GotoLemma DEF Sadd, At, Step
  <2> QED  BY <1>10, <1>b, <2>1 DEF Sadd, TypeOK
<1>11. ASSUME NEW c \in Call, Srem(c) PROVE TypeOK'
  <2>1. CallsTyped'  BY <1>0, <1>11, GotoLemma DEF Srem, At, Step
  <2>2. cause' \in BOOLEAN  BY <1>11, Zenon DEF Srem
  <2> QED  BY <1>11, <1>b, <2>1, <2>2 DEF Srem
<1>12. ASSUME NEW c \in Call, Forget(c) PROVE TypeOK'
  <2>1. call[c] # NoCall /\ call[c].at \in Replica /\ (Return(c) \/ Goto(c, "write"))
    BY <1>12, <1>a DEF Forget, At
  <2>2. CallsTyped'  BY <1>0, <2>1, ReturnLemma, GotoLemma DEF Step
  <2>3. cache' \in [Replica -> Entry]
    BY <1>12, <2>1, CacheLemma DEF Forget, TypeOK
  <2> QED  BY <1>12, <2>2, <2>3 DEF Forget, TypeOK, CallsTyped
<1>13. ASSUME NEW c \in Call, Write(c) PROVE TypeOK'
  <2>1. call[c] \in InFlight /\ call[c] # NoCall /\ (Return(c) \/ Goto(c, "forget"))
    BY <1>13, <1>a DEF Write, At
  <2>2. CallsTyped'  BY <1>0, <2>1, ReturnLemma, GotoLemma DEF Step
  <2>3. row' \in Row
    <3>1. row' = Written(call[c].op, call[c].row) /\ call[c].row \in Row \cup {"none"}
          /\ call[c].op \in Operation
      BY <1>13, <2>1 DEF Write, InFlight
    <3> QED  BY <3>1 DEF Written, Row, Status, Operation, TypeOK
  <2> QED  BY <1>13, <2>2, <2>3 DEF Write, TypeOK, CallsTyped
<1>14. ASSUME NEW c \in Call, RedisFails(c) PROVE TypeOK'
  <2>1. call[c] # NoCall /\ (Return(c) \/ Goto(c, "forget"))
    BY <1>14 DEF RedisFails, At
  <2>2. CallsTyped'  BY <1>0, <2>1, ReturnLemma, GotoLemma DEF Step
  <2> QED  BY <1>14, <1>b, <2>2 DEF RedisFails, TypeOK
<1>15. ASSUME NEW c \in Call, WriteFails(c) PROVE TypeOK'
  BY <1>15, <1>0, <1>b, ReturnLemma DEF WriteFails, TypeOK
<1>16. ASSUME NEW t \in tasks, LazyCreate(t) PROVE TypeOK'
  <2>1. row' \in Row  BY <1>16 DEF LazyCreate, TypeOK, Row, Status
  <2>2. tasks' \subseteq Task
    BY <1>16, <2>1 DEF LazyCreate, Replace, TypeOK, Task
  <2> QED  BY <1>16, <2>1, <2>2 DEF LazyCreate, TypeOK
<1>17. ASSUME NEW t \in tasks, Promote(t) PROVE TypeOK'
  <2>1. row' \in Row  BY <1>17 DEF Promote, TypeOK, Row, Status
  <2>2. tasks' \subseteq Task
    BY <1>17 DEF Promote, Replace, TypeOK, Task
  <2> QED  BY <1>17, <2>1, <2>2 DEF Promote, TypeOK
<1>18. ASSUME NEW t \in tasks, Finish(t) PROVE TypeOK'
  <2>1. t \in Task /\ t.at \in Replica /\ t.row \in Row \cup {"none"}
    BY DEF TypeOK, Task
  <2>2. cache' \in [Replica -> Entry]
    BY <1>18, <2>1 DEF Finish, TypeOK, Put, Drop, Entry, NoEntry
  <2> QED  BY <1>18, <2>2 DEF Finish, TypeOK
<1>19. ASSUME NEW t \in tasks, TaskFails(t) PROVE TypeOK'
  BY <1>19 DEF TaskFails, TypeOK
<1>20. ASSUME ToggleDomain PROVE TypeOK'
  BY <1>20, BoundAssumption DEF ToggleDomain, TypeOK
<1>21. ASSUME NEW r \in Replica, ReloadRead(r) PROVE TypeOK'
  BY <1>21 DEF ReloadRead, TypeOK
<1>22. ASSUME NEW r \in Replica, NEW b \in BOOLEAN, ReloadApply(r, b) PROVE TypeOK'
  BY <1>22 DEF ReloadApply, TypeOK, Drop, Entry, NoEntry
<1>23. ASSUME NEW r \in Replica, Age(r) PROVE TypeOK'
  <2>1. cache' \in [Replica -> Entry]
    <3>1. cache[r] \in Entry  BY DEF TypeOK
    <3>2. [cache[r] EXCEPT !.fresh = FALSE] \in Entry  BY <3>1 DEF Entry
    <3>3. cache' = [cache EXCEPT ![r] = [cache[r] EXCEPT !.fresh = FALSE]]
      BY <1>23 DEF Age
    <3> QED  BY <3>2, <3>3 DEF TypeOK
  <2> QED  BY <1>23, <2>1 DEF Age, TypeOK
<1>24. ASSUME NEW r \in Replica, PushOut(r) PROVE TypeOK'
  BY <1>24 DEF PushOut, TypeOK, Drop, Entry, NoEntry
<1>25. ASSUME NEW r \in Replica, NEW b \in BOOLEAN, Crash(r, b) PROVE TypeOK'
  BY <1>25 DEF Crash, TypeOK, Drop, Entry, NoEntry
<1>26. CASE UNCHANGED vars  BY <1>26 DEF vars, TypeOK
<1> QED
  BY <1>1, <1>2, <1>3, <1>4, <1>5, <1>6, <1>7, <1>8, <1>9, <1>10, <1>11, <1>12, <1>13,
     <1>14, <1>15, <1>16, <1>17, <1>18, <1>19, <1>20, <1>21, <1>22, <1>23, <1>24, <1>25,
     <1>26
  DEF Next

(* Every variable keeps its type, whatever interleaves or fails.           *)
THEOREM TypeCorrect == Spec => []TypeOK
BY TypeInit, TypeNext, PTL DEF Spec

-----------------------------------------------------------------------------
(***************************************************************************)
(* Blocked before recorded, where only decide(), the dashboard and         *)
(* suspend() touch the sender and Redis answers.                           *)
(***************************************************************************)
OnlySuspends ==
  /\ Ops \subseteq {"decide", "top", "suspend"}
  /\ "redis" \notin Faults
  /\ "suspended" \notin FirstRows

(* A suspend() that got past its SADD has blocked the sender.              *)
SaddFirst ==
  \A c \in Call : call[c] # NoCall =>
    /\ call[c].op \in {"decide", "top", "suspend"}
    /\ call[c].step # "srem"
    /\ call[c].step \in {"sadd", "forget", "write"} => call[c].op = "suspend"
    /\ call[c].step \in {"forget", "write"} => blocked

SafeInv == TypeOK /\ SaddFirst /\ BlockedBeforeRecorded

LEMMA SafeInit == OnlySuspends /\ Init => SafeInv
BY TypeInit DEF OnlySuspends, Init, SafeInv, SaddFirst, BlockedBeforeRecorded

LEMMA SafeNext == OnlySuspends /\ SafeInv /\ [Next]_vars => SafeInv'
<1> SUFFICES ASSUME OnlySuspends, SafeInv, [Next]_vars
             PROVE  SaddFirst' /\ BlockedBeforeRecorded'
  BY TypeNext DEF SafeInv
<1> DEFINE Goal == SaddFirst' /\ BlockedBeforeRecorded'
<1>0. CallsTyped  BY DEF SafeInv, TypeOK, CallsTyped
(* A step of one call that changes neither blocklist nor row.              *)
<1>a. ASSUME NEW c \in Call, call[c] # NoCall, UNCHANGED <<blocked, row>>,
             \A d \in Call : d # c => call'[d] = call[d],
             \/ call'[c] = NoCall
             \/ /\ call'[c].op = call[c].op
                /\ call'[c].step \notin {"srem", "sadd", "forget", "write"}
             \/ call'[c].op = "suspend" /\ call'[c].step = "sadd"
      PROVE  Goal
  BY <1>a DEF SafeInv, SaddFirst, BlockedBeforeRecorded
(* A step of no call that leaves the row alone or takes "suspended" off.   *)
<1>b. ASSUME UNCHANGED blocked, row' = row \/ row' # "suspended",
             \A c \in Call : call'[c] = NoCall \/ call'[c] = call[c]
      PROVE  Goal
  BY <1>b DEF SafeInv, SaddFirst, BlockedBeforeRecorded
<1>1. ASSUME NEW c \in Call, NEW r \in Replica, NEW op \in Operation,
             NEW given \in Status \cup {"none"}, Begin(c, r, op, given)
      PROVE  Goal
  <2> DEFINE n == [at |-> r, op |-> op, step |-> FirstStep(op), row |-> given]
  <2>1. op \in {"decide", "top", "suspend"}
    BY <1>1 DEF Begin, OnlySuspends
  <2>2. /\ n.step \in {"blocklist", "lookup", "sadd"} /\ n.op = op
        /\ n.step = "sadd" => op = "suspend"
    BY <2>1 DEF FirstStep
  <2>3. call' = [call EXCEPT ![c] = n] /\ UNCHANGED <<blocked, row>>
    BY <1>1 DEF Begin
  <2>4. call'[c] = n /\ \A d \in Call : d # c => call'[d] = call[d]
    BY <1>0, <2>3 DEF CallsTyped
  <2>5. SaddFirst'  BY <2>1, <2>2, <2>3, <2>4 DEF SafeInv, SaddFirst
  <2> QED  BY <2>3, <2>5 DEF SafeInv, BlockedBeforeRecorded
<1>2. ASSUME NEW c \in Call, IsSuspended(c) PROVE Goal
  <2>1. call[c] # NoCall /\ (Return(c) \/ Goto(c, "lookup")) /\ UNCHANGED <<blocked, row>>
    BY <1>2 DEF IsSuspended, At
  <2>2. "lookup" \in Step  BY DEF Step
  <2> QED  BY <1>0, <1>a, <2>1, <2>2, ReturnLemma, GotoLemma
<1>c. ASSUME NEW c \in Call, call[c] # NoCall, UNCHANGED <<blocked, row>>,
             NEW seen, NEW entries, Resolve(c, seen, entries)
      PROVE  Goal
  BY <1>0, <1>a, <1>c, ResolveLemma
<1>3. ASSUME NEW c \in Call, Lookup(c) PROVE Goal
  <2> DEFINE e == cache[call[c].at]
  <2>1. call[c] # NoCall /\ UNCHANGED <<blocked, row>>
    BY <1>3 DEF Lookup, At
  <2>2. CASE e.fresh
    <3>1. Resolve(c, e.row, cache)  BY <1>3, <2>2 DEF Lookup
    <3> QED  BY <1>c, <2>1, <3>1
  <2>3. CASE ~e.fresh
    <3>1. call' = [call EXCEPT ![c].step = "read", ![c].row = e.row]
      BY <1>3, <2>3 DEF Lookup
    <3>2. e.row \in Row \cup {"none"}
      BY <1>0, <2>1 DEF SafeInv, TypeOK, Entry, CallsTyped, InFlight
    <3> QED  BY <1>0, <1>a, <2>1, <3>1, <3>2, ReadLemma DEF Step
  <2> QED  BY <2>2, <2>3
<1>4. ASSUME NEW c \in Call, Read(c) PROVE Goal
  <2>1. call[c] # NoCall /\ row \in Row \cup {"none"} /\ UNCHANGED <<blocked, row>>
        /\ call' = [call EXCEPT ![c].step = "fill", ![c].row = row]
    BY <1>4 DEF Read, At, SafeInv, TypeOK
  <2> QED  BY <1>0, <1>a, <2>1, ReadLemma DEF Step
<1>5. ASSUME NEW c \in Call, Fill(c) PROVE Goal
  BY <1>5, <1>c DEF Fill, At
<1>6. ASSUME NEW c \in Call, ReadFails(c) PROVE Goal
  BY <1>6, <1>c DEF ReadFails, At
<1>7. ASSUME NEW c \in Call, Heal(c) PROVE Goal
  BY <1>0, <1>7, ReturnLemma DEF Heal, SafeInv, SaddFirst, BlockedBeforeRecorded
<1>8. ASSUME NEW c \in Call, RateCheck(c) PROVE Goal
  <2>1. call[c] # NoCall /\ (Return(c) \/ Goto(c, "anomaly")) /\ UNCHANGED <<blocked, row>>
    BY <1>8 DEF RateCheck, At
  <2>2. "anomaly" \in Step  BY DEF Step
  <2> QED  BY <1>0, <1>a, <2>1, <2>2, ReturnLemma, GotoLemma
<1>9. ASSUME NEW c \in Call, Evaluate(c) PROVE Goal
  <2>1. call[c] # NoCall /\ UNCHANGED <<blocked, row>>
    BY <1>9 DEF Evaluate, At
  <2> QED  BY <1>0, <1>9, <1>a, <2>1, ReturnLemma, AutoSuspendLemma DEF Evaluate
<1>10. ASSUME NEW c \in Call, Sadd(c) PROVE Goal
  <2>1. /\ call[c] # NoCall /\ call[c].step = "sadd" /\ Goto(c, "forget")
        /\ blocked' /\ row' = row
    BY <1>10 DEF Sadd, At
  <2>2. /\ call'[c].op = call[c].op /\ call'[c].step = "forget"
        /\ \A d \in Call : d # c => call'[d] = call[d]
    BY <1>0, <2>1, GotoLemma DEF Step
  <2> QED  BY <2>1, <2>2 DEF SafeInv, SaddFirst, BlockedBeforeRecorded
<1>11. ASSUME NEW c \in Call, Srem(c) PROVE Goal
  BY <1>11 DEF Srem, At, SafeInv, SaddFirst
<1>12. ASSUME NEW c \in Call, Forget(c) PROVE Goal
  <2>1. /\ call[c] # NoCall /\ call[c].step = "forget" /\ Goto(c, "write")
        /\ UNCHANGED <<blocked, row>>
    BY <1>12 DEF Forget, At, SafeInv, SaddFirst
  <2>2. /\ call'[c].op = call[c].op /\ call'[c].step = "write"
        /\ \A d \in Call : d # c => call'[d] = call[d]
    BY <1>0, <2>1, GotoLemma DEF Step
  <2> QED  BY <2>1, <2>2 DEF SafeInv, SaddFirst, BlockedBeforeRecorded
<1>13. ASSUME NEW c \in Call, Write(c) PROVE Goal
  <2>1. call[c].op = "suspend" /\ blocked /\ Return(c) /\ blocked' = blocked
    BY <1>13 DEF Write, At, SafeInv, SaddFirst
  <2> QED  BY <1>0, <2>1, ReturnLemma DEF SafeInv, SaddFirst, BlockedBeforeRecorded
<1>14. ASSUME NEW c \in Call, WriteFails(c) PROVE Goal
  BY <1>0, <1>14, <1>a, ReturnLemma DEF WriteFails, At
<1>15. ASSUME NEW t \in tasks, LazyCreate(t) \/ Promote(t) \/ Finish(t) \/ TaskFails(t)
       PROVE  Goal
  BY <1>15, <1>b DEF LazyCreate, Promote, Finish, TaskFails
<1>16. CASE ToggleDomain
  BY <1>16, <1>b DEF ToggleDomain
<1>17. ASSUME NEW r \in Replica, ReloadRead(r) \/ Age(r) \/ PushOut(r) PROVE Goal
  BY <1>17, <1>b DEF ReloadRead, Age, PushOut
<1>18. ASSUME NEW r \in Replica, NEW b \in BOOLEAN, ReloadApply(r, b) \/ Crash(r, b)
       PROVE  Goal
  BY <1>18, <1>b DEF ReloadApply, Crash
<1>19. CASE UNCHANGED vars
  BY <1>19, <1>b DEF vars
<1>20. ASSUME NEW c \in Call PROVE ~RedisFails(c)
  BY DEF OnlySuspends, RedisFails
<1> QED
  BY <1>1, <1>2, <1>3, <1>4, <1>5, <1>6, <1>7, <1>8, <1>9, <1>10, <1>11, <1>12, <1>13,
     <1>14, <1>15, <1>16, <1>17, <1>18, <1>19, <1>20
  DEF Next

(* However many messages, replicas and suspensions there are, and whatever *)
(* the database or a crash does: the row never says "suspended" before the *)
(* blocklist does.                                                         *)
THEOREM SuspendBlocksFirst ==
  ASSUME OnlySuspends
  PROVE  Spec => []BlockedBeforeRecorded
<1>1. Init => SafeInv  BY SafeInit
<1>2. SafeInv /\ [Next]_vars => SafeInv'  BY SafeNext
<1>3. SafeInv => BlockedBeforeRecorded  BY DEF SafeInv
<1> QED  BY <1>1, <1>2, <1>3, PTL DEF Spec

-----------------------------------------------------------------------------
(***************************************************************************)
(* Without old warm-up rows no task promotes.                              *)
(***************************************************************************)
NoPromotion == \A t \in tasks : t.kind # "promote"

LEMMA PromotionInit == Init => NoPromotion
BY DEF Init, NoPromotion

(* A task replaced by its continuation.                                    *)
LEMMA ReplaceLemma ==
  ASSUME NEW t, NEW kind, NEW seen, Replace(t, kind, seen), NEW u \in tasks'
  PROVE  u \in tasks \/ (u.kind = kind /\ u.at = t.at /\ u.row = seen)
BY DEF Replace

LEMMA PromotionNext == ~MayPromote /\ TypeOK /\ NoPromotion /\ [Next]_vars => NoPromotion'
<1> SUFFICES ASSUME ~MayPromote, TypeOK, NoPromotion, [Next]_vars PROVE NoPromotion'
  OBVIOUS
<1>0. CallsTyped  BY DEF TypeOK, CallsTyped
<1>a. ASSUME tasks' \subseteq tasks PROVE NoPromotion'
  BY <1>a DEF NoPromotion
<1>b. ASSUME NEW c \in Call, call[c] # NoCall, NEW seen, NEW entries, Resolve(c, seen, entries)
      PROVE  NoPromotion'
  <2>1. \/ tasks' = tasks
        \/ tasks' = tasks \cup {[kind |-> "create", at |-> call[c].at, row |-> "none"]}
    BY <1>0, <1>b, ResolveLemma
  <2> QED  BY <2>1 DEF NoPromotion
<1>1. ASSUME NEW c \in Call, NEW r \in Replica, NEW op \in Operation,
             NEW given \in Status \cup {"none"}, Begin(c, r, op, given)
      PROVE  NoPromotion'
  BY <1>1, <1>a DEF Begin
<1>2. ASSUME NEW c \in Call,
             \/ IsSuspended(c) \/ Read(c) \/ Heal(c) \/ RateCheck(c) \/ Evaluate(c)
             \/ Sadd(c) \/ Srem(c) \/ Forget(c) \/ Write(c) \/ RedisFails(c) \/ WriteFails(c)
      PROVE  NoPromotion'
  BY <1>2, <1>a DEF IsSuspended, Read, Heal, RateCheck, Evaluate, Sadd, Srem, Forget, Write,
                    RedisFails, WriteFails
<1>3. ASSUME NEW c \in Call, Lookup(c) PROVE NoPromotion'
  BY <1>3, <1>a, <1>b DEF Lookup, At
<1>4. ASSUME NEW c \in Call, Fill(c) \/ ReadFails(c) PROVE NoPromotion'
  BY <1>4, <1>b DEF Fill, ReadFails, At
<1>5. ASSUME NEW t \in tasks, LazyCreate(t) \/ Promote(t) PROVE NoPromotion'
  BY <1>5, ReplaceLemma DEF LazyCreate, Promote, NoPromotion
<1>6. ASSUME NEW t \in tasks, Finish(t) \/ TaskFails(t) PROVE NoPromotion'
  BY <1>6, <1>a DEF Finish, TaskFails
<1>7. CASE ToggleDomain \/ UNCHANGED vars
  BY <1>7, <1>a DEF ToggleDomain, vars
<1>8. ASSUME NEW r \in Replica, NEW b \in BOOLEAN,
             ReloadRead(r) \/ Age(r) \/ PushOut(r) \/ ReloadApply(r, b) \/ Crash(r, b)
      PROVE  NoPromotion'
  BY <1>8, <1>a DEF ReloadRead, Age, PushOut, ReloadApply, Crash
<1> QED  BY <1>1, <1>2, <1>3, <1>4, <1>5, <1>6, <1>7, <1>8 DEF Next

-----------------------------------------------------------------------------
(***************************************************************************)
(* Blocked only for a cause, where no operator lifts a suspension (the     *)
(* history `cause` is reset by unsuspend() only).                          *)
(***************************************************************************)
NobodyLifts == "unsuspend" \notin Ops /\ "suspended" \notin FirstRows

(* Before there is a cause, no copy of the row says "suspended", no        *)
(* replica thinks the domain is disabled, and nobody is about to block.    *)
Blameless ==
  /\ ~blocked /\ row # "suspended" /\ enabled = TRUE
  /\ \A r \in Replica :
       domain[r] = TRUE /\ FALSE \notin reloads[r] /\ cache[r].row # "suspended"
  /\ \A t \in tasks : t.row # "suspended"
  /\ \A c \in Call : call[c] # NoCall =>
       call[c].op # "suspend" /\ call[c].step \notin {"heal", "sadd"} /\ call[c].row # "suspended"

NoLifting == \A c \in Call : call[c] # NoCall => call[c].op # "unsuspend" /\ call[c].step # "srem"

CauseInv == NoLifting /\ (cause \/ Blameless)

LEMMA CauseInit == NobodyLifts /\ Init => CauseInv
BY DEF NobodyLifts, Init, CauseInv, NoLifting, Blameless, NoEntry

LEMMA CauseNext == NobodyLifts /\ TypeOK /\ CauseInv /\ [Next]_vars => CauseInv'
<1> SUFFICES ASSUME NobodyLifts, TypeOK, CauseInv, [Next]_vars PROVE CauseInv'
  OBVIOUS
<1>0. CallsTyped  BY DEF TypeOK, CallsTyped
<1>r. ASSUME NEW c \in Call, call[c] # NoCall
      PROVE  call[c].at \in Replica /\ call[c].row \in Row \cup {"none"} /\ call[c].op \in Operation
  BY <1>r DEF TypeOK, InFlight
(* A step of one call that blocks nobody.                                  *)
<1>a. ASSUME NEW c \in Call, call[c] # NoCall,
             UNCHANGED <<blocked, row, enabled, cache, domain, reloads, tasks, cause>>,
             \A d \in Call : d # c => call'[d] = call[d],
             \/ call'[c] = NoCall
             \/ /\ call'[c].op = call[c].op /\ call'[c].step \notin {"srem", "heal", "sadd"}
                /\ call'[c].row \in {call[c].row, row, cache[call[c].at].row}
      PROVE  CauseInv'
  <2>1. NoLifting'
    BY <1>a DEF CauseInv, NoLifting
  <2>2. CASE cause
    BY <1>a, <2>1, <2>2 DEF CauseInv
  <2>3. CASE ~cause
    <3>1. Blameless /\ call[c].at \in Replica /\ call[c].row # "suspended"
          /\ call[c].op # "suspend"
      BY <1>a, <1>r, <2>3 DEF CauseInv, Blameless
    <3>2. call'[c] # NoCall => call'[c].op # "suspend" /\ call'[c].step \notin {"heal", "sadd"}
                               /\ call'[c].row # "suspended"
      BY <1>a, <3>1 DEF Blameless
    <3>3. Blameless'
      BY <1>a, <3>1, <3>2 DEF Blameless
    <3> QED  BY <2>1, <3>3 DEF CauseInv
  <2> QED  BY <2>2, <2>3
(* resolve() with a row that some place holds.                             *)
<1>b. ASSUME NEW c \in Call, call[c] # NoCall, NEW seen, NEW entries,
             Resolve(c, seen, entries),
             UNCHANGED <<blocked, row, enabled, domain, reloads, cause>>,
             cause \/ seen # "suspended",
             \A r \in Replica : cause \/ entries[r].row # "suspended",
             entries \in [Replica -> Entry]
      PROVE  CauseInv'
  <2>1. /\ \A d \in Call : d # c => call'[d] = call[d]
        /\ \/ call'[c] = NoCall
           \/ /\ call'[c].step \in {"quota", "heal"} /\ call'[c].op = call[c].op
              /\ call'[c].row = call[c].row
              /\ call'[c].step = "heal" => seen = "suspended" \/ ~domain[call[c].at]
        /\ \/ tasks' = tasks
           \/ \E k \in {"create", "promote"} :
                tasks' = tasks \cup {[kind |-> k, at |-> call[c].at, row |-> "none"]}
        /\ \/ cache' = entries
           \/ cache' = [entries EXCEPT ![call[c].at] = [row |-> "absent", fresh |-> TRUE]]
    BY <1>0, <1>b, ResolveLemma
  <2>2. NoLifting'
    BY <2>1, <1>b DEF CauseInv, NoLifting
  <2>3. CASE cause
    BY <1>b, <2>2, <2>3 DEF CauseInv
  <2>4. CASE ~cause
    <3>1. \A r \in Replica : cache'[r].row # "suspended"
      <4> DEFINE unknown == [row |-> "absent", fresh |-> TRUE]
      <4>1. unknown.row # "suspended"
        OBVIOUS
      <4> HIDE DEF unknown
      <4>2. cache' = entries \/ cache' = [entries EXCEPT ![call[c].at] = unknown]
        BY <2>1 DEF unknown
      <4> QED  BY <1>b, <2>4, <4>1, <4>2
    <3>2. \A t \in tasks' : t.row # "suspended"
      <4>1. \A t \in tasks : t.row # "suspended"
        BY <2>4 DEF CauseInv, Blameless
      <4>2. \A t \in tasks' : t \in tasks \/ t.row = "none"
        BY <2>1
      <4> QED  BY <4>1, <4>2
    <3>3. \A d \in Call : call'[d] # NoCall =>
            /\ call'[d].op # "suspend" /\ call'[d].step \notin {"heal", "sadd"}
            /\ call'[d].row # "suspended"
      <4>1. \A d \in Call : call[d] # NoCall =>
              call[d].op # "suspend" /\ call[d].step \notin {"heal", "sadd"} /\ call[d].row # "suspended"
        BY <2>4 DEF CauseInv, Blameless
      <4>2. domain[call[c].at] = TRUE /\ seen # "suspended"
        BY <1>b, <1>r, <2>4 DEF CauseInv, Blameless
      <4>3. call'[c] # NoCall => call'[c].op # "suspend" /\ call'[c].step \notin {"heal", "sadd"}
                                 /\ call'[c].row # "suspended"
        BY <1>b, <2>1, <4>1, <4>2
      <4> QED  BY <2>1, <4>1, <4>3
    <3> QED  BY <1>b, <2>2, <2>4, <3>1, <3>2, <3>3 DEF CauseInv, Blameless
  <2> QED  BY <2>3, <2>4
(* A step of no call; the row gets no suspended status.                    *)
<1>c. ASSUME UNCHANGED <<blocked, enabled, cause>>, row' = row \/ row' # "suspended",
             \A r \in Replica : /\ cause \/ cache'[r].row # "suspended"
                                /\ cause \/ domain'[r] = TRUE
                                /\ cause \/ FALSE \notin reloads'[r],
             \A t \in tasks' : cause \/ t.row # "suspended",
             \A c \in Call : call'[c] = NoCall \/ call'[c] = call[c]
      PROVE  CauseInv'
  BY <1>c DEF CauseInv, NoLifting, Blameless
<1>1. ASSUME NEW c \in Call, NEW r \in Replica, NEW op \in Operation,
             NEW given \in Status \cup {"none"}, Begin(c, r, op, given)
      PROVE  CauseInv'
  <2> DEFINE n == [at |-> r, op |-> op, step |-> FirstStep(op), row |-> given]
  <2>1. op # "unsuspend"
    BY <1>1 DEF Begin, NobodyLifts
  <2>2. /\ n.step \notin {"srem", "heal"} /\ n.op = op /\ n.row = given
        /\ n.step = "sadd" => op = "suspend"
    BY <2>1 DEF FirstStep
  <2>3. /\ call' = [call EXCEPT ![c] = n]
        /\ UNCHANGED <<blocked, row, enabled, cache, domain, reloads, tasks>>
        /\ cause' = (cause \/ op = "suspend" \/ given = "suspended")
    BY <1>1 DEF Begin
  <2> HIDE DEF n
  <2>4. call'[c] = n /\ \A d \in Call : d # c => call'[d] = call[d]
    BY <1>0, <2>3 DEF CallsTyped
  <2>5. NoLifting'
    BY <2>1, <2>2, <2>4 DEF CauseInv, NoLifting
  <2>6. CASE cause \/ op = "suspend" \/ given = "suspended"
    BY <2>3, <2>5, <2>6, Zenon DEF CauseInv
  <2>7. CASE ~(cause \/ op = "suspend" \/ given = "suspended")
    <3>1. Blameless
      BY <2>7 DEF CauseInv
    <3>2. Blameless'
      BY <2>2, <2>3, <2>4, <2>7, <3>1 DEF Blameless
    <3> QED  BY <2>5, <3>2 DEF CauseInv
  <2> QED  BY <2>6, <2>7
<1>2. ASSUME NEW c \in Call, IsSuspended(c) \/ RateCheck(c) PROVE CauseInv'
  <2>1. /\ call[c] # NoCall /\ (Return(c) \/ Goto(c, "lookup") \/ Goto(c, "anomaly"))
        /\ UNCHANGED <<blocked, row, enabled, cache, domain, reloads, tasks, cause>>
    BY <1>2 DEF IsSuspended, RateCheck, At
  <2>2. "lookup" \in Step /\ "anomaly" \in Step  BY DEF Step
  <2> QED  BY <1>0, <1>a, <2>1, <2>2, ReturnLemma, GotoLemma
<1>3. ASSUME NEW c \in Call, Lookup(c) PROVE CauseInv'
  <2> DEFINE e == cache[call[c].at]
  <2>1. /\ call[c] # NoCall /\ call[c].at \in Replica /\ e \in Entry /\ cache \in [Replica -> Entry]
        /\ UNCHANGED <<blocked, row, enabled, domain, reloads, cause>>
    BY <1>3, <1>r DEF Lookup, At, TypeOK
  <2>2. \A r \in Replica : cause \/ cache[r].row # "suspended"
    BY DEF CauseInv, Blameless
  <2>3. CASE e.fresh
    <3>1. Resolve(c, e.row, cache)  BY <1>3, <2>3 DEF Lookup
    <3> QED  BY <1>b, <2>1, <2>2, <3>1
  <2>4. CASE ~e.fresh
    <3>1. /\ call' = [call EXCEPT ![c].step = "read", ![c].row = e.row]
          /\ UNCHANGED <<cache, tasks>>
      BY <1>3, <2>4 DEF Lookup
    <3>2. e.row \in Row \cup {"none"} /\ "read" \in Step
      BY <2>1 DEF Entry, Step
    <3> HIDE DEF e
    <3>3. /\ call'[c].op = call[c].op /\ call'[c].step = "read" /\ call'[c].row = e.row
          /\ \A d \in Call : d # c => call'[d] = call[d]
      BY <1>0, <2>1, <3>1, <3>2, ReadLemma DEF Step
    <3> QED  BY <1>a, <2>1, <3>1, <3>3 DEF e
  <2> QED  BY <2>3, <2>4
<1>4. ASSUME NEW c \in Call, Read(c) PROVE CauseInv'
  <2>1. /\ call[c] # NoCall /\ row \in Row \cup {"none"} /\ "fill" \in Step
        /\ call' = [call EXCEPT ![c].step = "fill", ![c].row = row]
        /\ UNCHANGED <<blocked, row, enabled, cache, domain, reloads, tasks, cause>>
    BY <1>4 DEF Read, At, TypeOK, Step
  <2>2. /\ call'[c].op = call[c].op /\ call'[c].step = "fill" /\ call'[c].row = row
        /\ \A d \in Call : d # c => call'[d] = call[d]
    BY <1>0, <2>1, ReadLemma DEF Step
  <2> QED  BY <1>a, <2>1, <2>2
<1>5. ASSUME NEW c \in Call, Fill(c) PROVE CauseInv'
  <2>1. /\ call[c] # NoCall /\ call[c].at \in Replica /\ call[c].row \in Row \cup {"none"}
        /\ Resolve(c, call[c].row, Put(call[c].at, call[c].row))
        /\ UNCHANGED <<blocked, row, enabled, domain, reloads, cause>>
    BY <1>5, <1>r DEF Fill, At
  <2>2. call[c].row \in Row  BY <2>1 DEF Resolve
  <2>3. cause \/ call[c].row # "suspended"
    BY <2>1 DEF CauseInv, Blameless
  <2>4. cache \in [Replica -> Entry]  BY DEF TypeOK
  <2>5. Put(call[c].at, call[c].row) \in [Replica -> Entry]
    BY <2>1, <2>2, <2>4, CacheLemma
  <2>6. \A r \in Replica : cause \/ Put(call[c].at, call[c].row)[r].row # "suspended"
    BY <2>1, <2>3, <2>4 DEF Put, CauseInv, Blameless
  <2> QED  BY <1>b, <2>1, <2>3, <2>5, <2>6
<1>6. ASSUME NEW c \in Call, ReadFails(c) PROVE CauseInv'
  <2> DEFINE seen == IF call[c].row = "none" THEN "absent" ELSE call[c].row
  <2>1. /\ call[c] # NoCall /\ Resolve(c, seen, cache) /\ cache \in [Replica -> Entry]
        /\ UNCHANGED <<blocked, row, enabled, domain, reloads, cause>>
    BY <1>6 DEF ReadFails, At, TypeOK
  <2>2. cause \/ seen # "suspended"
    BY <2>1 DEF CauseInv, Blameless
  <2>3. \A r \in Replica : cause \/ cache[r].row # "suspended"
    BY DEF CauseInv, Blameless
  <2> QED  BY <1>b, <2>1, <2>2, <2>3
<1>7. ASSUME NEW c \in Call, Heal(c) \/ Sadd(c) PROVE CauseInv'
  <2>1. call[c] # NoCall /\ call[c].step \in {"heal", "sadd"} /\ cause' = cause
    BY <1>7 DEF Heal, Sadd, At
  <2>2. cause
    BY <2>1 DEF CauseInv, Blameless
  <2>3. Return(c) \/ Goto(c, "forget")
    BY <1>7 DEF Heal, Sadd
  <2>4. /\ \A d \in Call : d # c => call'[d] = call[d]
        /\ call'[c] = NoCall \/ (call'[c].op = call[c].op /\ call'[c].step = "forget")
    BY <1>0, <2>1, <2>3, ReturnLemma, GotoLemma DEF Step
  <2> QED  BY <2>1, <2>2, <2>4 DEF CauseInv, NoLifting
<1>8. ASSUME NEW c \in Call, Evaluate(c) PROVE CauseInv'
  <2>1. call[c] # NoCall /\ UNCHANGED <<blocked, row, enabled, cache, domain, reloads, tasks>>
    BY <1>8 DEF Evaluate, At
  <2>2. CASE Return(c) /\ cause' = cause
    BY <1>0, <1>a, <2>1, <2>2, ReturnLemma
  <2>3. CASE /\ call' = [call EXCEPT ![c].op = "suspend", ![c].step = "sadd", ![c].row = "none"]
             /\ cause'
    <3>1. /\ call'[c].op = "suspend" /\ call'[c].step = "sadd"
          /\ \A d \in Call : d # c => call'[d] = call[d]
      BY <1>0, <2>1, <2>3, AutoSuspendLemma
    <3> QED  BY <2>3, <3>1 DEF CauseInv, NoLifting
  <2> QED  BY <1>8, <2>2, <2>3 DEF Evaluate
<1>9. ASSUME NEW c \in Call PROVE ~Srem(c)
  BY DEF Srem, At, CauseInv, NoLifting
<1>10. ASSUME NEW c \in Call, Forget(c) PROVE CauseInv'
  <2>1. /\ call[c] # NoCall /\ call[c].at \in Replica /\ (Return(c) \/ Goto(c, "write"))
        /\ cache' = Drop(call[c].at)
        /\ UNCHANGED <<blocked, row, enabled, domain, reloads, tasks, cause>>
    BY <1>10, <1>r DEF Forget, At
  <2>2. /\ \A d \in Call : d # c => call'[d] = call[d]
        /\ \/ call'[c] = NoCall
           \/ call'[c].op = call[c].op /\ call'[c].step = "write" /\ call'[c].row = call[c].row
    BY <1>0, <2>1, ReturnLemma, GotoLemma DEF Step
  <2>3. \A r \in Replica : cause \/ cache'[r].row # "suspended"
    BY <2>1 DEF Drop, NoEntry, TypeOK, CauseInv, Blameless
  <2> QED  BY <2>1, <2>2, <2>3 DEF CauseInv, NoLifting, Blameless
<1>11. ASSUME NEW c \in Call, Write(c) PROVE CauseInv'
  <2>1. /\ call[c] # NoCall /\ call[c].op \in Operation /\ (Return(c) \/ Goto(c, "forget"))
        /\ row' = Written(call[c].op, call[c].row)
        /\ UNCHANGED <<blocked, enabled, cache, domain, reloads, tasks, cause>>
    BY <1>11, <1>r DEF Write, At
  <2>2. /\ \A d \in Call : d # c => call'[d] = call[d]
        /\ \/ call'[c] = NoCall
           \/ call'[c].op = call[c].op /\ call'[c].step = "forget" /\ call'[c].row = call[c].row
    BY <1>0, <2>1, ReturnLemma, GotoLemma DEF Step
  <2>3. cause \/ row' # "suspended"
    <3> SUFFICES ASSUME ~cause PROVE row' # "suspended"
      OBVIOUS
    <3>1. row # "suspended" /\ call[c].op # "suspend" /\ call[c].row # "suspended"
      BY <2>1 DEF CauseInv, Blameless
    <3> QED  BY <2>1, <3>1 DEF Written, Operation
  <2> QED  BY <2>1, <2>2, <2>3 DEF CauseInv, NoLifting, Blameless
<1>12. ASSUME NEW c \in Call, RedisFails(c) \/ WriteFails(c) PROVE CauseInv'
  <2>1. /\ call[c] # NoCall /\ (Return(c) \/ Goto(c, "forget"))
        /\ UNCHANGED <<blocked, row, enabled, cache, domain, reloads, tasks, cause>>
    BY <1>12 DEF RedisFails, WriteFails, At
  <2>2. "forget" \in Step  BY DEF Step
  <2> QED  BY <1>0, <1>a, <2>1, <2>2, ReturnLemma, GotoLemma
<1>i. \A r \in Replica : /\ cause \/ cache[r].row # "suspended"
                         /\ cause \/ domain[r] = TRUE
                         /\ cause \/ FALSE \notin reloads[r]
  BY DEF CauseInv, Blameless
<1>j. \A t \in tasks : cause \/ t.row # "suspended"
  BY DEF CauseInv, Blameless
<1>13. ASSUME NEW t \in tasks, LazyCreate(t) \/ Promote(t) \/ TaskFails(t) PROVE CauseInv'
  <2>1. /\ UNCHANGED <<blocked, enabled, cause, cache, domain, reloads, call>>
        /\ row' = row \/ row' # "suspended"
    BY <1>13 DEF LazyCreate, Promote, TaskFails
  <2>2. \A u \in tasks' : u \in tasks \/ u.row = row' \/ u.row = "none"
    BY <1>13, ReplaceLemma DEF LazyCreate, Promote, TaskFails
  <2>3. cause \/ row' # "suspended"
    BY <2>1 DEF CauseInv, Blameless
  <2> QED  BY <1>c, <1>i, <1>j, <2>1, <2>2, <2>3
<1>14. ASSUME NEW t \in tasks, Finish(t) PROVE CauseInv'
  <2>1. /\ UNCHANGED <<blocked, row, enabled, cause, domain, reloads, call>>
        /\ tasks' \subseteq tasks /\ (cache' = Put(t.at, t.row) \/ cache' = Drop(t.at))
    BY <1>14 DEF Finish
  <2>2. \A r \in Replica : cause \/ cache'[r].row # "suspended"
    <3>1. cache \in [Replica -> Entry] /\ (cause \/ t.row # "suspended")
      BY <1>j DEF TypeOK
    <3>2. ASSUME NEW e, e.row \in {t.row, "none"}, cache' = [cache EXCEPT ![t.at] = e]
          PROVE  \A r \in Replica : cause \/ cache'[r].row # "suspended"
      BY <1>i, <3>1, <3>2
    <3>3. [row |-> t.row, fresh |-> TRUE].row = t.row /\ NoEntry.row = "none"
      BY DEF NoEntry
    <3> QED  BY <2>1, <3>2, <3>3 DEF Put, Drop
  <2> QED  BY <1>c, <1>i, <1>j, <2>1, <2>2
<1>15. CASE ToggleDomain
  BY <1>15 DEF ToggleDomain, CauseInv, NoLifting
<1>16. ASSUME NEW r \in Replica, NEW b \in BOOLEAN,
              ReloadRead(r) \/ Age(r) \/ PushOut(r) \/ ReloadApply(r, b) \/ Crash(r, b)
       PROVE  CauseInv'
  <2>0. /\ cache \in [Replica -> Entry] /\ domain \in [Replica -> BOOLEAN]
        /\ reloads \in [Replica -> SUBSET BOOLEAN] /\ (cause \/ enabled = TRUE)
    BY DEF TypeOK, CauseInv, Blameless
  <2>1. /\ UNCHANGED <<blocked, row, enabled, cause>>
        /\ \A c \in Call : call'[c] = NoCall \/ call'[c] = call[c]
        /\ tasks' \subseteq tasks
    BY <1>16 DEF ReloadRead, Age, PushOut, ReloadApply, Crash
  <2>2. \A q \in Replica : cause \/ cache'[q].row # "suspended"
    <3>1. cache' = cache \/ cache' = Drop(r) \/ cache' = [cache EXCEPT ![r] = [cache[r] EXCEPT !.fresh = FALSE]]
      BY <1>16 DEF ReloadRead, Age, PushOut, ReloadApply, Crash
    <3> DEFINE aged == [cache[r] EXCEPT !.fresh = FALSE]
    <3>2. aged.row = cache[r].row /\ NoEntry.row = "none"
      BY <2>0 DEF Entry, NoEntry
    <3>3. cache' = cache \/ cache' = [cache EXCEPT ![r] = NoEntry] \/ cache' = [cache EXCEPT ![r] = aged]
      BY <3>1 DEF Drop
    <3> HIDE DEF aged
    <3> QED  BY <1>i, <2>0, <3>2, <3>3
  <2>3. \A q \in Replica : cause \/ domain'[q] = TRUE
    <3>1. \/ domain' = domain
          \/ \E v \in reloads[r] : domain' = [domain EXCEPT ![r] = v]
          \/ \E v \in {enabled, TRUE} : domain' = [domain EXCEPT ![r] = v]
      BY <1>16 DEF ReloadRead, Age, PushOut, ReloadApply, Crash
    <3>2. \A v \in reloads[r] : cause \/ v = TRUE
      BY <1>i, <2>0
    <3> QED  BY <1>i, <2>0, <3>1, <3>2
  <2>4. \A q \in Replica : cause \/ FALSE \notin reloads'[q]
    <3>1. \/ reloads' = reloads
          \/ reloads' = [reloads EXCEPT ![r] = reloads[r] \cup {enabled}]
          \/ reloads' = [reloads EXCEPT ![r] = reloads[r] \ {b}]
          \/ reloads' = [reloads EXCEPT ![r] = {}]
      BY <1>16 DEF ReloadRead, Age, PushOut, ReloadApply, Crash
    <3> QED  BY <1>i, <2>0, <3>1
  <2> QED  BY <1>c, <1>j, <2>1, <2>2, <2>3, <2>4
<1>17. CASE UNCHANGED vars
  BY <1>17, <1>c, <1>i, <1>j DEF vars
<1> QED
  BY <1>1, <1>2, <1>3, <1>4, <1>5, <1>6, <1>7, <1>8, <1>9, <1>10, <1>11, <1>12, <1>13,
     <1>14, <1>15, <1>16, <1>17
  DEF Next

(* Where nobody calls unsuspend(), a sender is blocked only if somebody    *)
(* suspended it, gave it that status or switched its domain: not by a      *)
(* stale cache, a failed write, a crash or a promotion.                    *)
THEOREM BlocksHaveCause ==
  ASSUME NobodyLifts
  PROVE  Spec => []BlocksAreJustified
<1>1. CauseInv => BlocksAreJustified  BY DEF CauseInv, Blameless, BlocksAreJustified
<1>2. Init => CauseInv  BY CauseInit
<1>3. TypeOK /\ CauseInv /\ [Next]_vars => CauseInv'  BY CauseNext
<1> QED  BY <1>1, <1>2, <1>3, TypeInit, TypeNext, PTL DEF Spec

-----------------------------------------------------------------------------
(***************************************************************************)
(* Blocklist and row agree when nothing is in flight, where only decide(), *)
(* the dashboard and suspend() touch the sender and nothing fails.         *)
(***************************************************************************)
Undisturbed == OnlySuspends /\ Faults = {} /\ ~MayPromote /\ ~MayDisable

(* A suspend() that has blocked the sender and will record it.             *)
Recording(c) == call[c] # NoCall /\ call[c].op = "suspend" /\ call[c].step \in {"forget", "write"}

(* No copy of the row is ahead of it, and a block is recorded or on its    *)
(* way into the row.                                                       *)
Agreement ==
  /\ blocked => row = "suspended" \/ \E c \in Call : Recording(c)
  /\ enabled = TRUE
  /\ \A r \in Replica :
       domain[r] = TRUE /\ reloads[r] = {} /\ (cache[r].row = "suspended" => row = "suspended")
  /\ \A t \in tasks : t.row = "suspended" => row = "suspended"
  /\ \A c \in Call : call[c] # NoCall /\ (call[c].row = "suspended" \/ call[c].step = "heal") =>
       row = "suspended"

LEMMA AgreeInit == Undisturbed /\ Init => Agreement
BY DEF Undisturbed, OnlySuspends, Init, Agreement, NoEntry

LEMMA AgreeNext ==
  Undisturbed /\ SafeInv /\ NoPromotion /\ Agreement /\ [Next]_vars => Agreement'
<1> SUFFICES ASSUME Undisturbed, SafeInv, NoPromotion, Agreement, [Next]_vars PROVE Agreement'
  OBVIOUS
<1>0. /\ CallsTyped /\ cache \in [Replica -> Entry]
      /\ \A c \in Call : call[c] # NoCall => call[c].at \in Replica /\ call[c].row \in Row \cup {"none"}
  BY DEF SafeInv, TypeOK, CallsTyped, InFlight
(* A step of one call that blocks and records nothing, perhaps filling     *)
(* its replica's cache.                                                    *)
<1>a. ASSUME NEW c \in Call, call[c] # NoCall, call[c].step \notin {"forget", "write"},
             UNCHANGED <<blocked, row, enabled, domain, reloads>>,
             \A d \in Call : d # c => call'[d] = call[d],
             \/ call'[c] = NoCall
             \/ /\ call'[c].step = "heal" => row = "suspended"
                /\ call'[c].row = "suspended" => row = "suspended",
             \A r \in Replica : cache'[r].row = "suspended" => row = "suspended",
             \A t \in tasks' : t.row = "suspended" => row = "suspended"
      PROVE  Agreement'
  <2>1. \A d \in Call : Recording(d) => Recording(d)'
    BY <1>a DEF Recording
  <2> QED  BY <1>a, <2>1 DEF Agreement
<1>i. /\ \A r \in Replica : cache[r].row = "suspended" => row = "suspended"
      /\ \A t \in tasks : t.row = "suspended" => row = "suspended"
  BY DEF Agreement
<1>b. ASSUME NEW c \in Call, call[c] # NoCall, call[c].step \notin {"forget", "write"},
             NEW seen, NEW entries, Resolve(c, seen, entries),
             UNCHANGED <<blocked, row, enabled, domain, reloads>>,
             seen = "suspended" => row = "suspended",
             entries \in [Replica -> Entry],
             \A r \in Replica : entries[r].row = "suspended" => row = "suspended"
      PROVE  Agreement'
  <2>1. /\ \A d \in Call : d # c => call'[d] = call[d]
        /\ \/ call'[c] = NoCall
           \/ /\ call'[c].row = call[c].row
              /\ call'[c].step = "heal" => seen = "suspended" \/ ~domain[call[c].at]
        /\ \/ tasks' = tasks
           \/ \E k \in {"create", "promote"} :
                tasks' = tasks \cup {[kind |-> k, at |-> call[c].at, row |-> "none"]}
        /\ \/ cache' = entries
           \/ cache' = [entries EXCEPT ![call[c].at] = [row |-> "absent", fresh |-> TRUE]]
    BY <1>0, <1>b, ResolveLemma
  <2>2. \A r \in Replica : cache'[r].row = "suspended" => row = "suspended"
    <3> DEFINE unknown == [row |-> "absent", fresh |-> TRUE]
    <3>1. unknown.row # "suspended"
      OBVIOUS
    <3> HIDE DEF unknown
    <3>2. cache' = entries \/ cache' = [entries EXCEPT ![call[c].at] = unknown]
      BY <2>1 DEF unknown
    <3> QED  BY <1>b, <3>1, <3>2
  <2>3. \A t \in tasks' : t \in tasks \/ t.row = "none"
    BY <2>1
  <2>4. \/ call'[c] = NoCall
        \/ /\ call'[c].step = "heal" => row = "suspended"
           /\ call'[c].row = "suspended" => row = "suspended"
    BY <1>0, <1>b, <2>1 DEF Agreement
  <2> QED  BY <1>a, <1>b, <1>i, <2>1, <2>2, <2>3, <2>4
(* A step of no call.                                                      *)
<1>c. ASSUME UNCHANGED <<blocked, enabled, domain, reloads, call>>,
             row = "suspended" => row' = "suspended",
             \A r \in Replica : cache'[r].row = "suspended" => row = "suspended",
             \A t \in tasks' : t.row = "suspended" => row' = "suspended"
      PROVE  Agreement'
  BY <1>c DEF Agreement, Recording
<1>1. ASSUME NEW c \in Call, NEW r \in Replica, NEW op \in Operation,
             NEW given \in Status \cup {"none"}, Begin(c, r, op, given)
      PROVE  Agreement'
  <2> DEFINE n == [at |-> r, op |-> op, step |-> FirstStep(op), row |-> given]
  <2>1. op \in {"decide", "top", "suspend"} /\ given = "none"
    BY <1>1 DEF Begin, Undisturbed, OnlySuspends
  <2>2. n.step \in {"blocklist", "lookup", "sadd"} /\ n.row = given
    BY <2>1 DEF FirstStep
  <2>3. call[c] = NoCall /\ call' = [call EXCEPT ![c] = n]
        /\ UNCHANGED <<blocked, row, enabled, cache, domain, reloads, tasks>>
    BY <1>1 DEF Begin
  <2> HIDE DEF n
  <2>4. call'[c] = n /\ \A d \in Call : d # c => call'[d] = call[d]
    BY <1>0, <2>3 DEF CallsTyped
  <2>5. \A d \in Call : Recording(d) => Recording(d)'
    BY <2>3, <2>4 DEF Recording
  <2> QED  BY <2>1, <2>2, <2>3, <2>4, <2>5 DEF Agreement
<1>2. ASSUME NEW c \in Call, IsSuspended(c) \/ RateCheck(c) PROVE Agreement'
  <2>1. /\ call[c] # NoCall /\ call[c].step \in {"blocklist", "quota"}
        /\ (Return(c) \/ Goto(c, "lookup") \/ Goto(c, "anomaly"))
        /\ UNCHANGED <<blocked, row, enabled, cache, domain, reloads, tasks>>
    BY <1>2 DEF IsSuspended, RateCheck, At
  <2>2. /\ \A d \in Call : d # c => call'[d] = call[d]
        /\ \/ call'[c] = NoCall
           \/ call'[c].step \in {"lookup", "anomaly"} /\ call'[c].row = call[c].row
    BY <1>0, <2>1, ReturnLemma, GotoLemma DEF Step
  <2>3. call[c].row = "suspended" => row = "suspended"
    BY <2>1 DEF Agreement
  <2> QED  BY <1>a, <1>i, <2>1, <2>2, <2>3
<1>3. ASSUME NEW c \in Call, Lookup(c) PROVE Agreement'
  <2> DEFINE e == cache[call[c].at]
  <2>1. /\ call[c] # NoCall /\ call[c].step = "lookup" /\ call[c].at \in Replica /\ e \in Entry
        /\ UNCHANGED <<blocked, row, enabled, domain, reloads>>
    BY <1>0, <1>3 DEF Lookup, At
  <2>2. e.row = "suspended" => row = "suspended"
    BY <1>i, <2>1
  <2>3. CASE e.fresh
    <3>1. Resolve(c, e.row, cache)  BY <1>3, <2>3 DEF Lookup
    <3> QED  BY <1>0, <1>b, <1>i, <2>1, <2>2, <3>1
  <2>4. CASE ~e.fresh
    <3>1. /\ call' = [call EXCEPT ![c].step = "read", ![c].row = e.row]
          /\ UNCHANGED <<cache, tasks>>
      BY <1>3, <2>4 DEF Lookup
    <3>2. e.row \in Row \cup {"none"} /\ "read" \in Step
      BY <2>1 DEF Entry, Step
    <3> HIDE DEF e
    <3>3. /\ call'[c].step = "read" /\ call'[c].row = e.row
          /\ \A d \in Call : d # c => call'[d] = call[d]
      <4>1. CallsTyped /\ call[c] # NoCall
        BY <1>0, <2>1
      <4>2. /\ call'[c].op = call[c].op /\ call'[c].step = "read" /\ call'[c].row = e.row
            /\ \A d \in Call : d # c => call'[d] = call[d]
        BY <4>1, <3>1, <3>2, ReadLemma DEF Step
      <4> QED  BY <4>2
    <3> QED  BY <1>a, <1>i, <2>1, <2>2, <3>1, <3>3
  <2> QED  BY <2>3, <2>4
<1>4. ASSUME NEW c \in Call, Read(c) PROVE Agreement'
  <2>1. /\ call[c] # NoCall /\ call[c].step = "read" /\ row \in Row \cup {"none"} /\ "fill" \in Step
        /\ call' = [call EXCEPT ![c].step = "fill", ![c].row = row]
        /\ UNCHANGED <<blocked, row, enabled, cache, domain, reloads, tasks>>
    BY <1>4 DEF Read, At, SafeInv, TypeOK, Step
  <2>2. /\ call'[c].step = "fill" /\ call'[c].row = row
        /\ \A d \in Call : d # c => call'[d] = call[d]
    BY <1>0, <2>1, ReadLemma DEF Step
  <2> QED  BY <1>a, <1>i, <2>1, <2>2
<1>5. ASSUME NEW c \in Call, Fill(c) PROVE Agreement'
  <2>1. /\ call[c] # NoCall /\ call[c].step = "fill" /\ call[c].at \in Replica
        /\ call[c].row \in Row \cup {"none"}
        /\ Resolve(c, call[c].row, Put(call[c].at, call[c].row))
        /\ UNCHANGED <<blocked, row, enabled, domain, reloads>>
    BY <1>0, <1>5 DEF Fill, At
  <2>2. call[c].row \in Row  BY <2>1 DEF Resolve
  <2>3. call[c].row = "suspended" => row = "suspended"
    BY <2>1 DEF Agreement
  <2>4. Put(call[c].at, call[c].row) \in [Replica -> Entry]
    BY <1>0, <2>1, <2>2, CacheLemma
  <2>5. \A r \in Replica : Put(call[c].at, call[c].row)[r].row = "suspended" => row = "suspended"
    BY <1>0, <1>i, <2>1, <2>3 DEF Put
  <2> QED  BY <1>b, <2>1, <2>3, <2>4, <2>5
<1>6. ASSUME NEW c \in Call PROVE ~ReadFails(c) /\ ~RedisFails(c) /\ ~WriteFails(c) /\ ~Srem(c)
  BY DEF Undisturbed, ReadFails, RedisFails, WriteFails, Srem, At, SafeInv, SaddFirst
<1>7. ASSUME NEW c \in Call, Heal(c) PROVE Agreement'
  <2>1. /\ call[c] # NoCall /\ call[c].step = "heal" /\ Return(c) /\ row = "suspended"
        /\ UNCHANGED <<row, enabled, cache, domain, reloads, tasks>>
    BY <1>7 DEF Heal, At, Agreement
  <2> QED  BY <1>0, <2>1, ReturnLemma DEF Agreement
<1>8. ASSUME NEW c \in Call, Evaluate(c) PROVE Agreement'
  <2>1. /\ call[c] # NoCall /\ call[c].step = "anomaly"
        /\ UNCHANGED <<blocked, row, enabled, cache, domain, reloads, tasks>>
        /\ \/ Return(c)
           \/ call' = [call EXCEPT ![c].op = "suspend", ![c].step = "sadd", ![c].row = "none"]
    BY <1>8 DEF Evaluate, At
  <2>2. /\ \A d \in Call : d # c => call'[d] = call[d]
        /\ call'[c] = NoCall \/ (call'[c].step = "sadd" /\ call'[c].row = "none")
    BY <1>0, <2>1, ReturnLemma, AutoSuspendLemma
  <2> QED  BY <1>a, <1>i, <2>1, <2>2
<1>9. ASSUME NEW c \in Call, Sadd(c) PROVE Agreement'
  <2>1. /\ call[c] # NoCall /\ call[c].op = "suspend" /\ Goto(c, "forget")
        /\ UNCHANGED <<row, enabled, cache, domain, reloads, tasks>>
    BY <1>9 DEF Sadd, At, SafeInv, SaddFirst
  <2>2. /\ call'[c].op = "suspend" /\ call'[c].step = "forget" /\ call'[c].row = call[c].row
        /\ \A d \in Call : d # c => call'[d] = call[d]
        /\ call'[c] # NoCall
    BY <1>0, <2>1, GotoLemma DEF Step
  <2>3. Recording(c)'
    BY <2>2 DEF Recording
  <2> QED  BY <2>1, <2>2, <2>3 DEF Agreement
<1>10. ASSUME NEW c \in Call, Forget(c) PROVE Agreement'
  <2>1. /\ call[c] # NoCall /\ call[c].op = "suspend" /\ call[c].at \in Replica /\ Goto(c, "write")
        /\ cache' = Drop(call[c].at)
        /\ UNCHANGED <<blocked, row, enabled, domain, reloads, tasks>>
    BY <1>0, <1>10 DEF Forget, At, SafeInv, SaddFirst
  <2>2. /\ call'[c].op = "suspend" /\ call'[c].step = "write" /\ call'[c].row = call[c].row
        /\ call'[c] # NoCall
        /\ \A d \in Call : d # c => call'[d] = call[d]
    BY <1>0, <2>1, GotoLemma DEF Step
  <2>3. \A r \in Replica : cache'[r].row = "suspended" => row = "suspended"
    BY <1>0, <1>i, <2>1 DEF Drop, NoEntry
  <2>4. \A d \in Call : Recording(d) => Recording(d)'
    BY <2>1, <2>2 DEF Recording
  <2> QED  BY <2>1, <2>2, <2>3, <2>4 DEF Agreement
<1>11. ASSUME NEW c \in Call, Write(c) PROVE Agreement'
  <2>1. /\ call[c].op = "suspend" /\ Return(c) /\ row' = "suspended"
        /\ UNCHANGED <<blocked, enabled, cache, domain, reloads, tasks>>
    BY <1>11 DEF Write, Written, At, SafeInv, SaddFirst
  <2> QED  BY <1>0, <2>1, ReturnLemma DEF Agreement
<1>12. ASSUME NEW t \in tasks, LazyCreate(t) PROVE Agreement'
  <2>1. /\ UNCHANGED <<blocked, enabled, cache, domain, reloads, call>>
        /\ row' = IF row = "absent" THEN "warmup" ELSE row
        /\ Replace(t, "created", row')
    BY <1>12 DEF LazyCreate
  <2>2. \A u \in tasks' : u \in tasks \/ u.row = row'
    BY <2>1, ReplaceLemma
  <2> QED  BY <1>c, <1>i, <2>1, <2>2
<1>13. ASSUME NEW t \in tasks PROVE ~Promote(t) /\ ~TaskFails(t)
  BY DEF Undisturbed, Promote, TaskFails, NoPromotion
<1>14. ASSUME NEW t \in tasks, Finish(t) PROVE Agreement'
  <2>1. /\ UNCHANGED <<blocked, row, enabled, domain, reloads, call>>
        /\ tasks' \subseteq tasks /\ (cache' = Put(t.at, t.row) \/ cache' = Drop(t.at))
    BY <1>14 DEF Finish
  <2>2. \A r \in Replica : cache'[r].row = "suspended" => row = "suspended"
    <3>1. ASSUME NEW e, e.row \in {t.row, "none"}, cache' = [cache EXCEPT ![t.at] = e]
          PROVE  \A r \in Replica : cache'[r].row = "suspended" => row = "suspended"
      BY <1>0, <1>i, <3>1
    <3>2. [row |-> t.row, fresh |-> TRUE].row = t.row /\ NoEntry.row = "none"
      BY DEF NoEntry
    <3> QED  BY <2>1, <3>1, <3>2 DEF Put, Drop
  <2> QED  BY <1>c, <1>i, <2>1, <2>2
<1>15. ~ToggleDomain
  BY DEF Undisturbed, ToggleDomain
<1>16. ASSUME NEW r \in Replica, NEW b \in BOOLEAN
       PROVE  ~ReloadRead(r) /\ ~ReloadApply(r, b) /\ ~Crash(r, b)
  BY DEF Undisturbed, ReloadRead, ReloadApply, Crash, Agreement
<1>17. ASSUME NEW r \in Replica, Age(r) \/ PushOut(r) PROVE Agreement'
  <2> DEFINE aged == [cache[r] EXCEPT !.fresh = FALSE]
  <2>1. /\ UNCHANGED <<blocked, row, enabled, domain, reloads, call, tasks>>
        /\ cache' = [cache EXCEPT ![r] = NoEntry] \/ cache' = [cache EXCEPT ![r] = aged]
    BY <1>17 DEF Age, PushOut, Drop
  <2>2. aged.row = cache[r].row /\ NoEntry.row = "none"
    BY <1>0 DEF Entry, NoEntry
  <2> HIDE DEF aged
  <2>3. \A q \in Replica : cache'[q].row = "suspended" => row = "suspended"
    BY <1>0, <1>i, <2>1, <2>2
  <2> QED  BY <1>c, <1>i, <2>1, <2>3
<1>18. CASE UNCHANGED vars
  BY <1>18, <1>c, <1>i DEF vars
<1> QED
  BY <1>1, <1>2, <1>3, <1>4, <1>5, <1>6, <1>7, <1>8, <1>9, <1>10, <1>11, <1>12, <1>13,
     <1>14, <1>15, <1>16, <1>17, <1>18
  DEF Next

(* Any number of concurrent messages and suspensions leave blocklist and   *)
(* row in agreement once they are through, stale caches and late           *)
(* background work included, as long as nothing fails.                     *)
THEOREM AgreesWhenQuiet ==
  ASSUME Undisturbed
  PROVE  Spec => []AgreeWhenQuiet
<1>1. SafeInv /\ Agreement => AgreeWhenQuiet
  BY DEF SafeInv, BlockedBeforeRecorded, Agreement, Recording, Quiet, AgreeWhenQuiet
<1>2. OnlySuspends /\ ~MayPromote
  BY DEF Undisturbed
<1>3. Init => SafeInv /\ NoPromotion /\ Agreement
  BY <1>2, SafeInit, PromotionInit, AgreeInit
<1>4. SafeInv /\ NoPromotion /\ Agreement /\ [Next]_vars => (SafeInv /\ NoPromotion /\ Agreement)'
  BY <1>2, SafeNext, PromotionNext, AgreeNext DEF SafeInv
<1> QED  BY <1>1, <1>3, <1>4, PTL DEF Spec
=============================================================================
