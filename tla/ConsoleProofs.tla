---------------------------- MODULE ConsoleProofs ----------------------------
(***************************************************************************)
(* Proofs about Console, for any number of handlers, clicks and failures:  *)
(* the polling timer, the screen and the rows.                             *)
(***************************************************************************)
EXTENDS Console, TLAPS

(* What a handler that still has its element knows of the view.            *)
InPage ==
  \A h \in Handler : handler[h] # Idle =>
    /\ handler[h].step = "cards" => handler[h].for = "dashboard"
    /\ handler[h].attached =>
         /\ handler[h].step = "table" => handler[h].for = view.of
         /\ handler[h].step = "cards" /\ "top" \in handler[h].out => view.of = "dashboard"

(* The part of the state the timer and the screen depend on.               *)
Shell == OneTimer /\ ScreenMatchesSession
Page == RowsOfTheirTab /\ InPage

IInv == TypeOK /\ Shell /\ Page

-----------------------------------------------------------------------------
(* Each piece of synchronous code keeps the timer's handle in step.        *)
LEMMA StopKeeps == ASSUME TypeOK, OneTimer, StopDashTimer
                   PROVE  OneTimer' /\ timers' \in Nat /\ dashTimer' \in BOOLEAN
<1>1. timers' = 0
  <2>1. CASE dashTimer
    BY <2>1 DEF OneTimer, StopDashTimer
  <2>2. CASE ~dashTimer
    BY <2>2 DEF OneTimer, StopDashTimer
  <2> QED BY <2>1, <2>2
<1>2. dashTimer' = FALSE
  BY Zenon DEF StopDashTimer
<1> QED BY <1>1, <1>2 DEF OneTimer

LEMMA StartKeeps == ASSUME TypeOK, OneTimer, StartDashTimer
                    PROVE  OneTimer' /\ timers' \in Nat /\ dashTimer' \in BOOLEAN
<1>1. timers' = 1
  <2>1. CASE dashTimer
    BY <2>1 DEF OneTimer, StartDashTimer
  <2>2. CASE ~dashTimer
    BY <2>2 DEF OneTimer, StartDashTimer
  <2> QED BY <2>1, <2>2
<1>2. dashTimer' = TRUE
  BY Zenon DEF StartDashTimer
<1> QED BY <1>1, <1>2 DEF OneTimer

(* Whatever api() meets, session, screen and timer agree afterwards.       *)
LEMMA SessionKeeps ==
  ASSUME TypeOK, Shell, NEW reply, Session(reply)
  PROVE  /\ Shell' /\ timers' \in Nat /\ dashTimer' \in BOOLEAN
         /\ token' \in BOOLEAN /\ screen' \in {"login", "app"}
<1>1. CASE reply = "denied"
  <2>1. StopDashTimer /\ screen' = "login" /\ token' = FALSE
    BY <1>1 DEF Session, Denied, ShowLogin
  <2> QED BY <2>1, StopKeeps DEF Shell, ScreenMatchesSession
<1>2. CASE reply # "denied"
  BY <1>2 DEF Session, Shell, ScreenMatchesSession, OneTimer, TypeOK
<1> QED BY <1>1, <1>2

(* A request that has just been issued is a handler of the right type.     *)
LEMMA WaitingType ==
  ASSUME NEW x \in Tab, NEW step \in {"login", "need", "cards", "table", "save"},
         NEW signed \in BOOLEAN
  PROVE  Waiting(x, step, signed) \in InFlight
  BY DEF Waiting, InFlight

LEMMA DetachedType ==
  ASSUME NEW me \in InFlight \cup {Idle}
  PROVE  /\ Detached(me) \in InFlight \cup {Idle}
         /\ Detached(me) # Idle =>
              /\ me # Idle /\ ~Detached(me).attached
              /\ Detached(me).step = me.step /\ Detached(me).for = me.for
<1>1. CASE me = Idle
  BY <1>1 DEF Detached
<1>2. CASE me # Idle
  <2>1. me \in InFlight /\ Detached(me) = [me EXCEPT !.attached = FALSE]
    BY <1>2 DEF Detached
  <2> QED BY <1>2, <2>1 DEF InFlight
<1> QED BY <1>1, <1>2

(* A loader leaves an empty view of its own tab, and every handler of the  *)
(* view before without its element; or it leaves the page alone.           *)
LEMMA LoadKeeps ==
  ASSUME TypeOK, Page, NEW h \in Handler, NEW x \in Tab, NEW needs \in SUBSET Cache,
         NEW full, NEW signed \in BOOLEAN, Load(h, x, needs, full, signed)
  PROVE  /\ Page'
         /\ handler' \in [Handler -> InFlight \cup {Idle}]
         /\ view' \in [of: Tab \cup {"none"}, rows: SUBSET Tab]
<1> DEFINE missing == needs \ full
           need == Needing(x, missing, signed)
           drawn == [of |-> x, rows |-> {}]
<1>1. CASE missing # {}
  <2>1. handler' = [handler EXCEPT ![h] = need] /\ view' = view
    BY <1>1 DEF Load
  <2>2. need \in InFlight /\ need.step = "need"
    BY DEF Needing, InFlight
  <2> QED BY <2>1, <2>2 DEF TypeOK, Page, RowsOfTheirTab, InPage
<1>2. CASE missing = {}
  <2> DEFINE me == IF x = "dashboard" THEN Refreshing(Refresh(drawn), TRUE, signed)
                  ELSE Waiting(x, "table", signed)
  <2>1. /\ view' = drawn
        /\ handler' = [g \in Handler |-> IF g = h THEN me ELSE Detached(handler[g])]
    BY <1>2 DEF Load
  <2>2. /\ me \in InFlight /\ me.for = x
        /\ me.step = (IF x = "dashboard" THEN "cards" ELSE "table")
    BY DEF Waiting, Refreshing, InFlight, Refresh
  <2>3. \A g \in Handler : handler[g] \in InFlight \cup {Idle}
    BY DEF TypeOK
  <2>4. handler' \in [Handler -> InFlight \cup {Idle}]
    BY <2>1, <2>2, <2>3, DetachedType
  <2>5. InPage'
    <3> SUFFICES ASSUME NEW g \in Handler, handler'[g] # Idle
                 PROVE  /\ handler'[g].step = "cards" => handler'[g].for = "dashboard"
                        /\ handler'[g].attached =>
                             /\ handler'[g].step = "table" => handler'[g].for = view'.of
                             /\ handler'[g].step = "cards" /\ "top" \in handler'[g].out
                                  => view'.of = "dashboard"
      BY DEF InPage
    <3>1. CASE g = h
      BY <3>1, <2>1, <2>2
    <3>2. CASE g # h
      <4>1. handler[g] \in InFlight \cup {Idle} /\ handler'[g] = Detached(handler[g])
        BY <3>2, <2>1, <2>3
      <4>2. /\ ~handler'[g].attached /\ handler[g] # Idle
            /\ handler'[g].step = handler[g].step /\ handler'[g].for = handler[g].for
        BY <4>1, DetachedType
      <4> QED BY <4>2 DEF Page, InPage
    <3> QED BY <3>1, <3>2
  <2>6. RowsOfTheirTab' /\ view' \in [of: Tab \cup {"none"}, rows: SUBSET Tab]
    BY <2>1 DEF RowsOfTheirTab
  <2> QED BY <2>4, <2>5, <2>6 DEF Page
<1> QED BY <1>1, <1>2

(* A handler that starts, ends or is replaced, in a view that stays.       *)
LEMMA ReplaceKeeps ==
  ASSUME TypeOK, Page, NEW h \in Handler, NEW me \in InFlight \cup {Idle},
         handler' = [handler EXCEPT ![h] = me], view'.of = view.of,
         me # Idle =>
           /\ me.step = "cards" => me.for = "dashboard"
           /\ me.attached => /\ me.step = "table" => me.for = view.of
                             /\ me.step = "cards" /\ "top" \in me.out => view.of = "dashboard"
  PROVE  InPage' /\ handler' \in [Handler -> InFlight \cup {Idle}]
  BY DEF TypeOK, Page, InPage

(* What every action leaves typed, whatever else it does.                  *)
LEMMA CountersKept ==
  ASSUME TypeOK
  PROVE  /\ Clicks => clicks' \in 0..MaxClicks
         /\ \A reply : Failing(reply) => failures' \in 0..MaxFailures
  BY ConsoleAssumption DEF TypeOK, Clicks, Failing

LEMMA FetchedType ==
  ASSUME TypeOK, NEW d \in Cache
  PROVE  Fetched(d) \subseteq SUBSET Cache
  BY DEF TypeOK, Fetched

-----------------------------------------------------------------------------
(* init() establishes it.                                                  *)
LEMMA InitOK == Init => IInv
<1> SUFFICES ASSUME Init PROVE IInv
  OBVIOUS
<1> DEFINE first == Refreshing({"stats", "top"}, TRUE, TRUE)
<1>1. first \in InFlight /\ first.for = "dashboard" /\ first.step = "cards"
  BY DEF Refreshing, InFlight, Tab
<1>2. PICK h \in Handler : handler = [g \in Handler |-> IF g = h /\ token THEN first ELSE Idle]
  BY DEF Init
<1>3. token => view.of = "dashboard"
  BY DEF Init
<1>4. TypeOK
  <2>1. handler \in [Handler -> InFlight \cup {Idle}]
    BY <1>1, <1>2
  <2>2. view \in [of: Tab \cup {"none"}, rows: SUBSET Tab] /\ tab \in Tab /\ screen \in {"login", "app"}
    BY DEF Init, Tab
  <2>3. token \in BOOLEAN /\ dashTimer \in BOOLEAN /\ timers \in Nat /\ cached \subseteq Cache
    BY DEF Init
  <2>4. clicks \in 0..MaxClicks /\ failures \in 0..MaxFailures
    BY ConsoleAssumption DEF Init
  <2> QED BY <2>1, <2>2, <2>3, <2>4 DEF TypeOK
<1>5. Shell
  BY DEF Init, Shell, OneTimer, ScreenMatchesSession
<1>6. Page
  BY <1>1, <1>2, <1>3 DEF Init, Page, RowsOfTheirTab, InPage
<1> QED BY <1>4, <1>5, <1>6 DEF IInv

(* A click that leads to another view.                                     *)
LEMMA ClicksKeep ==
  ASSUME IInv, NEW h \in Handler,
         \/ \E x \in Tab : Choose(h, x)
         \/ Reload(h) \/ Redraw(h) \/ Save(h) \/ LogIn(h) \/ Poll(h)
  PROVE  IInv'
<1> USE DEF IInv
<1>1. ASSUME NEW x \in Tab, Choose(h, x)
      PROVE  IInv'
  <2>1. StopDashTimer /\ Load(h, x, Needs(x), cached, token) /\ tab' = x /\ Clicks
        /\ UNCHANGED <<token, screen, cached, failures>>
    BY <1>1 DEF Choose, SetTab
  <2>2. Needs(x) \in SUBSET Cache /\ token \in BOOLEAN
    BY DEF Needs, TypeOK
  <2>3. /\ Page' /\ handler' \in [Handler -> InFlight \cup {Idle}]
        /\ view' \in [of: Tab \cup {"none"}, rows: SUBSET Tab]
    BY <2>1, <2>2, LoadKeeps
  <2>4. OneTimer' /\ timers' \in Nat /\ dashTimer' \in BOOLEAN
    BY <2>1, StopKeeps DEF Shell
  <2>5. ScreenMatchesSession'
    BY <2>1 DEF Shell, ScreenMatchesSession
  <2> QED BY <2>1, <2>3, <2>4, <2>5, CountersKept DEF TypeOK, Shell
<1>2. CASE Reload(h)
  <2>1. /\ Load(h, view.of, Needs(view.of), cached, token) /\ Clicks /\ view.of \in Tab
        /\ UNCHANGED <<token, screen, tab, cached, dashTimer, timers, failures>>
    BY <1>2 DEF Reload, Tab
  <2>2. Needs(view.of) \in SUBSET Cache /\ token \in BOOLEAN
    BY DEF Needs, TypeOK
  <2>3. /\ Page' /\ handler' \in [Handler -> InFlight \cup {Idle}]
        /\ view' \in [of: Tab \cup {"none"}, rows: SUBSET Tab]
    BY <2>1, <2>2, LoadKeeps
  <2> QED BY <2>1, <2>3, CountersKept DEF TypeOK, Shell, OneTimer, ScreenMatchesSession
<1>3. ASSUME NEW me \in InFlight, handler' = [handler EXCEPT ![h] = me], view' = view,
             UNCHANGED <<token, screen, tab, cached, dashTimer, timers, failures>>,
             Clicks \/ UNCHANGED clicks,
             me.step = "cards" => me.for = "dashboard",
             me.step = "table" => me.for = view.of,
             me.step = "cards" /\ "top" \in me.out => view.of = "dashboard"
      PROVE  IInv'
  <2>1. InPage' /\ handler' \in [Handler -> InFlight \cup {Idle}]
    BY <1>3, ReplaceKeeps
  <2>2. TypeOK'
    BY <1>3, <2>1, CountersKept DEF TypeOK
  <2>3. Shell' /\ RowsOfTheirTab'
    BY <1>3 DEF Shell, OneTimer, ScreenMatchesSession, Page, RowsOfTheirTab
  <2> QED BY <2>1, <2>2, <2>3 DEF Page
<1>4. CASE Redraw(h)
  <2>1. /\ Clicks
        /\ UNCHANGED <<token, screen, tab, view, cached, dashTimer, timers, failures>>
        /\ token \in BOOLEAN
    BY <1>4 DEF Redraw, TypeOK
  <2>2. CASE /\ view.of \in Tab
             /\ handler' = [handler EXCEPT ![h] = Waiting(view.of, "table", token)]
    <3>1. /\ Waiting(view.of, "table", token) \in InFlight
          /\ Waiting(view.of, "table", token).for = view.of
          /\ Waiting(view.of, "table", token).step = "table"
      BY <2>1, <2>2, WaitingType DEF Waiting
    <3> QED BY <1>3, <2>1, <2>2, <3>1
  <2>3. ASSUME NEW out \in SUBSET {"stats", "top"}, view.of = "dashboard",
               handler' = [handler EXCEPT ![h] = Refreshing(out, FALSE, token)]
        PROVE  IInv'
    <3>1. /\ Refreshing(out, FALSE, token) \in InFlight
          /\ Refreshing(out, FALSE, token).for = "dashboard"
          /\ Refreshing(out, FALSE, token).step = "cards"
      BY <2>1 DEF Refreshing, InFlight, Tab
    <3> QED BY <1>3, <2>1, <2>3, <3>1
  <2> QED BY <1>4, <2>2, <2>3 DEF Redraw, Refresh
<1>5. CASE Save(h)
  <2>1. /\ Clicks /\ view.of \in Tab /\ token \in BOOLEAN
        /\ UNCHANGED <<token, screen, tab, view, cached, dashTimer, timers, failures>>
        /\ handler' = [handler EXCEPT ![h] = Waiting(view.of, "save", token)]
    BY <1>5 DEF Save, TypeOK, Tab
  <2>2. Waiting(view.of, "save", token) \in InFlight /\ Waiting(view.of, "save", token).step = "save"
    BY <2>1, WaitingType DEF Waiting
  <2> QED BY <1>3, <2>1, <2>2
<1>6. CASE LogIn(h)
  <2>1. /\ Clicks /\ tab \in Tab /\ token \in BOOLEAN
        /\ UNCHANGED <<token, screen, tab, view, cached, dashTimer, timers, failures>>
        /\ handler' = [handler EXCEPT ![h] = Waiting(tab, "login", token)]
    BY <1>6 DEF LogIn, TypeOK
  <2>2. Waiting(tab, "login", token) \in InFlight /\ Waiting(tab, "login", token).step = "login"
    BY <2>1, WaitingType DEF Waiting
  <2> QED BY <1>3, <2>1, <2>2
<1>7. CASE Poll(h)
  <2>1. /\ token \in BOOLEAN
        /\ UNCHANGED <<token, screen, tab, view, cached, dashTimer, timers, clicks, failures>>
        /\ handler' = [handler EXCEPT ![h] = Refreshing(Refresh(view), FALSE, token)]
    BY <1>7 DEF Poll, TypeOK
  <2>2. /\ Refreshing(Refresh(view), FALSE, token) \in InFlight
        /\ Refreshing(Refresh(view), FALSE, token).for = "dashboard"
        /\ "top" \in Refreshing(Refresh(view), FALSE, token).out => view.of = "dashboard"
    BY <2>1 DEF Refreshing, Refresh, InFlight, Tab
  <2>3. Refreshing(Refresh(view), FALSE, token).step = "cards"
    BY DEF Refreshing
  <2> QED BY <1>3, <2>1, <2>2, <2>3
<1> QED BY <1>1, <1>2, <1>4, <1>5, <1>6, <1>7

(* Log out.                                                                *)
LEMMA LogOutKeeps == ASSUME IInv, LogOut PROVE IInv'
<1> USE DEF IInv
<1>1. /\ token' = FALSE /\ screen' = "login" /\ StopDashTimer /\ Clicks
      /\ UNCHANGED <<tab, view, cached, handler, failures>>
  BY DEF LogOut, ShowLogin
<1>2. OneTimer' /\ timers' \in Nat /\ dashTimer' \in BOOLEAN
  BY <1>1, StopKeeps DEF Shell
<1>3. TypeOK'
  BY <1>1, <1>2, CountersKept DEF TypeOK
<1>4. Page' /\ ScreenMatchesSession'
  BY <1>1 DEF Page, RowsOfTheirTab, InPage, ScreenMatchesSession
<1> QED BY <1>2, <1>3, <1>4 DEF Shell

(* An answer of the API.                                                   *)
LEMMA AnswersKeep ==
  ASSUME IInv, NEW h \in Handler, NEW reply \in {"ok", "denied", "failed"},
         \/ LoggedIn(h, reply) \/ NeedAnswered(h, reply)
         \/ TableAnswered(h, reply) \/ Saved(h, reply)
         \/ \E which \in {"stats", "top"} : CardsAnswered(h, which, reply)
  PROVE  IInv'
<1> USE DEF IInv
<1> DEFINE me == handler[h]
<1>1. me # Idle => me \in InFlight
  BY DEF TypeOK
<1>2. /\ Session(reply) => /\ Shell' /\ timers' \in Nat /\ dashTimer' \in BOOLEAN
                           /\ token' \in BOOLEAN /\ screen' \in {"login", "app"}
      /\ End(h) /\ view'.of = view.of =>
           InPage' /\ handler' \in [Handler -> InFlight \cup {Idle}]
  BY SessionKeeps, ReplaceKeeps DEF End
<1>3. CASE LoggedIn(h, reply)
  <2>1. /\ UNCHANGED <<cached, clicks>> /\ failures' \in 0..MaxFailures
    BY <1>3, CountersKept DEF LoggedIn
  <2>2. CASE reply = "ok"
    <3>1. /\ token' = TRUE /\ screen' = "app" /\ tab' = tab
          /\ StopDashTimer /\ Load(h, tab, Needs(tab), cached, TRUE)
      BY <1>3, <2>2 DEF LoggedIn, SetTab
    <3>2. tab \in Tab /\ Needs(tab) \in SUBSET Cache
      BY DEF TypeOK, Needs
    <3>3. /\ Page' /\ handler' \in [Handler -> InFlight \cup {Idle}]
          /\ view' \in [of: Tab \cup {"none"}, rows: SUBSET Tab]
      BY <3>1, <3>2, LoadKeeps
    <3>4. OneTimer' /\ timers' \in Nat /\ dashTimer' \in BOOLEAN
      BY <3>1, StopKeeps DEF Shell
    <3>5. ScreenMatchesSession'
      BY <3>1 DEF ScreenMatchesSession
    <3> QED BY <2>1, <3>1, <3>3, <3>4, <3>5 DEF TypeOK, Shell
  <2>3. CASE reply # "ok"
    <3>1. Session(reply) /\ End(h) /\ UNCHANGED <<tab, view>>
      BY <1>3, <2>3 DEF LoggedIn
    <3>2. Page'
      BY <1>2, <3>1 DEF Page, RowsOfTheirTab
    <3> QED BY <1>2, <2>1, <3>1, <3>2 DEF TypeOK
  <2> QED BY <2>2, <2>3
<1>4. CASE NeedAnswered(h, reply)
  <2> DEFINE d == First(me.needs)
  <2>1. /\ me \in InFlight /\ Session(reply) /\ UNCHANGED <<tab, clicks>>
        /\ cached' \in (IF reply = "ok" THEN Fetched(d) ELSE {cached})
        /\ Load(h, me.for, me.needs \ {d}, cached', token')
        /\ failures' \in 0..MaxFailures
    BY <1>1, <1>4, CountersKept DEF NeedAnswered, At
  <2>2. me.for \in Tab /\ me.needs \ {d} \in SUBSET Cache /\ token' \in BOOLEAN
    BY <1>2, <2>1 DEF InFlight
  <2>3. d \in Cache
    BY DEF First, Cache
  <2>4. cached' \subseteq Cache
    BY <2>1, <2>3, FetchedType DEF TypeOK
  <2>5. /\ Page' /\ handler' \in [Handler -> InFlight \cup {Idle}]
        /\ view' \in [of: Tab \cup {"none"}, rows: SUBSET Tab]
    <3> DEFINE x == me.for
               left == me.needs \ {d}
    <3>1. x \in Tab /\ left \in SUBSET Cache /\ token' \in BOOLEAN /\ Load(h, x, left, cached', token')
      BY <2>1, <2>2
    <3> HIDE DEF x, left
    <3> QED BY <3>1, LoadKeeps
  <2> QED BY <1>2, <2>1, <2>4, <2>5 DEF TypeOK
<1>5. CASE TableAnswered(h, reply)
  <2>1. /\ me # Idle /\ me \in InFlight /\ me.step = "table" /\ End(h)
        /\ Session(reply) /\ UNCHANGED <<tab, clicks>> /\ failures' \in 0..MaxFailures
        /\ cached' \in (IF reply = "ok" /\ me.for = "tiers" THEN Fetched("tiers") ELSE {cached})
        /\ \/ view' = view
           \/ me.attached /\ view' = [view EXCEPT !.rows = @ \cup {me.for}]
    BY <1>1, <1>5, CountersKept DEF TableAnswered, At
  <2>2. cached' \subseteq Cache
    BY <2>1, FetchedType DEF TypeOK, Cache
  <2>3. me.for \in Tab /\ (me.attached => me.for = view.of)
    BY <2>1 DEF Page, InPage, InFlight
  <2>4. /\ view' \in [of: Tab \cup {"none"}, rows: SUBSET Tab] /\ view'.of = view.of
        /\ RowsOfTheirTab'
    BY <2>1, <2>3 DEF TypeOK, Page, RowsOfTheirTab
  <2> QED BY <1>2, <2>1, <2>2, <2>4 DEF TypeOK, Page
<1>6. CASE Saved(h, reply)
  <2>1. /\ me # Idle /\ me \in InFlight
        /\ Session(reply) /\ UNCHANGED <<tab, view, clicks>> /\ failures' \in 0..MaxFailures
        /\ cached' \subseteq cached
        /\ \/ End(h)
           \/ /\ view.of = me.for
              /\ handler' = [handler EXCEPT ![h] = Waiting(me.for, "table", token')]
    BY <1>1, <1>6, CountersKept DEF Saved, At
  <2>2. InPage' /\ handler' \in [Handler -> InFlight \cup {Idle}]
    <3>1. CASE End(h)
      BY <1>2, <2>1, <3>1
    <3>2. CASE /\ view.of = me.for
               /\ handler' = [handler EXCEPT ![h] = Waiting(me.for, "table", token')]
      <4>1. me.for \in Tab /\ token' \in BOOLEAN
        BY <1>2, <2>1 DEF InFlight
      <4>2. /\ Waiting(me.for, "table", token') \in InFlight
            /\ Waiting(me.for, "table", token').for = view.of
            /\ Waiting(me.for, "table", token').step = "table"
        BY <3>2, <4>1, WaitingType DEF Waiting
      <4> QED BY <2>1, <3>2, <4>2, ReplaceKeeps
    <3> QED BY <2>1, <3>1, <3>2
  <2>3. Page'
    BY <2>1, <2>2 DEF Page, RowsOfTheirTab
  <2> QED BY <1>2, <2>1, <2>2, <2>3 DEF TypeOK
<1>7. ASSUME NEW which \in {"stats", "top"}, CardsAnswered(h, which, reply)
      PROVE  IInv'
  <2> DEFINE out == me.out \ {which}
  <2>1. /\ me # Idle /\ me \in InFlight /\ me.step = "cards" /\ which \in me.out
        /\ UNCHANGED <<tab, clicks>> /\ failures' \in 0..MaxFailures
        /\ cached' \in {cached, cached \cup {"mode"}}
        /\ \/ view' = view
           \/ /\ IF which = "stats" THEN view.of = "dashboard" ELSE me.attached
              /\ view' = [view EXCEPT !.rows = @ \cup {me.for}]
        /\ End(h) \/ handler' = [handler EXCEPT ![h].out = out]
    BY <1>1, <1>7, CountersKept DEF CardsAnswered, At
  <2>2. me.for = "dashboard" /\ (me.attached /\ "top" \in me.out => view.of = "dashboard")
    BY <2>1 DEF Page, InPage
  <2>3. /\ view' \in [of: Tab \cup {"none"}, rows: SUBSET Tab] /\ view'.of = view.of
        /\ RowsOfTheirTab'
    BY <2>1, <2>2 DEF TypeOK, Tab, Page, RowsOfTheirTab
  <2>4. InPage' /\ handler' \in [Handler -> InFlight \cup {Idle}]
    <3>1. CASE End(h)
      BY <1>2, <2>3, <3>1
    <3>2. CASE handler' = [handler EXCEPT ![h].out = out]
      <4> DEFINE rest == [me EXCEPT !.out = out]
      <4>1. handler' = [handler EXCEPT ![h] = rest]
        BY <3>2 DEF TypeOK
      <4>2. /\ rest \in InFlight /\ rest.step = "cards" /\ rest.for = me.for
            /\ rest.attached = me.attached /\ ("top" \in rest.out => "top" \in me.out)
        BY <2>1 DEF InFlight
      <4> QED BY <2>2, <2>3, <4>1, <4>2, ReplaceKeeps
    <3> QED BY <2>1, <3>1, <3>2
  <2>5. /\ Shell' /\ timers' \in Nat /\ dashTimer' \in BOOLEAN
        /\ token' \in BOOLEAN /\ screen' \in {"login", "app"}
    <3>1. CASE Session(reply)
      BY <1>2, <3>1
    <3>2. CASE /\ StartDashTimer /\ token' = (token /\ reply # "denied")
               /\ screen' = IF reply = "denied" THEN "login" ELSE screen
      <4>1. OneTimer' /\ timers' \in Nat /\ dashTimer' \in BOOLEAN
        BY <3>2, StartKeeps DEF Shell
      <4>2. ScreenMatchesSession' /\ token' \in BOOLEAN /\ screen' \in {"login", "app"}
        <5>1. CASE reply = "denied"
          <6>1. token' = FALSE /\ screen' = "login"
            BY <3>2, <5>1
          <6> QED BY <6>1 DEF ScreenMatchesSession
        <5>2. CASE reply # "denied"
          <6>1. token' = token /\ screen' = screen
            BY <3>2, <5>2 DEF TypeOK
          <6> QED BY <6>1 DEF Shell, ScreenMatchesSession, TypeOK
        <5> QED BY <5>1, <5>2
      <4> QED BY <4>1, <4>2 DEF Shell
    <3> QED BY <1>7, <3>1, <3>2 DEF CardsAnswered
  <2>6. cached' \subseteq Cache
    BY <2>1 DEF TypeOK, Cache
  <2> QED BY <2>1, <2>3, <2>4, <2>5, <2>6 DEF TypeOK, Page
<1> QED BY <1>3, <1>4, <1>5, <1>6, <1>7

LEMMA NextKeeps == IInv /\ [Next]_vars => IInv'
<1> SUFFICES ASSUME IInv, [Next]_vars PROVE IInv'
  OBVIOUS
<1>1. CASE Next
  <2>0. CASE LogOut
    BY <2>0, LogOutKeeps
  <2>1. ASSUME NEW h \in Handler,
               \/ \E x \in Tab : Choose(h, x)
               \/ Reload(h) \/ Redraw(h) \/ Save(h) \/ LogIn(h) \/ Poll(h)
        PROVE  IInv'
    BY <2>1, ClicksKeep
  <2>2. ASSUME NEW h \in Handler, Answered(h)
        PROVE  IInv'
    BY <2>2, AnswersKeep DEF Answered
  <2> QED BY <1>1, <2>0, <2>1, <2>2 DEF Next
<1>2. CASE UNCHANGED vars
  BY <1>2 DEF vars, IInv, TypeOK, Shell, OneTimer, ScreenMatchesSession, Page, RowsOfTheirTab, InPage
<1> QED BY <1>1, <1>2

-----------------------------------------------------------------------------
LEMMA Invariance == Spec => []IInv
BY InitOK, NextKeeps, PTL DEF Spec

(* The session, the view, the timer and the handlers keep their types, for *)
(* any number of handlers, clicks and failures.                            *)
THEOREM TypeCorrect == Spec => []TypeOK
<1>1. IInv => TypeOK
  BY DEF IInv
<1> QED BY <1>1, Invariance, PTL

(* stopDashTimer(), loadDashboard(): no interval is ever out of reach.     *)
THEOREM OneTimerAtMost == Spec => []OneTimer
<1>1. IInv => OneTimer
  BY DEF IInv, Shell
<1> QED BY <1>1, Invariance, PTL

(* api(), showApp(), showLogin(): the app is shown while there is a token, *)
(* and no longer, whatever the order of answers, logins and logouts.       *)
THEOREM ScreenIsTheSessions == Spec => []ScreenMatchesSession
<1>1. IInv => ScreenMatchesSession
  BY DEF IInv, Shell
<1> QED BY <1>1, Invariance, PTL

(* The render...Table functions: rows that come late are drawn into an     *)
(* element that has left the page, or into a view of their own tab.        *)
THEOREM RowsAreTheirTabs == Spec => []RowsOfTheirTab
<1>1. IInv => RowsOfTheirTab
  BY DEF IInv, Page
<1> QED BY <1>1, Invariance, PTL
=============================================================================
