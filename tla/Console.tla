------------------------------- MODULE Console -------------------------------
(***************************************************************************)
(* The admin console, public/app.js: one page, one thread, and handlers    *)
(* that run between each other's awaits.  A handler in flight waits for an *)
(* answer of the API; between two awaits it runs in one step, which is     *)
(* what an action is here.  Forms, rows and figures are abstracted to      *)
(* whose tab they belong to; filters, pages and labels are left out.       *)
(*                                                                         *)
(* A table is drawn into the element its handler looked up before it       *)
(* awaited the rows; setView() takes the elements of the view before out   *)
(* of the page.                                                            *)
(***************************************************************************)
EXTENDS Naturals

CONSTANTS
  Handler,      \* handlers that may be in flight at once
  Idle,         \* handler[h] of a free slot
  MaxClicks,    \* bound: what the operator does
  MaxFailures   \* bound: requests that fail without a 401

ASSUME ConsoleAssumption == MaxClicks \in Nat /\ MaxFailures \in Nat

Tab == {"dashboard", "tiers", "domains", "senders", "events"}
Cache == {"tiers", "mode"}    \* state.tiers, state.rateCountMode

(* What a loader makes sure of before it draws its view: the tiers first.  *)
Needs(x) == {d \in Cache : \/ d = "tiers" /\ x \in {"domains", "senders"}
                           \/ d = "mode" /\ x \in {"tiers", "senders"}}
First(needs) == IF "tiers" \in needs THEN "tiers" ELSE "mode"

(* A handler: the tab whose data it is after, the answer it waits for, the *)
(* caches its loader has yet to see to, the dashboard requests still out,  *)
(* whether its element is in the page, whether a timer is to follow, and   *)
(* whether its request carried a token.                                    *)
InFlight == [for: Tab, step: {"login", "need", "cards", "table", "save"}, needs: SUBSET Cache,
             out: SUBSET {"stats", "top"}, attached: BOOLEAN, load: BOOLEAN, signed: BOOLEAN]

ASSUME IdleAssumption == Idle \notin InFlight

VARIABLES
  token,      \* localStorage holds a token
  screen,     \* the login form or the app is shown
  tab,        \* state.tab
  view,       \* [of, rows]: whose view is drawn, whose rows are in it
  cached,     \* which caches are filled
  dashTimer,  \* state.dashTimer is set
  timers,     \* intervals alive in the browser
  handler,
  clicks,     \* bounded by MaxClicks
  failures    \* bounded by MaxFailures

vars == <<token, screen, tab, view, cached, dashTimer, timers, handler, clicks, failures>>

TypeOK ==
  /\ token \in BOOLEAN
  /\ screen \in {"login", "app"}
  /\ tab \in Tab
  /\ view \in [of: Tab \cup {"none"}, rows: SUBSET Tab]
  /\ cached \subseteq Cache
  /\ dashTimer \in BOOLEAN /\ timers \in Nat
  /\ handler \in [Handler -> InFlight \cup {Idle}]
  /\ clicks \in 0..MaxClicks /\ failures \in 0..MaxFailures

-----------------------------------------------------------------------------
(* stopDashTimer().                                                        *)
StopDashTimer == timers' = (IF dashTimer THEN timers - 1 ELSE timers) /\ dashTimer' = FALSE

(* Mutants: the interval before is not cleared; it is cleared too late.    *)
StartAnother == timers' = timers + 1 /\ dashTimer' = TRUE
StartAndStop == timers' = (IF dashTimer THEN timers - 1 ELSE timers) /\ dashTimer' = FALSE

(* The end of loadDashboard(): stopDashTimer(), then setInterval().        *)
StartDashTimer == timers' = (IF dashTimer THEN timers ELSE timers + 1) /\ dashTimer' = TRUE

(* Mutant: the timer runs on.                                              *)
ShowLoginOnly == screen' = "login" /\ UNCHANGED <<dashTimer, timers>>

ShowLogin == screen' = "login" /\ StopDashTimer

(* Mutant: api() leaves the screen as it is.                               *)
DeniedInPlace == token' = FALSE /\ UNCHANGED <<screen, dashTimer, timers>>

(* api() meets a 401, whoever asked and with which token.                  *)
Denied == token' = FALSE /\ ShowLogin

(* Mutant: the element is looked up by an id all tables share.             *)
StaysAttached(me) == me

(* A handler whose view is taken out of the page.                          *)
Detached(me) == IF me = Idle THEN Idle ELSE [me EXCEPT !.attached = FALSE]

(* The requests of refreshDashboard(): refreshTop() asks for nothing       *)
(* unless its element is there.                                            *)
Refresh(v) == IF v.of = "dashboard" THEN {"stats", "top"} ELSE {"stats"}

(* Handlers that have just issued a request, or the dashboard's two.       *)
Waiting(x, step, signed) ==
  [for |-> x, step |-> step, needs |-> {}, out |-> {}, attached |-> TRUE,
   load |-> FALSE, signed |-> signed]
Needing(x, needs, signed) ==
  [for |-> x, step |-> "need", needs |-> needs, out |-> {}, attached |-> TRUE,
   load |-> FALSE, signed |-> signed]
Refreshing(out, load, signed) ==
  [for |-> "dashboard", step |-> "cards", needs |-> {}, out |-> out, attached |-> TRUE,
   load |-> load, signed |-> signed]

(* Handler h runs the loader of tab x: it awaits the first cache of        *)
(* `needs` that is not filled, or draws the view and asks for its rows.    *)
Load(h, x, needs, full, signed) ==
  LET missing == needs \ full
      drawn == [of |-> x, rows |-> {}]
      me == IF x = "dashboard" THEN Refreshing(Refresh(drawn), TRUE, signed)
            ELSE Waiting(x, "table", signed)
  IN
  IF missing # {}
  THEN handler' = [handler EXCEPT ![h] = Needing(x, missing, signed)] /\ UNCHANGED view
  ELSE /\ view' = drawn
       /\ handler' = [g \in Handler |-> IF g = h THEN me ELSE Detached(handler[g])]

(* setTab(): the timer stops, and the tab's loader runs.                   *)
SetTab(h, x, signed) ==
  /\ tab' = x
  /\ StopDashTimer
  /\ Load(h, x, Needs(x), cached, signed)

(* What an answer can be: without a token, the API lets only sign-in pass. *)
Replies(me) == {"denied", "failed"} \cup IF me.signed \/ me.step = "login" THEN {"ok"} ELSE {}

Failing(reply) ==
  IF reply = "failed" THEN failures < MaxFailures /\ failures' = failures + 1
  ELSE UNCHANGED failures

(* What api() does to the session before its caller goes on.               *)
Session(reply) == IF reply = "denied" THEN Denied ELSE UNCHANGED <<token, screen, dashTimer, timers>>

(* A list of tiers may be empty, and an empty list counts as not cached.   *)
Fetched(d) == {cached \cup {d}} \cup (IF d = "tiers" THEN {cached \ {d}} ELSE {})

At(h, s) == handler[h] # Idle /\ handler[h].step = s
Clicks == clicks < MaxClicks /\ clicks' = clicks + 1
End(h) == handler' = [handler EXCEPT ![h] = Idle]

-----------------------------------------------------------------------------
(* init(): with a token, the app and its first tab.                        *)
Init ==
  /\ token \in BOOLEAN
  /\ screen = IF token THEN "app" ELSE "login"
  /\ tab = "dashboard"
  /\ view = [of |-> IF token THEN tab ELSE "none", rows |-> {}]
  /\ cached = {}
  /\ dashTimer = FALSE /\ timers = 0
  /\ \E h \in Handler :
       handler = [g \in Handler |->
         IF g = h /\ token THEN Refreshing({"stats", "top"}, TRUE, TRUE) ELSE Idle]
  /\ clicks = 0 /\ failures = 0

(* A click on the navigation, or on a card that leads to another tab.      *)
Choose(h, x) ==
  /\ screen = "app" /\ Clicks /\ handler[h] = Idle
  /\ SetTab(h, x, token)
  /\ UNCHANGED <<token, screen, cached, failures>>

(* Refresh of the tiers and the domains runs their loader again.           *)
Reload(h) ==
  /\ screen = "app" /\ Clicks /\ handler[h] = Idle
  /\ view.of \in {"tiers", "domains"}
  /\ Load(h, view.of, Needs(view.of), cached, token)
  /\ UNCHANGED <<token, screen, tab, cached, dashTimer, timers, failures>>

(* Refresh, a filter, a page or Cancel: the rows are fetched again.  Text  *)
(* typed into a filter is acted on 300 ms later, the app shown or not.     *)
Redraw(h) ==
  /\ Clicks /\ handler[h] = Idle
  /\ screen = "app" \/ view.of \in {"senders", "events"}
  /\ \/ /\ view.of \in Tab \ {"dashboard"}
        /\ handler' = [handler EXCEPT ![h] = Waiting(view.of, "table", token)]
     \/ /\ view.of = "dashboard"
        /\ \E out \in {{"top"}, Refresh(view)} :
             handler' = [handler EXCEPT ![h] = Refreshing(out, FALSE, token)]
  /\ UNCHANGED <<token, screen, tab, view, cached, dashTimer, timers, failures>>

(* A form or a row's button writes: create, save, delete, suspend, ...     *)
Save(h) ==
  /\ screen = "app" /\ Clicks /\ handler[h] = Idle
  /\ view.of \in {"tiers", "domains", "senders"}
  /\ handler' = [handler EXCEPT ![h] = Waiting(view.of, "save", token)]
  /\ UNCHANGED <<token, screen, tab, view, cached, dashTimer, timers, failures>>

LogIn(h) ==
  /\ screen = "login" /\ Clicks /\ handler[h] = Idle
  /\ handler' = [handler EXCEPT ![h] = Waiting(tab, "login", token)]
  /\ UNCHANGED <<token, screen, tab, view, cached, dashTimer, timers, failures>>

LogOut ==
  /\ screen = "app" /\ Clicks
  /\ token' = FALSE
  /\ ShowLogin
  /\ UNCHANGED <<tab, view, cached, handler, failures>>

(* An interval fires.                                                      *)
Poll(h) ==
  /\ timers > 0 /\ tab = "dashboard" /\ handler[h] = Idle
  /\ handler' = [handler EXCEPT ![h] = Refreshing(Refresh(view), FALSE, token)]
  /\ UNCHANGED <<token, screen, tab, view, cached, dashTimer, timers, clicks, failures>>

(* /auth/login answers: the token is stored and the app shown, which runs  *)
(* the loader of the last tab.                                             *)
LoggedIn(h, reply) ==
  /\ At(h, "login") /\ reply \in Replies(handler[h]) /\ Failing(reply)
  /\ IF reply = "ok" THEN /\ token' = TRUE /\ screen' = "app"
                          /\ SetTab(h, tab, TRUE)
     ELSE Session(reply) /\ End(h) /\ UNCHANGED <<tab, view>>
  /\ UNCHANGED <<cached, clicks>>

(* A cache is answered for; empty or not, the loader goes on.              *)
NeedAnswered(h, reply) ==
  /\ At(h, "need") /\ reply \in Replies(handler[h]) /\ Failing(reply)
  /\ Session(reply)
  /\ LET me == handler[h] IN
     /\ cached' \in IF reply = "ok" THEN Fetched(First(me.needs)) ELSE {cached}
     /\ Load(h, me.for, me.needs \ {First(me.needs)}, cached', token')
  /\ UNCHANGED <<tab, clicks>>

(* One of the dashboard's two requests is answered.  The cards are looked  *)
(* up now, the table was before; with both done, loadDashboard() goes on.  *)
CardsAnswered(h, which, reply) ==
  /\ At(h, "cards") /\ which \in handler[h].out
  /\ reply \in Replies(handler[h]) /\ Failing(reply)
  /\ LET me == handler[h]
         out == me.out \ {which}
         there == IF which = "stats" THEN view.of = "dashboard" ELSE me.attached
     IN
     /\ view' = IF reply = "ok" /\ there THEN [view EXCEPT !.rows = @ \cup {me.for}] ELSE view
     /\ cached' = IF reply = "ok" /\ which = "stats" THEN cached \cup {"mode"} ELSE cached
     /\ IF out = {} THEN End(h) ELSE handler' = [handler EXCEPT ![h].out = out]
     /\ IF out = {} /\ me.load
          THEN /\ StartDashTimer
               /\ token' = (token /\ reply # "denied")
               /\ screen' = IF reply = "denied" THEN "login" ELSE screen
          ELSE Session(reply)
  /\ UNCHANGED <<tab, clicks>>

(* The rows arrive.  Tiers and domains are drawn even when they do not.    *)
TableAnswered(h, reply) ==
  /\ At(h, "table") /\ reply \in Replies(handler[h]) /\ Failing(reply)
  /\ Session(reply)
  /\ LET me == handler[h]
         drawn == reply = "ok" \/ me.for \in {"tiers", "domains"}
     IN
     /\ view' = IF drawn /\ me.attached THEN [view EXCEPT !.rows = @ \cup {me.for}] ELSE view
     /\ cached' \in IF reply = "ok" /\ me.for = "tiers" THEN Fetched("tiers") ELSE {cached}
  /\ End(h)
  /\ UNCHANGED <<tab, clicks>>

(* A write is answered: the tiers are forgotten, and the table, if it is   *)
(* still there, is fetched again.                                          *)
Saved(h, reply) ==
  /\ At(h, "save") /\ reply \in Replies(handler[h]) /\ Failing(reply)
  /\ Session(reply)
  /\ LET me == handler[h] IN
     /\ cached' = IF reply = "ok" /\ me.for = "tiers" THEN cached \ {"tiers"} ELSE cached
     /\ IF reply = "ok" /\ view.of = me.for
          THEN handler' = [handler EXCEPT ![h] = Waiting(me.for, "table", token')]
          ELSE End(h)
  /\ UNCHANGED <<tab, view, clicks>>

Answered(h) ==
  \E reply \in {"ok", "denied", "failed"} :
    \/ LoggedIn(h, reply) \/ NeedAnswered(h, reply) \/ TableAnswered(h, reply) \/ Saved(h, reply)
    \/ \E which \in {"stats", "top"} : CardsAnswered(h, which, reply)

Next ==
  \/ \E h \in Handler :
       \/ \E x \in Tab : Choose(h, x)
       \/ Reload(h) \/ Redraw(h) \/ Save(h) \/ LogIn(h) \/ Poll(h)
       \/ Answered(h)
  \/ LogOut

Spec == Init /\ [][Next]_vars

(* Every request is answered or given up, and a live interval fires.       *)
Fairness ==
  /\ \A h \in Handler : WF_vars(Answered(h))
  /\ WF_vars(\E h \in Handler : Poll(h))

FairSpec == Spec /\ Fairness

-----------------------------------------------------------------------------
(* loadDashboard(), stopDashTimer(): however loads, tabs and logouts       *)
(* overlap, there is one polling interval or none, and state.dashTimer is  *)
(* its handle: none is ever out of reach.                                  *)
OneTimer == timers = IF dashTimer THEN 1 ELSE 0

(* api(), showApp(), showLogin(): the app is shown exactly while there is  *)
(* a token, whatever answers come in after a logout or a 401.              *)
ScreenMatchesSession == (screen = "app") <=> token

(* The render...Table functions and refreshStats(): late rows are never    *)
(* drawn into the view of another tab.                                     *)
RowsOfTheirTab == view.rows \subseteq {view.of}

(* showLogin(): a session that has ended falls silent, although a pending  *)
(* loadDashboard() may start its timer after the logout: the poll of that  *)
(* timer meets a 401 and stops it.                                         *)
LoggedOutFallsSilent == <>[](~token) => <>[](\A h \in Handler : handler[h] = Idle)

(* loadDashboard(): an operator who stays on the dashboard gets it polled, *)
(* whatever loads of other tabs and of former visits were pending.         *)
DashboardPolled == <>[](screen = "app" /\ tab = "dashboard") => <>[]dashTimer
=============================================================================
