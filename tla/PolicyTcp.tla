------------------------------ MODULE PolicyTcp ------------------------------
(***************************************************************************)
(* The policy protocol between one smtpd process of Postfix and            *)
(* policy-tcp.server.ts: requests of attribute lines that end in a blank   *)
(* line, cut into chunks anywhere; a decision that takes its time; one     *)
(* reply; and the connection that is kept for the next request, or lost.   *)
(*                                                                         *)
(* Text is measured in units.  An attribute line is two of them, so that a *)
(* chunk may end inside a line; a blank line is one.  The client's side is *)
(* Postfix as deploy.md configures it: it waits 10 s for a reply, tries a  *)
(* request again on a new connection, and then applies default_action.  It *)
(* sends one request at a time; a peer that is not Postfix need not wait.  *)
(***************************************************************************)
EXTENDS Allowlist, Sequences, FiniteSets

CONSTANTS
  Lines,        \* Lines[r]: attribute lines of request r, by order of sending
  MaxUnits,     \* MAX_REQUEST_BYTES
  Tries,        \* smtpd_policy_service_try_limit
  Aheads,       \* how many requests a client may have without a reply (Postfix: 1)
  Peers,        \* where the client may connect from
  RuleSets      \* what POLICY_ALLOW_CIDRS may hold

Req == DOMAIN Lines

ASSUME PolicyTcpAssumption ==
  /\ Lines \in Seq(Nat \ {0})
  /\ {MaxUnits, Tries} \cup Aheads \subseteq Nat \ {0}
  /\ Peers \subseteq Peer /\ \A rules \in RuleSets : rules \subseteq Rule

Unit == [req: Req, line: Nat, last: BOOLEAN]
Size(r) == 2 * Lines[r] + 1

(* A request as it is sent; line 0 is the blank line.                      *)
Text(r) ==
  [i \in 1..Size(r) |->
     IF i = Size(r) THEN [req |-> r, line |-> 0, last |-> TRUE]
     ELSE [req |-> r, line |-> (i + 1) \div 2, last |-> i % 2 = 0]]

VARIABLES
  peer,      \* the client's end of its connections
  rules,     \* this.cfg.allowCidrs
  patient,   \* the client's 10 s are always enough for an open connection
  ahead,     \* the requests it may have sent and not had a reply to
  open,      \* the connection is up (its server side is not destroyed)
  used,      \* a reply was read on this connection: it may fall idle
  wire,      \* what the client has written and no data event has brought yet
  buf,       \* server: the incomplete line
  attrs,     \* server: the attributes of the request being read
  total,     \* server: units counted towards MaxUnits
  deciding,  \* decide() calls in flight; live: their connection is still up
  inbox,     \* replies written on this connection and not read yet
  next,      \* the oldest request without an outcome
  sent,      \* the last request the client has written on this connection
  tries,     \* connections the client has used up for request `next`
  outcome    \* outcome[r]: "none", "reply" or "default"

vars == <<peer, rules, patient, ahead, open, used, wire, buf, attrs, total, deciding, inbox, next,
          sent, tries, outcome>>
server == <<buf, attrs, total>>
peers == <<peer, rules, patient, ahead>>
client == <<peers, next, sent, tries, outcome>>

Attr == Req \X Nat

(* What the server keeps of requests that have not ended.                  *)
Stored == Len(buf) + 2 * Cardinality(attrs)

Orphaned == {[d EXCEPT !.live = FALSE] : d \in deciding}

TypeOK ==
  /\ peer \in Peers /\ rules \in RuleSets /\ ahead \in Aheads
  /\ {patient, open, used} \subseteq BOOLEAN
  /\ wire \in Seq(Unit)
  /\ buf \in Seq(Unit) /\ attrs \subseteq Attr /\ total \in 0..MaxUnits
  /\ \A d \in deciding : d.live \in BOOLEAN /\ d.req \in Req /\ d.attrs \subseteq Attr
  /\ inbox \in Seq(Req)
  /\ next \in 1..(Len(Lines) + 1) /\ sent \in 0..Len(Lines)
  /\ tries \in 0..Tries
  /\ outcome \in [Req -> {"none", "reply", "default"}]

Init ==
  /\ peer \in Peers /\ rules \in RuleSets
  /\ patient \in BOOLEAN /\ ahead \in Aheads
  /\ open = FALSE /\ used = FALSE
  /\ wire = << >>
  /\ buf = << >> /\ attrs = {} /\ total = 0
  /\ deciding = {}
  /\ inbox = << >>
  /\ next = 1 /\ sent = 0 /\ tries = 0
  /\ outcome = [r \in Req |-> "none"]

Waiting == sent >= next

-----------------------------------------------------------------------------
(***************************************************************************)
(* The client.                                                             *)
(***************************************************************************)
(* A connection is opened to send a request: onConnection() destroys it,   *)
(* or starts with fresh state.                                             *)
Connect ==
  /\ ~open /\ ~Waiting /\ next \in Req /\ tries < Tries
  /\ open' = Allowed(peer, rules) /\ used' = FALSE
  /\ wire' = Text(next) /\ inbox' = << >>
  /\ buf' = << >> /\ attrs' = {} /\ total' = 0
  /\ sent' = next
  /\ UNCHANGED <<peers, deciding, next, tries, outcome>>

Write ==
  /\ open /\ sent + 1 \in Req /\ sent + 1 - next < ahead
  /\ wire' = wire \o Text(sent + 1)
  /\ sent' = sent + 1
  /\ UNCHANGED <<peers, open, used, server, deciding, inbox, next, tries, outcome>>

(* A reply carries no name: it is taken for the oldest request.            *)
Receive ==
  /\ open /\ inbox # << >> /\ Waiting
  /\ inbox' = Tail(inbox)
  /\ outcome' = [outcome EXCEPT ![next] = "reply"]
  /\ next' = next + 1
  /\ tries' = 0 /\ used' = TRUE
  /\ UNCHANGED <<peers, open, wire, server, deciding, sent>>

(* No reply in time, or the connection is gone: the try is used up.        *)
GiveUp ==
  /\ Waiting
  /\ ~open \/ (~patient /\ inbox = << >>)
  /\ open' = FALSE
  /\ deciding' = Orphaned
  /\ sent' = next - 1
  /\ tries' = tries + 1
  /\ UNCHANGED <<peers, used, wire, server, inbox, next, outcome>>

DefaultAction ==
  /\ next \in Req /\ tries = Tries
  /\ outcome' = [outcome EXCEPT ![next] = "default"]
  /\ next' = next + 1
  /\ sent' = next
  /\ tries' = 0
  /\ UNCHANGED <<peers, open, used, wire, server, deciding, inbox>>

-----------------------------------------------------------------------------
(***************************************************************************)
(* The server: one data event.                                             *)
(***************************************************************************)
Reading == [buf |-> buf, attrs |-> attrs, done |-> << >>]

(* Mutant: attrs is not reset after a request.                              *)
FeedKeeping(st, u) ==
  IF u.line = 0 THEN [st EXCEPT !.buf = << >>, !.done = Append(@, [req |-> u.req, attrs |-> st.attrs])]
  ELSE IF u.last THEN [st EXCEPT !.buf = << >>, !.attrs = @ \cup {<<u.req, u.line>>}]
  ELSE [st EXCEPT !.buf = Append(@, u)]
(* The body of the while loop over the lines of `buf`, for a unit of them. *)
Feed(st, u) ==
  IF u.line = 0
    THEN [buf |-> << >>, attrs |-> {}, done |-> Append(st.done, [req |-> u.req, attrs |-> st.attrs])]
  ELSE IF u.last THEN [st EXCEPT !.buf = << >>, !.attrs = @ \cup {<<u.req, u.line>>}]
  ELSE [st EXCEPT !.buf = Append(@, u)]

(* The whole loop, over the first n units that have been written.          *)
Fed(n) ==
  LET st[i \in 0..n] == IF i = 0 THEN Reading ELSE Feed(st[i - 1], wire[i])
  IN st[n]

(* Mutants: the count is never reset; every chunk starts it again.         *)
CountedForEver(chunk, done) == total + Len(chunk)
CountedAfresh(chunk, done) == Len(chunk)

(* `total` after a chunk: a request that ends in it resets the count.      *)
Counted(chunk, done) == IF done = << >> THEN total + Len(chunk) ELSE 0

TooBig(n) == total + n > MaxUnits

Data(n) ==
  /\ open /\ n \in 1..Len(wire)
  /\ LET chunk == SubSeq(wire, 1, n)
         after == Fed(n)
     IN
     IF TooBig(n)
     THEN open' = FALSE /\ deciding' = Orphaned /\ UNCHANGED <<wire, server>>
     ELSE /\ wire' = SubSeq(wire, n + 1, Len(wire))
          /\ buf' = after.buf /\ attrs' = after.attrs
          /\ total' = Counted(chunk, after.done)
          /\ deciding' = deciding \cup
               {[live |-> TRUE, req |-> after.done[i].req, attrs |-> after.done[i].attrs] :
                  i \in DOMAIN after.done}
          /\ UNCHANGED open
  /\ UNCHANGED <<used, inbox, client>>

(* Mutant: the reply goes to whatever connection is open now.              *)
ReplyToAnyone(d) ==
  /\ d \in deciding
  /\ deciding' = deciding \ {d}
  /\ inbox' = IF open THEN Append(inbox, d.req) ELSE inbox
  /\ UNCHANGED <<open, used, wire, server, client>>

(* decide() resolves; it never rejects, and the catch replies just so.     *)
Reply(d) ==
  /\ d \in deciding
  /\ deciding' = deciding \ {d}
  /\ inbox' = IF d.live THEN Append(inbox, d.req) ELSE inbox
  /\ UNCHANGED <<open, used, wire, server, client>>

(* The socket was idle for 60 s, six times as long as a client waits for   *)
(* its first reply; the next request may be under way.                     *)
IdleTimeout ==
  /\ open /\ used
  /\ inbox = << >> /\ buf = << >> /\ attrs = {} /\ ~\E d \in deciding : d.live
  /\ open' = FALSE
  /\ UNCHANGED <<used, wire, server, deciding, inbox, client>>

Finished == next \notin Req /\ deciding = {} /\ UNCHANGED vars

Next ==
  \/ Connect \/ Write \/ Receive \/ GiveUp \/ DefaultAction \/ IdleTimeout
  \/ \E n \in 1..Len(wire) : Data(n)
  \/ \E d \in deciding : Reply(d)
  \/ Finished

Spec == Init /\ [][Next]_vars

(* The client goes on with its mail, what is written arrives, and decide() *)
(* comes to an end, as every promise it waits for does.                    *)
Fairness ==
  /\ WF_vars(Connect \/ Write \/ Receive \/ GiveUp \/ DefaultAction)
  /\ WF_vars(\E n \in 1..Len(wire) : Data(n))
  /\ WF_vars(\E d \in deciding : Reply(d))

FairSpec == Spec /\ Fairness

-----------------------------------------------------------------------------
(* However a request is cut into chunks and whatever was on the connection *)
(* before, it is decided on with all of its own attributes and no others.  *)
DecidesOnTheRequest ==
  \A d \in deciding : d.attrs = {<<d.req, l>> : l \in 1..Lines[d.req]}

(* "Guard against unbounded buffering": what is kept of the lines of a     *)
(* request is within MAX_REQUEST_BYTES for a client that waits for its     *)
(* replies, however it is cut.  For any other peer a chunk may end one     *)
(* request and begin the next, of which it then counts nothing, and the    *)
(* bound is what such a chunk can leave and MAX_REQUEST_BYTES more.        *)
BufferingBounded ==
  /\ Stored <= 2 * MaxUnits - 1
  /\ ahead = 1 => Stored <= MaxUnits

(* A reply that waits to be read is the reply to the request that a client *)
(* like Postfix takes it for, late decisions of earlier tries and requests *)
(* included.                                                               *)
RepliesMatch == ahead = 1 /\ open => \A i \in DOMAIN inbox : inbox[i] = next + i - 1

(* The guard counts one request at a time: however many a connection of a  *)
(* client like Postfix has carried, it is cut off only during a request    *)
(* that is too big.                                                        *)
OnlyBigRequestsCutOff ==
  [][ahead = 1 /\ (\E n \in 1..Len(wire) : Data(n)) /\ ~open' => Size(next) > MaxUnits]_vars

(* Only a peer that the operator listed has its requests decided on; ip.ts *)
(* gets there with masks and shifts.                                       *)
OnlyListedServed == deciding # {} => Listed(peer, rules)

(* With a second try for a request that met a closing connection, every    *)
(* request of a patient client like Postfix that is listed gets policyd's  *)
(* own answer, up to the limit itself; a request beyond it, and every      *)
(* request of a client that is not listed, comes to default_action.        *)
EachGetsItsAnswer ==
  patient /\ ahead = 1 => \A r \in Req :
    <>(outcome[r] = IF Listed(peer, rules) /\ Size(r) <= MaxUnits THEN "reply" ELSE "default")
=============================================================================
