------------------------------- MODULE Shutdown -------------------------------
(***************************************************************************)
(* How one replica stops: main.ts, with the policy connections of          *)
(* policy-tcp.server.ts and the audit log of EventWriter.                  *)
(*                                                                         *)
(* A signal has two listeners.  Nest's own, which enableShutdownHooks()    *)
(* registered first, calls the destroy hooks, closes the admin API and     *)
(* then sends the process the same signal again, without itself            *)
(* listening; so main.ts's shutdown() runs twice: at the signal, and when  *)
(* Nest is done.  Each run waits for the policy connections to end, calls  *)
(* the destroy hooks again (app.close()), and exits.                       *)
(*                                                                         *)
(* The order of the hooks of one round is Nest's: here, any.  The policy   *)
(* connections outlive Redis, which the first hooks quit.                  *)
(***************************************************************************)
EXTENDS EventWriter

CONSTANT Client  \* smtpd processes of Postfix

ASSUME ShutdownAssumption ==
  Caller = {"nest", "first", "second"}  \* cleanup(), and the runs of shutdown()

Run == Caller \ {"nest"}

VARIABLES
  conn,      \* conn[c]: c has a connection
  deciding,  \* deciding[c]: its decide(): "no", "new", or "known" (not blocked)
  redis,     \* the client has not been told to quit
  stage      \* stage[c]: "off", "tcp" (awaits tcp.close()), "hooks" or "done"

drain == <<conn, deciding, redis, stage>>
allVars == <<vars, drain>>

DrainInit ==
  /\ Init
  /\ conn = [c \in Client |-> FALSE]
  /\ deciding = [c \in Client |-> "no"]
  /\ redis = TRUE
  /\ stage = [c \in Caller |-> "off"]

-----------------------------------------------------------------------------
(***************************************************************************)
(* The policy server.                                                      *)
(***************************************************************************)
(* Mutant: the server goes on accepting.                                   *)
AcceptingAlways == TRUE

(* tcp.close() is the first thing shutdown() does.                         *)
Accepting == stage["first"] = "off"

Connect(c) ==
  /\ phase = "up" /\ Accepting
  /\ ~conn[c] /\ deciding[c] = "no"
  /\ conn' = [conn EXCEPT ![c] = TRUE]
  /\ UNCHANGED <<vars, deciding, redis, stage>>

Ask(c) ==
  /\ phase = "up" /\ conn[c] /\ deciding[c] = "no"
  /\ deciding' = [deciding EXCEPT ![c] = "new"]
  /\ UNCHANGED <<vars, conn, redis, stage>>

(* isSuspended(): without Redis, decide() fails open and pushes nothing.   *)
LookUp(c) ==
  /\ phase = "up" /\ deciding[c] = "new"
  /\ deciding' = [deciding EXCEPT ![c] = IF redis THEN "known" ELSE "no"]
  /\ UNCHANGED <<vars, conn, redis, stage>>

(* The rest of decide(): some outcomes push an event, one of them (too     *)
(* many recipients) without asking Redis again.                            *)
Answer(c) ==
  /\ phase = "up" /\ deciding[c] = "known"
  /\ deciding' = [deciding EXCEPT ![c] = "no"]
  /\ Push \/ UNCHANGED vars
  /\ UNCHANGED <<conn, redis, stage>>

(* The client gives up, or has had the connection for long enough.         *)
HangUp(c) ==
  /\ phase = "up" /\ conn[c]
  /\ conn' = [conn EXCEPT ![c] = FALSE]
  /\ UNCHANGED <<vars, deciding, redis, stage>>

(* Mutant: no setTimeout().                                                *)
NeverIdle(c) == FALSE /\ UNCHANGED allVars

(* 60 s without data: a client that waits has given up before.  Data sets  *)
(* the timer back, so a client that asks again and again is never idle.    *)
IdleTimeout(c) ==
  /\ phase = "up" /\ conn[c] /\ deciding[c] = "no"
  /\ conn' = [conn EXCEPT ![c] = FALSE]
  /\ UNCHANGED <<vars, deciding, redis, stage>>

-----------------------------------------------------------------------------
(***************************************************************************)
(* The two listeners of SIGTERM and SIGINT.                                *)
(***************************************************************************)
Signal ==
  /\ phase = "up" /\ stage["nest"] = "off"
  /\ stage' = [stage EXCEPT !["nest"] = "hooks", !["first"] = "tcp"]
  /\ UNCHANGED <<vars, conn, deciding, redis>>

(* The server emits 'close' when its last connection has ended, to every   *)
(* caller of close().                                                      *)
Closed == \A c \in Client : ~conn[c]

TcpClosed(r) ==
  /\ phase = "up" /\ stage[r] = "tcp" /\ Closed
  /\ stage' = [stage EXCEPT ![r] = "hooks"]
  /\ UNCHANGED <<vars, conn, deciding, redis>>

(* The hooks of a round: RedisService's, and EventWriter's.                *)
QuitRedis ==
  /\ phase = "up" /\ redis /\ \E c \in Caller : stage[c] = "hooks"
  /\ redis' = FALSE
  /\ UNCHANGED <<vars, conn, deciding, stage>>

DestroyEvents(c) ==
  /\ stage[c] = "hooks"
  /\ Destroy(c)
  /\ UNCHANGED drain

HooksDone(c) == stage[c] = "hooks" /\ ~redis /\ Returned(c)

(* Nest's listener ends: process.kill(process.pid, signal).                *)
SignalAgain ==
  /\ phase = "up" /\ HooksDone("nest")
  /\ stage' = [stage EXCEPT !["nest"] = "done", !["second"] = "tcp"]
  /\ UNCHANGED <<vars, conn, deciding, redis>>

Leave(r) ==
  /\ HooksDone(r)
  /\ Exit(r)
  /\ UNCHANGED drain

(* What EventWriter does meanwhile, and the end of the grace period.       *)
Background ==
  /\ Flush \/ Kill \/ \E b \in batches : Stored(b) \/ Refused(b)
  /\ UNCHANGED drain

DrainNext ==
  \/ \E c \in Client :
       Connect(c) \/ Ask(c) \/ LookUp(c) \/ Answer(c) \/ HangUp(c) \/ IdleTimeout(c)
  \/ Signal \/ QuitRedis \/ SignalAgain
  \/ \E c \in Caller : DestroyEvents(c)
  \/ \E r \in Run : TcpClosed(r) \/ Leave(r)
  \/ Background

DrainSpec == DrainInit /\ [][DrainNext]_allVars

(* Decisions end, a socket on which nothing comes any more falls idle, and *)
(* the promises of a shutdown are kept.  No client has to hang up, and     *)
(* none has to stop asking: an idle timeout that Ask disables again and    *)
(* again need never happen.                                                *)
DrainFairness ==
  /\ Fairness
  /\ \A c \in Client : WF_allVars(LookUp(c)) /\ WF_allVars(Answer(c)) /\ WF_allVars(IdleTimeout(c))
  /\ WF_allVars(QuitRedis) /\ WF_allVars(SignalAgain)
  /\ \A c \in Caller : WF_allVars(DestroyEvents(c))
  /\ \A r \in Run : WF_allVars(TcpClosed(r)) /\ WF_allVars(Leave(r))

FairDrainSpec == DrainSpec /\ DrainFairness

-----------------------------------------------------------------------------
(* A graceful exit cuts nobody off, whichever run of shutdown() exits: no  *)
(* client is connected and waits for an answer.  And it loses nothing that *)
(* run had found in the event buffer.                                      *)
GracefulExit ==
  /\ phase = "exited" => \A c \in Client : ~(conn[c] /\ deciding[c] # "no")
  /\ ExitKeepsTheBuffer

(* A signal ends the process once every client has fallen silent, although *)
(* none of them hangs up: decisions that have lost Redis under them end as *)
(* well, and the idle timeout ends the connections.  A client that goes on *)
(* asking within the 60 s keeps its connection, and with it tcp.close()    *)
(* and the process, open; what ends that is the supervisor's kill.         *)
FallsSilent(c) == <>[][~Ask(c)]_allVars

ShutdownEnds ==
  (\A c \in Client : FallsSilent(c)) => (stage["nest"] # "off" ~> phase # "up")
=============================================================================
