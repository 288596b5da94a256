------------------------------- MODULE NlaGrpc -------------------------------
(***************************************************************************)
(* nla_grpc.c, the connection to the routing daemon: the connection        *)
(* manager thread with its three loops, the pipe, the exit promise and the *)
(* join, against the event loop and a gRPC channel that does what it       *)
(* likes.  NlaPrpdc has the same thread in one action.                     *)
(*                                                                         *)
(* The channel is external.  An idle channel connects when it is asked to, *)
(* by GetState(true) or by an RPC; one that is trying goes on by itself.   *)
(***************************************************************************)
EXTENDS Naturals, Sequences

CONSTANT MaxPipe  \* capacity of the pipe, in states

ASSUME GrpcAssumption == MaxPipe \in Nat \ {0}

VARIABLES
  loop,                \* the event loop: no client, a client, in an RPC, in the join
  gc_exitSignal,       \* the promise; "NULL": promise, future and channel are freed
  pipe,                \* states written and not yet read
  seen,                \* the state that nla_prpdc_event_cb has passed on last
  chan,                \* state of the channel
  thread,              \* where the thread is; "END": there is none
  state,               \* its last GetState
  newConnectionState,  \* what it made of it
  connectionState      \* what it has reported last

loopVars   == <<loop, gc_exitSignal, seen>>
threadVars == <<thread, state, newConnectionState, connectionState>>
vars       == <<loopVars, threadVars, pipe, chan>>

ChannelStates == {"IDLE", "TRYING", "READY"}

Init ==
  /\ loop = "IDLE"
  /\ gc_exitSignal = "NULL"
  /\ pipe = << >>
  /\ seen = "DOWN"
  /\ chan = "IDLE"
  /\ thread = "END"
  /\ state = "IDLE"
  /\ newConnectionState = "DOWN"
  /\ connectionState = "DOWN"

\* What an RPC or GetState(true) makes of the channel
Connecting == IF chan = "IDLE" THEN "TRYING" ELSE chan

-----------------------------------------------------------------------------
(* The channel: found, lost, lost and already retried.                     *)

\* WaitForStateChange returns when the channel moves while it is watched.
Woken == IF thread = "WATCH" THEN "CHECK" ELSE thread

ChannelChange ==
  /\ gc_exitSignal # "NULL"
  /\ \/ chan = "TRYING" /\ chan' = "READY"
     \/ chan = "READY" /\ chan' \in {"IDLE", "TRYING"}
  /\ thread' = Woken
  /\ UNCHANGED <<loopVars, pipe, state, newConnectionState, connectionState>>

-----------------------------------------------------------------------------
(* The thread, ConnectionManager.                                          *)

\* The future is ready: the outer loop, or the inner and then the outer, ends.
Exit ==
  /\ thread \in {"CHECK", "WAIT"}
  /\ gc_exitSignal = "SET"
  /\ thread' = "END"
  /\ UNCHANGED <<loopVars, pipe, chan, state, newConnectionState, connectionState>>

\* GetState(false)
Check ==
  /\ thread = "CHECK"
  /\ gc_exitSignal # "SET"
  /\ state' = chan
  /\ thread' = IF chan = "READY" THEN "LOGIN" ELSE "TRY"
  /\ UNCHANGED <<loopVars, pipe, chan, newConnectionState, connectionState>>

\* Slip: an accepted login does not make the new state.
Login_unnoted ==
  /\ thread = "LOGIN"
  /\ chan = "READY"
  /\ thread' = "REPORT"
  /\ UNCHANGED <<loopVars, pipe, chan, state, newConnectionState, connectionState>>

\* ConfigRoutePurgeTime is accepted; it is tried until it is.
Login ==
  /\ thread = "LOGIN"
  /\ chan = "READY"
  /\ newConnectionState' = "UP"
  /\ thread' = "REPORT"
  /\ UNCHANGED <<loopVars, pipe, chan, state, connectionState>>

\* ConfigRoutePurgeTime fails, whatever the channel is: once more.
LoginFails ==
  /\ thread = "LOGIN"
  /\ chan' = Connecting
  /\ UNCHANGED <<loopVars, threadVars, pipe>>

\* GetState(true)
TryConnecting ==
  /\ thread = "TRY"
  /\ newConnectionState' = "DOWN"
  /\ chan' = Connecting
  /\ thread' = "REPORT"
  /\ UNCHANGED <<loopVars, pipe, state, connectionState>>

NothingNew ==
  /\ thread = "REPORT"
  /\ newConnectionState = connectionState
  /\ thread' = "WAIT"
  /\ UNCHANGED <<loopVars, pipe, chan, state, newConnectionState, connectionState>>

\* Slip: what was reported is reported again.
PipeWrite_always ==
  /\ thread = "REPORT"
  /\ Len(pipe) < MaxPipe
  /\ connectionState' = newConnectionState
  /\ pipe' = Append(pipe, newConnectionState)
  /\ thread' = "WAIT"
  /\ UNCHANGED <<loopVars, chan, state, newConnectionState>>

\* A full pipe says EAGAIN, and the write is tried again.
PipeWriteAgain ==
  /\ thread = "REPORT"
  /\ newConnectionState # connectionState
  /\ Len(pipe) = MaxPipe
  /\ UNCHANGED vars

PipeWrite ==
  /\ thread = "REPORT"
  /\ newConnectionState # connectionState
  /\ Len(pipe) < MaxPipe
  /\ connectionState' = newConnectionState
  /\ pipe' = Append(pipe, newConnectionState)
  /\ thread' = "WAIT"
  /\ UNCHANGED <<loopVars, chan, state, newConnectionState>>

\* Slip: a change since the last sample is not looked for.
watched_unseen == "WATCH"
\* WaitForStateChange compares with the sample before it watches.
watched == IF chan # state THEN "CHECK" ELSE "WATCH"

WaitForStateChange ==
  /\ thread = "WAIT"
  /\ gc_exitSignal # "SET"
  /\ thread' = watched
  /\ UNCHANGED <<loopVars, pipe, chan, state, newConnectionState, connectionState>>

\* The deadline of one second
WaitTimeout ==
  /\ thread = "WATCH"
  /\ thread' = "WAIT"
  /\ UNCHANGED <<loopVars, pipe, chan, state, newConnectionState, connectionState>>

ConnectionManager ==
  \/ Exit \/ Check \/ Login \/ LoginFails \/ TryConnecting
  \/ NothingNew \/ PipeWrite \/ PipeWriteAgain \/ WaitForStateChange \/ WaitTimeout

-----------------------------------------------------------------------------
(* The event loop.                                                         *)

RibClientInit ==
  /\ loop = "IDLE"
  /\ loop' = "LIVE"
  /\ gc_exitSignal' = "UNSET"
  /\ pipe' = << >>
  /\ chan' = "IDLE"
  /\ thread' = "CHECK"
  /\ newConnectionState' = "DOWN"
  /\ connectionState' = "DOWN"
  /\ UNCHANGED <<seen, state>>

PipeRead ==
  /\ loop = "LIVE"
  /\ pipe # << >>
  /\ seen' = Head(pipe)
  /\ pipe' = Tail(pipe)
  /\ UNCHANGED <<loop, gc_exitSignal, chan, threadVars>>

\* RibClientAddRoute, RibClientRemoveRoute, of a client that is up: no deadline
RouteRpc ==
  /\ loop = "LIVE"
  /\ seen = "UP"
  /\ loop' = "RPC"
  /\ chan' = Connecting
  /\ thread' = IF chan = "IDLE" THEN Woken ELSE thread
  /\ UNCHANGED <<gc_exitSignal, seen, pipe, state, newConnectionState, connectionState>>

RpcReturns ==
  /\ loop = "RPC"
  /\ loop' = "LIVE"
  /\ UNCHANGED <<gc_exitSignal, seen, pipe, chan, threadVars>>

\* Slip: the promise is not kept.
SetExitSignal_not ==
  /\ loop = "LIVE"
  /\ loop' = "JOIN"
  /\ UNCHANGED <<gc_exitSignal, seen, pipe, chan, threadVars>>

\* RibClientReset, up to the join
SetExitSignal ==
  /\ loop = "LIVE"
  /\ loop' = "JOIN"
  /\ gc_exitSignal' = "SET"
  /\ UNCHANGED <<seen, pipe, chan, threadVars>>

\* Slip: the thread is signalled and not waited for.
joined_signalled == TRUE
joined == thread = "END"

\* Join, and the rest of RibClientReset.  Those who call it leave the client
\* down: it was not up, or is registered afresh.
JoinAndFree ==
  /\ loop = "JOIN"
  /\ joined
  /\ loop' = "IDLE"
  /\ gc_exitSignal' = "NULL"
  /\ pipe' = << >>
  /\ seen' = "DOWN"
  /\ connectionState' = "DOWN"
  /\ UNCHANGED <<chan, thread, state, newConnectionState>>

EventLoop ==
  RibClientInit \/ PipeRead \/ RouteRpc \/ RpcReturns \/ SetExitSignal \/ JoinAndFree

Next == ChannelChange \/ ConnectionManager \/ EventLoop

Spec == Init /\ [][Next]_vars

\* The thread runs.  Each pass of the loop serves every ready source, so the
\* pipe is read between RPCs.  An RPC fails when its channel is lost.  The
\* daemon accepts the purge time of a session that lasts; whether it answers to
\* routes, and what the channel does, is left open.
Fairness ==
  /\ WF_vars(Exit \/ Check \/ LoginFails \/ TryConnecting)
  /\ WF_vars(Login)
  /\ WF_vars(NothingNew \/ PipeWrite \/ WaitForStateChange \/ WaitTimeout)
  /\ SF_vars(PipeRead)
  /\ WF_vars(RpcReturns /\ chan # "READY")
  /\ WF_vars(JoinAndFree)

FairSpec == Spec /\ Fairness

-----------------------------------------------------------------------------
(* Properties.                                                             *)

\* Every variable holds values of its type, and the pipe its capacity.
TypeOK ==
  /\ loop \in {"IDLE", "LIVE", "RPC", "JOIN"}
  /\ gc_exitSignal \in {"NULL", "UNSET", "SET"}
  /\ pipe \in Seq({"UP", "DOWN"})
  /\ Len(pipe) <= MaxPipe
  /\ seen \in {"UP", "DOWN"}
  /\ chan \in ChannelStates
  /\ thread \in {"CHECK", "LOGIN", "TRY", "REPORT", "WAIT", "WATCH", "END"}
  /\ state \in ChannelStates
  /\ newConnectionState \in {"UP", "DOWN"}
  /\ connectionState \in {"UP", "DOWN"}

\* As long as the thread runs, what it uses has not been freed: the channel,
\* the future and the pipe go in RibClientReset (nla_grpc.c:525-559), while the
\* thread may be in the middle of an RPC or of a wait.
NoUseAfterFree == thread # "END" => gc_exitSignal # "NULL"

\* A lost session is reported, whenever the loss falls between two of the
\* thread's looks at the channel, unless the session comes back before it is
\* seen, the login is still going on, or the client is being reset.
LossIsReported ==
  (seen = "UP" /\ chan # "READY")
    ~> (seen = "DOWN" \/ chan = "READY" \/ thread = "LOGIN" \/ loop = "JOIN")

\* A session that is found and lasts makes the client come up.
ReadyIsReported ==
  (loop = "LIVE" /\ chan = "READY")
    ~> (seen = "UP" \/ chan # "READY" \/ loop = "JOIN")

\* A reset comes to its end, wherever the thread is when the promise is set,
\* but for two places where the thread does not look: the login loop (431) and
\* the write to a pipe that nobody empties any more (394).
ResetReturns ==
  loop = "JOIN" ~> (loop = "IDLE" \/ thread = "LOGIN"
                      \/ (thread = "REPORT" /\ Len(pipe) = MaxPipe))

\* To the loop the thread is what NlaRib says.
Client == INSTANCE NlaRib WITH
  running <- gc_exitSignal # "NULL", mgr <- connectionState
ImplementsRib == Client!RibSpec

=============================================================================
