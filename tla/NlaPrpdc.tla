------------------------------- MODULE NlaPrpdc -------------------------------
(***************************************************************************)
(* nla_prpd_client.c with the connection side of nla_grpc.c.  The client   *)
(* has no socket of its own: a connection manager thread watches the gRPC  *)
(* channel, and writes each change of its state to a pipe that the event   *)
(* loop reads.                                                             *)
(***************************************************************************)
EXTENDS NlaInfra

CONSTANT MaxPipe  \* bound of the pipe: states written and not yet read

ASSUME PipeAssumption == MaxPipe \in Nat \ {0}

prpdc_ctx == ctx[NLA_PRPD_CLIENT]

\* server_connect: RibClientInit makes the channel, the pipe and the thread.
PrpdConnect ==
  /\ prpdc_ctx.timer
  /\ ctx' = [ctx EXCEPT ![NLA_PRPD_CLIENT].timer = FALSE]
  /\ rib' = [NoRib EXCEPT !.running = TRUE]
  /\ UNCHANGED <<nlam_vec, connection_state, reinit, flashed, nlsock>>

\* server_connect, goto retry: RibClientReset frees what RibClientInit made.
PrpdConnectFailure ==
  /\ prpdc_ctx.timer
  /\ ctx' = [ctx EXCEPT ![NLA_PRPD_CLIENT] = TimerStart(@)]
  /\ rib' = NoRib
  /\ UNCHANGED <<nlam_vec, connection_state, reinit, flashed, nlsock>>

-----------------------------------------------------------------------------
(* The thread, concurrent with the loop: ConnectionManager sees the        *)
(* channel in a state other than the last one it reported and writes it.   *)
ConnectionManager(state) ==
  /\ rib.running
  /\ rib.mgr # state
  /\ Len(rib.pipe) < MaxPipe
  /\ rib' = [rib EXCEPT !.mgr = state, !.pipe = Append(@, state)]
  /\ UNCHANGED <<nlam_vec, connection_state, reinit, ctx, nlsock, flashed>>

\* GRPC_CHANNEL_READY, and the login and the route purge time are accepted
ConnectionManagerUp == ConnectionManager("UP")
ConnectionManagerDown == ConnectionManager("DOWN")

-----------------------------------------------------------------------------
(* The loop: PipeRead takes one state and hands it to nla_prpdc_event_cb.  *)

pipe_holds(state) == rib.pipe # << >> /\ Head(rib.pipe) = state
rib_after_read    == [rib EXCEPT !.pipe = Tail(@)]

PipeReadUp ==
  /\ pipe_holds("UP")
  /\ ConnectionUp(NLA_PRPD_CLIENT, ctx, nlsock, rib_after_read)

PipeReadDown ==
  /\ pipe_holds("DOWN")
  /\ ConnectionDown(NLA_PRPD_CLIENT)
  /\ rib' = rib_after_read
  /\ UNCHANGED <<ctx, nlsock>>

=============================================================================
