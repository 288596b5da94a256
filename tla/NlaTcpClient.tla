----------------------------- MODULE NlaTcpClient -----------------------------
(***************************************************************************)
(* nla_fpm_client.c and nla_nlm_client.c, which differ only in how they    *)
(* frame a message.  The connection is made in the background: after       *)
(* server_connect the loop reports its outcome to event_cb.                *)
(***************************************************************************)
EXTENDS NlaInfra

\* Slip: the failed connection is freed, and nobody tries again.
Retry_never(m) ==
  /\ ctx' = [ctx EXCEPT ![m] = Cleanup(@)]
  /\ UNCHANGED <<nlsock, rib>>

\* connect_timer_start: from fresh, wait two seconds for the next attempt.
Retry(m) ==
  /\ ctx' = [ctx EXCEPT ![m] = TimerStart(@)]
  /\ UNCHANGED <<nlsock, rib>>

\* server_connect: bufferevent_socket_connect starts the connection.
ClientConnect(m) ==
  /\ ctx[m].timer
  /\ ctx' = [ctx EXCEPT ![m] = [@ EXCEPT !.timer = FALSE, !.bev = "CONNECTING"]]
  /\ UNCHANGED <<nlam_vec, connection_state, reinit, flashed, nlsock, rib>>

\* server_connect, goto retry: the attempt fails at once, and libevent may
\* have reported the error to event_cb before the call returned.
ClientConnectFailure(m) ==
  /\ ctx[m].timer
  /\ Retry(m)
  /\ \/ ConnectionDown(m)
     \/ UNCHANGED <<nlam_vec, connection_state, reinit, flashed>>

\* event_cb, BEV_EVENT_CONNECTED
ClientConnected(m) ==
  /\ ctx[m].bev = "CONNECTING"
  /\ ConnectionUp(m, [ctx EXCEPT ![m] = [@ EXCEPT !.bev = "OPEN"]], nlsock, rib)

\* event_cb, BEV_EVENT_EOF or BEV_EVENT_ERROR, of an attempt or of a session
event_cb_error(m) ==
  /\ ConnectionDown(m)
  /\ Retry(m)

ClientConnectError(m) == ctx[m].bev = "CONNECTING" /\ event_cb_error(m)
ClientDisconnected(m) == ctx[m].bev = "OPEN" /\ event_cb_error(m)

=============================================================================
