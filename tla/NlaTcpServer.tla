----------------------------- MODULE NlaTcpServer -----------------------------
(***************************************************************************)
(* nla_fpm_server.c and nla_nlm_server.c, which differ only in how they    *)
(* frame a message.  A server listens for as long as it runs and serves    *)
(* one connection.                                                         *)
(***************************************************************************)
EXTENDS NlaInfra

CONSTANTS
  Faults,   \* operating-system failures considered, of {"bind", "accept"}
  MaxStray  \* bound of `stray'

ASSUME ServerAssumption == Faults \subseteq {"bind", "accept"} /\ MaxStray \in Nat

VARIABLE stray  \* stray[m]: connections accepted by m, never served or closed

\* listener: the start timer fires and the port can be bound.
ServerListen(m) ==
  /\ ctx[m].timer
  /\ ctx' = [ctx EXCEPT ![m] = [@ EXCEPT !.timer = FALSE, !.listener = TRUE]]
  /\ UNCHANGED <<nlam_vec, connection_state, reinit, flashed, nlsock, rib, stray>>

\* listener: evconnlistener_new_bind fails and the function returns.
ServerBindFailure(m) ==
  /\ "bind" \in Faults
  /\ ctx[m].timer
  /\ ctx' = [ctx EXCEPT ![m].timer = FALSE]
  /\ UNCHANGED <<nlam_vec, connection_state, reinit, flashed, nlsock, rib, stray>>

\* accept_connections, no connection yet
ServerAccept(m) ==
  /\ ctx[m].listener
  /\ ctx[m].bev = "NULL"
  /\ ConnectionUp(m, [ctx EXCEPT ![m].bev = "OPEN"], nlsock, rib)
  /\ UNCHANGED stray

\* accept_connections, "only 1 connection allowed": fd is dropped, not closed.
ServerAcceptExtra(m) ==
  /\ ctx[m].listener
  /\ ctx[m].bev # "NULL"
  /\ stray[m] < MaxStray
  /\ stray' = [stray EXCEPT ![m] = @ + 1]
  /\ UNCHANGED infraVars

\* Slip: the server starts over without reporting the loss.
ServerDisconnected_silent(m) ==
  /\ ctx[m].bev = "OPEN"
  /\ ctx' = [ctx EXCEPT ![m] = TimerStart(@)]
  /\ UNCHANGED <<nlam_vec, connection_state, reinit, flashed, nlsock, rib, stray>>

\* event_cb, BEV_EVENT_EOF or BEV_EVENT_ERROR
ServerDisconnected(m) ==
  /\ ctx[m].bev = "OPEN"
  /\ ConnectionDown(m)
  /\ ctx' = [ctx EXCEPT ![m] = TimerStart(@)]
  /\ UNCHANGED <<nlsock, rib, stray>>

\* nla_accept_error_cb: start from fresh, without a word to the infra.
ServerAcceptError(m) ==
  /\ "accept" \in Faults
  /\ ctx[m].listener
  /\ ctx' = [ctx EXCEPT ![m] = TimerStart(@)]
  /\ flashed' = EndSession(m, flashed)
  /\ UNCHANGED <<nlam_vec, connection_state, reinit, nlsock, rib, stray>>

=============================================================================
