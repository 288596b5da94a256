------------------------------- MODULE NlaInfra -------------------------------
(***************************************************************************)
(* The infrastructure of nla_main.c: registration of the modules, tracking *)
(* of their connections, bring-up in dependency order, requests for a      *)
(* flash, and the fresh start that follows every lost connection.          *)
(*                                                                         *)
(* The infra and the modules call each other inside one callback of the    *)
(* event loop.  An action of the agent is one such callback with all that  *)
(* it calls; the operators of this module are the parts of those calls     *)
(* that belong to the infra.                                               *)
(***************************************************************************)
EXTENDS NlaContext

VARIABLES
  nlam_vec,          \* modules registered with the infra (nlam_vec not NULL)
  connection_state,  \* nlam_connection_state; "UNSET" is the static zero
  reinit,            \* nlag_reinit is pending in the loop
  ctx,               \* nlac context of every module
  nlsock,            \* nla_knlm.c: the netlink socket is allocated
  rib,               \* nla_grpc.c: connection manager thread and its pipe
  flashed            \* observer: the listeners that m's flash has covered

infraVars == <<nlam_vec, connection_state, reinit, ctx, nlsock, rib, flashed>>

\* grpc_ctx: does the connection manager run, the last state it has reported,
\* and the states it has written to the pipe
Rib == [running : BOOLEAN, mgr : {"UP", "DOWN"}, pipe : Seq({"UP", "DOWN"})]

\* RibClientReset: the thread has been joined and both pipe ends are closed
NoRib == [running |-> FALSE, mgr |-> "DOWN", pipe |-> << >>]

-----------------------------------------------------------------------------
(* Queries.  The infra reads the states while a callback is changing them, *)
(* so the vectors and the states are parameters.                           *)

is_module_enabled(m, vec) == m \in Enabled /\ m \in vec
is_module_up(m, cs)       == cs[m] = "UP"

\* The modules that m notifies.
Subscribers(m, vec) == {i \in Modules : is_module_enabled(i, vec) /\ m \in NotifyMe[i]}

\* Slips: a module that is up is started again; an interdependent module is
\* waited for like any other; nobody is waited for.
check_init_module_again(m, vec, cs) ==
  /\ is_module_enabled(m, vec)
  /\ \A i \in Subscribers(m, vec) : Interdependent(m, i) \/ is_module_up(i, cs)
check_init_module_strict(m, vec, cs) ==
  /\ is_module_enabled(m, vec)
  /\ ~is_module_up(m, cs)
  /\ \A i \in Subscribers(m, vec) : is_module_up(i, cs)
check_init_module_early(m, vec, cs) == is_module_enabled(m, vec) /\ ~is_module_up(m, cs)

\* nla_infra_check_init_module: is nlamv_init_cb of m called?
check_init_module(m, vec, cs) ==
  /\ is_module_enabled(m, vec)
  /\ ~is_module_up(m, cs)
  /\ \A i \in Subscribers(m, vec) : Interdependent(m, i) \/ is_module_up(i, cs)

\* nla_infra_request_flash: is nlamv_init_flash_cb of m called?
request_flash(m, vec, cs) ==
  /\ is_module_enabled(m, vec)
  /\ is_module_up(m, cs)
  /\ Subscribers(m, vec) # {}
  /\ \A i \in Subscribers(m, vec) : is_module_up(i, cs)

\* Slip: those that m listens to are not asked.
init_flash_own(m, vec, cs) == {s \in {m} : request_flash(s, vec, cs)}

\* nla_infra_init_flash: the modules asked for a flash when m comes up
init_flash(m, vec, cs) == {s \in {m} \cup NotifyMe[m] : request_flash(s, vec, cs)}

\* nlamv_reset_cb of every module in S, on its context and on what it owns
ResetContexts(S, c) == [m \in Modules |-> IF m \in S THEN Cleanup(c[m]) ELSE c[m]]
\* nlamv_init_cb of every module in S
InitContexts(S, c)  == [m \in Modules |-> IF m \in S THEN Start(c[m]) ELSE c[m]]
\* Both callbacks first free the netlink socket and the connection manager.
FreeSocket(S, sock) == sock /\ NLA_KNLM \notin S
\* Slip: what the thread has written survives the reset.
FreeRib_pipe_kept(S, r) ==
  IF NLA_PRPD_CLIENT \in S THEN [NoRib EXCEPT !.pipe = r.pipe] ELSE r
FreeRib(S, r)       == IF NLA_PRPD_CLIENT \in S THEN NoRib ELSE r

\* Observer: a session of m ends.  A flash m has sent, or one sent to m, no
\* longer counts.
EndSession(m, f) == [s \in Modules |-> IF s = m THEN {} ELSE f[s] \ {m}]

-----------------------------------------------------------------------------
(* nla_infra_process_connection_status_change.  The caller says what its   *)
(* own handler makes of its context (c), the netlink socket (sock) and the *)
(* connection manager (r).                                                 *)

\* case NLA_CONNECTION_UP of m: start what m listens to, then ask for flashes.
ConnectionUp(m, c, sock, r) ==
  LET changed == ~is_module_up(m, connection_state)
      cs      == [connection_state EXCEPT ![m] = "UP"]
      inits   == {i \in NotifyMe[m] : changed /\ check_init_module(i, nlam_vec, cs)}
      flashes == {s \in init_flash(m, nlam_vec, cs) : changed}
  IN /\ connection_state' = cs
     /\ ctx' = InitContexts(inits, c)
     /\ nlsock' = FreeSocket(inits, sock)
     /\ rib' = FreeRib(inits, r)
     /\ flashed' = [s \in Modules |-> IF s \in flashes THEN Subscribers(s, nlam_vec)
                                                       ELSE flashed[s]]
     /\ UNCHANGED <<nlam_vec, reinit>>

\* Slip: the loss of a connection is noted, and nothing is started afresh.
ConnectionDown_no_reinit(m) ==
  /\ connection_state' = [connection_state EXCEPT ![m] = "DOWN"]
  /\ flashed' = EndSession(m, flashed)
  /\ UNCHANGED <<nlam_vec, reinit>>

\* case NLA_CONNECTION_DOWN of m: schedule the fresh start.
ConnectionDown(m) ==
  /\ connection_state' = [connection_state EXCEPT ![m] = "DOWN"]
  /\ reinit' = (reinit \/ connection_state[m] # "DOWN")
  /\ flashed' = EndSession(m, flashed)
  /\ UNCHANGED nlam_vec

-----------------------------------------------------------------------------
\* nla_infra_libevent_init arms the event that registers the modules.
InfraInit ==
  /\ nlam_vec = {}
  /\ connection_state = [m \in Modules |-> "UNSET"]
  /\ reinit = TRUE
  /\ ctx = [m \in Modules |-> NullContext]
  /\ nlsock = FALSE
  /\ rib = NoRib
  /\ flashed = [m \in Modules |-> {}]

\* get_vec of every enabled module: memset of its context, whatever it holds
GetVec(c) == [m \in Modules |-> IF m \in Enabled THEN NullContext ELSE c[m]]

\* nla_infra_modules_reinit_event: reset the registered modules, register the
\* enabled ones afresh, start those that need nobody else.
modules_reinit_event ==
  /\ reinit
  /\ LET cs    == [m \in Modules |-> IF m \in Enabled THEN "DOWN" ELSE connection_state[m]]
         inits == {m \in Modules : check_init_module(m, Enabled, cs)}
     IN /\ connection_state' = cs
        /\ nlam_vec' = Enabled
        /\ ctx' = InitContexts(inits, GetVec(ResetContexts(nlam_vec, ctx)))
        /\ nlsock' = FreeSocket(nlam_vec \cup inits, nlsock)
        /\ rib' = FreeRib(nlam_vec \cup inits, rib)
  /\ reinit' = FALSE
  /\ flashed' = [m \in Modules |-> {}]

=============================================================================
