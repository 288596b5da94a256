------------------------------ MODULE NlaContext ------------------------------
(***************************************************************************)
(* The data of nla_defs.h and the operations of nla_util.c on a module's   *)
(* connection context.                                                     *)
(*                                                                         *)
(* The agent is one libevent loop.  A module owns at most four event       *)
(* sources, the pointers of its nla_context_t; a source that is not NULL   *)
(* is registered with the loop.  The start timer fires once: `timer' says  *)
(* that it is pending, and a timer that has fired and awaits event_free is *)
(* not told apart from none.                                               *)
(***************************************************************************)
EXTENDS Naturals, Sequences

CONSTANTS
  NLA_KNLM,         \* kernel netlink module
  NLA_PRPD_CLIENT,  \* gRPC client of the routing daemon
  TcpServers,       \* NLA_FPM_SERVER, NLA_NLM_SERVER
  TcpClients,       \* NLA_FPM_CLIENT, NLA_NLM_CLIENT
  Enabled,          \* modules of the configuration file (nlamc_enable)
  NotifyMe          \* NotifyMe[m]: modules whose events m wants (nlamc_notify_me)

Modules == {NLA_KNLM, NLA_PRPD_CLIENT} \cup TcpServers \cup TcpClients

ASSUME ModulesAssumption ==
  /\ NLA_KNLM # NLA_PRPD_CLIENT
  /\ {NLA_KNLM, NLA_PRPD_CLIENT} \cap (TcpServers \cup TcpClients) = {}
  /\ TcpServers \cap TcpClients = {}

ASSUME ConfigAssumption ==
  /\ Enabled \subseteq Modules
  /\ NotifyMe \in [Modules -> SUBSET Modules]

Interdependent(m, i) == m \in NotifyMe[i] /\ i \in NotifyMe[m]

\* The modules that have to be up before m is started (check_init_module).
Deps == [m \in Modules |->
  {i \in Enabled : m \in NotifyMe[i] /\ ~Interdependent(m, i)}]

-----------------------------------------------------------------------------
(* nla_context_t.  A client's bufferevent exists from the connect attempt  *)
(* on, a server's from the accepted connection on.                         *)

Context == [infravec    : BOOLEAN,
            timer       : BOOLEAN,
            listener    : BOOLEAN,
            bev         : {"NULL", "CONNECTING", "OPEN"},
            socket_read : BOOLEAN]

\* memset(&ctx, 0, sizeof ctx) of every *_get_vec
NullContext == [infravec |-> FALSE, timer |-> FALSE, listener |-> FALSE,
                bev |-> "NULL", socket_read |-> FALSE]

\* nla_context_cleanup: every source is freed, the infra vector is kept
Cleanup(c) == [NullContext EXCEPT !.infravec = c.infravec]

\* Slip: the timer is armed over whatever the context still holds.
TimerStart_dirty(c) == [c EXCEPT !.timer = TRUE]

\* *_timer_start: always from fresh, then the two-second timer
TimerStart(c) == [Cleanup(c) EXCEPT !.timer = TRUE]

\* Slip: the infra vector is not set again after get_vec.
Start_no_vec(c) == TimerStart(c)

\* *_init
Start(c) == [TimerStart(c) EXCEPT !.infravec = TRUE]

\* Does the event loop hold an event of this context?
Armed(c) == c.timer \/ c.listener \/ c.bev # "NULL" \/ c.socket_read

=============================================================================
