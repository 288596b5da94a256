------------------------------- MODULE NlaAgent -------------------------------
(***************************************************************************)
(* The netlink agent: the infra of nla_main.c with the connection side of  *)
(* its six modules, run by one event loop.  A step is one callback of the  *)
(* loop, or one step of the gRPC connection manager thread.  Any source    *)
(* that is armed may fire next.  Peers, the kernel and the operating       *)
(* system decide how a connection attempt ends and when a session breaks.  *)
(***************************************************************************)
EXTENDS NlaKnlm, NlaTcpClient, NlaTcpServer, NlaPrpdc

VARIABLE alive  \* event_base_dispatch has not returned

vars == <<infraVars, stray, alive>>

\* nla_infra_init: the reinit event is armed and the loop is entered.
Init ==
  /\ InfraInit
  /\ stray = [m \in TcpServers |-> 0]
  /\ alive = TRUE

-----------------------------------------------------------------------------
\* Does the loop hold an event of m?  PipeRead is persistent while rib runs.
Started(m) == Armed(ctx[m]) \/ (m = NLA_PRPD_CLIENT /\ rib.running)

\* event_base_dispatch returns once the loop holds no event; main resets the
\* modules and ends.
EventLoopExit ==
  /\ ~reinit
  /\ \A m \in Modules : ~Started(m)
  /\ alive' = FALSE
  /\ ctx' = ResetContexts(nlam_vec, ctx)
  /\ nlsock' = FreeSocket(nlam_vec, nlsock)
  /\ rib' = FreeRib(nlam_vec, rib)
  /\ UNCHANGED <<nlam_vec, connection_state, reinit, flashed, stray>>

Reinit == modules_reinit_event /\ UNCHANGED stray

\* The start timer of a module fires.
TimerFires(m) ==
  \/ m = NLA_KNLM /\ (KnlmConnect \/ KnlmConnectFailure) /\ UNCHANGED stray
  \/ m = NLA_PRPD_CLIENT /\ (PrpdConnect \/ PrpdConnectFailure) /\ UNCHANGED stray
  \/ m \in TcpClients /\ (ClientConnect(m) \/ ClientConnectFailure(m)) /\ UNCHANGED stray
  \/ m \in TcpServers /\ (ServerListen(m) \/ ServerBindFailure(m))

ClientEvent(m) ==
  /\ ClientConnected(m) \/ ClientConnectError(m) \/ ClientDisconnected(m)
  /\ UNCHANGED stray

ServerEvent(m) ==
  \/ ServerAccept(m) \/ ServerAcceptExtra(m) \/ ServerDisconnected(m)
  \/ ServerAcceptError(m)

PipeRead == (PipeReadUp \/ PipeReadDown) /\ UNCHANGED stray

Manager == (ConnectionManagerUp \/ ConnectionManagerDown) /\ UNCHANGED stray

Callback ==
  \/ Reinit \/ PipeRead \/ Manager
  \/ \E m \in Modules : TimerFires(m)
  \/ \E m \in TcpClients : ClientEvent(m)
  \/ \E m \in TcpServers : ServerEvent(m)

Next == alive /\ (EventLoopExit \/ (Callback /\ UNCHANGED alive))

Spec == Init /\ [][Next]_vars

-----------------------------------------------------------------------------
(* Fairness.  libevent serves every source that is ready, so a timer or an *)
(* event that stays armed fires.  A connection attempt ends one way or the *)
(* other; somebody connects to a server that keeps listening; the channel  *)
(* that the manager thread keeps retrying becomes ready.                   *)

Live(A) == alive /\ A /\ UNCHANGED <<stray, alive>>

Fairness ==
  /\ WF_vars(Live(Reinit))
  /\ \A m \in Modules : WF_vars(Live(TimerFires(m)))
  /\ \A m \in TcpClients : WF_vars(Live(ClientConnected(m) \/ ClientConnectError(m)))
  /\ \A m \in TcpServers : WF_vars(Live(ServerAccept(m)))
  /\ WF_vars(Live(ConnectionManagerUp))
  /\ WF_vars(Live(PipeRead))

FairSpec == Spec /\ Fairness

\* The outside world refuses a connection or breaks one.
Fault ==
  \/ KnlmConnectFailure \/ PrpdConnectFailure \/ ConnectionManagerDown
  \/ \E m \in TcpClients :
       ClientConnectFailure(m) \/ ClientConnectError(m) \/ ClientDisconnected(m)
  \/ \E m \in TcpServers :
       ServerBindFailure(m) \/ ServerDisconnected(m) \/ ServerAcceptError(m)

-----------------------------------------------------------------------------
(* Properties.                                                             *)

Up == {m \in Modules : connection_state[m] = "UP"}

\* Every variable holds values of its type, and the observers stay in bounds.
TypeOK ==
  /\ nlam_vec \subseteq Modules
  /\ connection_state \in [Modules -> {"UNSET", "DOWN", "UP"}]
  /\ reinit \in BOOLEAN
  /\ ctx \in [Modules -> Context]
  /\ nlsock \in BOOLEAN
  /\ rib \in Rib
  /\ Len(rib.pipe) <= MaxPipe
  /\ flashed \in [Modules -> SUBSET Modules]
  /\ stray \in [TcpServers -> 0..MaxStray]
  /\ alive \in BOOLEAN

HasTransport(m) ==
  CASE m = NLA_KNLM -> nlsock /\ ctx[m].socket_read
    [] m = NLA_PRPD_CLIENT -> rib.running
    [] OTHER -> ctx[m].bev = "OPEN"

\* What the infra holds for UP can be written to: notify_cb and init_flash_cb
\* use nlsock, nlac_bev and the channel without looking (nla_fpm_server.c:303,
\* nla_knlm.c:228).
UpHasTransport == \A m \in Up : HasTransport(m)

\* The start order of check_init_module survives every interleaving: unless a
\* fresh start is pending, a module that is up has all its listeners up, so
\* what it sends to them is not dropped as "module still not up".
DependencyOrder == ~reinit => \A m \in Up : Deps[m] \subseteq Up

\* No module is forgotten: unless a fresh start is pending, an enabled module
\* that is down and may be started has an event in the loop that can bring it
\* up.  The infra starts a module only from the callbacks of others.
NoLostWakeup ==
  ~reinit => \A m \in Enabled \ Up : Deps[m] \subseteq Up => Started(m)

\* Whatever order the connections come up in, a module and its listeners that
\* are all connected have had a flash since the last of them connected
\* (nla_infra_init_flash): no listener works on from a stale picture.
FlashComplete ==
  ~reinit => \A s \in Up :
    LET subs == Subscribers(s, nlam_vec)
    IN (\A i \in subs \cup {s} : i \in Up /\ HasTransport(i)) => subs \subseteq flashed[s]

\* A start timer that is armed owns its module alone: the handler it runs
\* stores new sources over the pointers of the context (and nlsock, and the
\* thread of nla_grpc.c), and would lose a source that is still in the loop.
NothingOverwritten ==
  \A m \in Modules : ctx[m].timer =>
    /\ ~ctx[m].listener /\ ctx[m].bev = "NULL" /\ ~ctx[m].socket_read
    /\ m = NLA_KNLM => ~nlsock
    /\ m = NLA_PRPD_CLIENT => ~rib.running

\* A source in the loop belongs to an enabled module whose infra vector is
\* set: every handler goes through nlac_infravec.
NoOrphanCallback ==
  \A m \in Modules : Started(m) => m \in nlam_vec /\ ctx[m].infravec

\* A module that comes up disturbs nobody: it starts modules that are idle, and
\* restarts one that is under way only if the two are interdependent or a
\* fresh start is pending anyway.
RestartOnlyInterdependent ==
  [][\A m, i \in Modules :
       (/\ m \notin Up /\ m \in Up' /\ i # m
        /\ Started(i) /\ ~reinit /\ ~Interdependent(m, i))
         => ctx'[i] = ctx[i]]_vars

\* A set of modules each of which waits for another of the set is never
\* started, whatever comes and goes around it, and so nobody in it is ever up.
CycleNeverStarts ==
  \A C \in SUBSET Modules :
    (\A m \in C : Deps[m] \cap C # {}) => \A m \in C : m \notin Up /\ ~Started(m)

\* The agent ends by itself only when no module has a connection to lose.
NobodyUpAtExit == ~alive => Up = {}

\* Once the outside world stops failing, every module gets its connection.
AllUp == Enabled \subseteq Up
EventuallyAllUp == <>[][~Fault]_vars => <>[](AllUp /\ ~reinit)

\* The agent implements the lifecycle that the infra promises.
Lifecycle == INSTANCE NlaLifecycle WITH
  Mods <- Enabled, Deps <- Deps, up <- Up, dirty <- reinit
LifecycleSpec == Lifecycle!LifeSpec

\* Whoever resets the routing daemon client and whenever the thread reports,
\* the infra learns of the reports in order, of all or of none after a reset,
\* and never believes a client up that has been reset (nla_grpc.c, PipeRead,
\* RibClientReset; the thread in detail is NlaGrpc).
Client == INSTANCE NlaRib WITH
  running <- rib.running, mgr <- rib.mgr, pipe <- rib.pipe,
  seen <- IF connection_state[NLA_PRPD_CLIENT] = "UP" THEN "UP" ELSE "DOWN"
ThreadSpec == Client!RibSpec

=============================================================================
