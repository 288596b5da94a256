------------------------------- MODULE NlaRoutes -------------------------------
(***************************************************************************)
(* The way of the kernel's routes through the agent: the netlink socket of *)
(* nla_knlm.c with the dump that a flash requests, the dispatcher, the     *)
(* write and read callbacks of the TCP modules, and the route operations   *)
(* of nla_prpd_client.c and nla_grpc.c.  Connections come and go as        *)
(* NlaLifecycle allows, which NlaAgent is shown to implement; a connection *)
(* keeps the order of its messages, which NlaFraming is shown to do.       *)
(* Policies are left to NlaDispatch: here every listener accepts all.      *)
(***************************************************************************)
EXTENDS NlaContext

CONSTANTS
  Prefixes, Hops,  \* destinations of routes, and ways to them
  NoRoute,         \* no way
  Peer,            \* Peer[m]: the module at the other end of m's connection
  MaxSock,         \* messages that fit into the socket's receive buffer
  MaxWire          \* bound of the messages that a module has written

TcpModules == TcpServers \cup TcpClients

\* The wiring of the files in utils/ and of the README: the kernel is a source,
\* and the agent may be its own peer.
ASSUME RoutesAssumption ==
  /\ NoRoute \notin Hops
  /\ NLA_KNLM \in Enabled /\ NotifyMe[NLA_KNLM] = {}
  /\ DOMAIN Peer \subseteq TcpModules \cap Enabled
  /\ \A m \in DOMAIN Peer : Peer[m] \in DOMAIN Peer /\ Peer[Peer[m]] = m
  /\ MaxSock \in Nat \ {0} /\ MaxWire \in Nat \ {0}

\* Whoever is at the other end of a module and is not the agent: peers with
\* tables of their own, and the routing daemon.
Peers == (TcpModules \cap Enabled) \ DOMAIN Peer
Sinks == Peers \cup ({NLA_PRPD_CLIENT} \cap Enabled)

\* RTM_NEWROUTE, or RTM_DELROUTE if hop = NoRoute.  nla_knlm_trigger_write
\* clears the flags: whether a new route replaces another cannot be seen.
Message == [prefix : Prefixes, hop : Hops \cup {NoRoute}]
Table   == [Prefixes -> Hops \cup {NoRoute}]
Empty   == [p \in Prefixes |-> NoRoute]

VARIABLES
  up, dirty,  \* sessions, see NlaLifecycle
  kernel,     \* the routes of the kernel
  sock,       \* receive buffer of nlsock
  dump,       \* prefixes that a running dump has yet to visit
  overrun,    \* a notification did not fit into the buffer of this socket
  wire,       \* wire[m]: messages that m has written and the other end not read
  cut,        \* modules that are up over a connection whose other end is gone
  broken,     \* the channel to the daemon is lost, and not yet reported
  table       \* table[s]: the routes of the sink behind s

vars == <<up, dirty, kernel, sock, dump, overrun, wire, cut, broken, table>>

Sessions == INSTANCE NlaLifecycle WITH Mods <- Enabled

-----------------------------------------------------------------------------
(* The kernel, and the daemon's retention of routes.                       *)

KernelChange(p, h) ==
  /\ kernel[p] # h
  /\ kernel' = [kernel EXCEPT ![p] = h]
  /\ IF NLA_KNLM \notin up THEN UNCHANGED <<sock, overrun>>
     ELSE IF Len(sock) < MaxSock
     THEN sock' = Append(sock, [prefix |-> p, hop |-> h]) /\ UNCHANGED overrun
     ELSE overrun' = TRUE /\ UNCHANGED sock
  /\ UNCHANGED <<up, dirty, dump, wire, cut, broken, table>>

\* A dump goes on as the reader makes room, in an order of the kernel's own.
DumpStep(p) ==
  /\ p \in dump
  /\ Len(sock) < MaxSock
  /\ dump' = dump \ {p}
  /\ sock' = IF kernel[p] = NoRoute THEN sock
             ELSE Append(sock, [prefix |-> p, hop |-> kernel[p]])
  /\ UNCHANGED <<up, dirty, kernel, overrun, wire, cut, broken, table>>

\* The daemon keeps the routes of a client that is gone for the purge time.
Purge ==
  /\ NLA_PRPD_CLIENT \in Sinks
  /\ NLA_PRPD_CLIENT \notin up \/ broken
  /\ table' = [table EXCEPT ![NLA_PRPD_CLIENT] = Empty]
  /\ UNCHANGED <<up, dirty, kernel, sock, dump, overrun, wire, cut, broken>>

\* The channel breaks; until the thread has reported it, every RPC fails.
ChannelLost ==
  /\ NLA_PRPD_CLIENT \in up
  /\ broken' = TRUE
  /\ UNCHANGED <<up, dirty, kernel, sock, dump, overrun, wire, cut, table>>

-----------------------------------------------------------------------------
(* Messages.                                                               *)

listeners(from) == {i \in Enabled : from \in NotifyMe[i] /\ i \in up}

\* Slip: a route is removed before it is added again, and not added.
prpdc_write_toggled(t, msg) ==
  [t EXCEPT ![msg.prefix] = IF @ # NoRoute THEN NoRoute ELSE msg.hop]

\* nla_prpdc_notify: RibClientAddRoute is refused for a prefix that the daemon
\* already has (ROUTE_EXISTS), RibClientRemoveRoute for one that it has not.
\* A refusal is logged.
prpdc_write(t, msg) ==
  IF msg.hop # NoRoute /\ t[msg.prefix] # NoRoute THEN t
  ELSE [t EXCEPT ![msg.prefix] = msg.hop]

\* The dispatcher hands msg to every listener of `from'; w is what is left on
\* the connections.
Dispatch(from, msg, w) ==
  /\ \A i \in (listeners(from) \cap TcpModules) \ cut : Len(w[i]) < MaxWire
  /\ wire' = [m \in TcpModules |-> IF m \in listeners(from) \ cut
                                     THEN Append(w[m], msg) ELSE w[m]]
  /\ table' = [s \in Sinks |->
                 IF s = NLA_PRPD_CLIENT /\ s \in listeners(from) /\ ~broken
                 THEN prpdc_write(table[s], msg) ELSE table[s]]

\* nla_knlm_socket_read_msg, for one message of what is received
KnlmRead ==
  /\ NLA_KNLM \in up
  /\ sock # << >>
  /\ sock' = Tail(sock)
  /\ Dispatch(NLA_KNLM, Head(sock), wire)
  /\ UNCHANGED <<up, dirty, kernel, dump, overrun, cut, broken>>

\* read_cb of m, for one message from the module at the other end
Read(m) ==
  /\ m \in up \cap DOMAIN Peer
  /\ m \notin cut
  /\ wire[Peer[m]] # << >>
  /\ Dispatch(m, Head(wire[Peer[m]]), [wire EXCEPT ![Peer[m]] = Tail(@)])
  /\ UNCHANGED <<up, dirty, kernel, sock, dump, overrun, cut, broken>>

\* A peer that is not the agent takes a message: a new route for a prefix
\* takes the place of the old one.
PeerRead(m) ==
  /\ m \in up \cap Peers
  /\ wire[m] # << >>
  /\ LET msg == Head(wire[m]) IN table' = [table EXCEPT ![m][msg.prefix] = msg.hop]
  /\ wire' = [wire EXCEPT ![m] = Tail(@)]
  /\ UNCHANGED <<up, dirty, kernel, sock, dump, overrun, cut, broken>>

-----------------------------------------------------------------------------
(* Sessions.                                                               *)

subscribers(m) == {i \in Enabled : m \in NotifyMe[i]}

\* Slip: only the modules that m listens to are asked.
flash_requested_others(m, ups) ==
  /\ NLA_KNLM \in NotifyMe[m] \cap ups
  /\ subscribers(NLA_KNLM) # {} /\ subscribers(NLA_KNLM) \subseteq ups

\* nla_infra_init_flash, nla_infra_request_flash: is nla_knlm_init_flash called
\* when m has come up?  The flash of the other modules does nothing.
flash_requested(m, ups) ==
  /\ NLA_KNLM \in ({m} \cup NotifyMe[m]) \cap ups
  /\ subscribers(NLA_KNLM) # {} /\ subscribers(NLA_KNLM) \subseteq ups

\* A module connects.  A request for a dump is refused while one is running.  A
\* server that still holds a dead connection does not serve the new one.
BringUp(m) ==
  /\ Sessions!BringUp(m)
  /\ dump' = IF flash_requested(m, up') /\ dump = {} THEN Prefixes ELSE dump
  /\ cut' = IF m \in DOMAIN Peer /\ Peer[m] \in cut THEN cut \cup {m} ELSE cut
  /\ broken' = (broken /\ m # NLA_PRPD_CLIENT)
  /\ UNCHANGED <<kernel, sock, overrun, wire, table>>

\* A peer forgets the routes of a session that has ended; the daemon does not.
forgotten(ms) == [s \in Sinks |-> IF s \in Peers \cap ms THEN Empty ELSE table[s]]

\* What m owns is freed, and what is under way on its connection is lost.
ends(m) == {m} \cup (IF m \in DOMAIN Peer THEN {Peer[m]} ELSE {})
Drop(m) ==
  /\ Sessions!Drop(m)
  /\ wire' = [w \in TcpModules |-> IF w \in ends(m) THEN << >> ELSE wire[w]]
  /\ cut' = (cut \cup (ends(m) \cap up)) \ {m}
  /\ broken' = (broken /\ m # NLA_PRPD_CLIENT)
  /\ IF m = NLA_KNLM THEN sock' = << >> /\ dump' = {} /\ overrun' = FALSE
     ELSE UNCHANGED <<sock, dump, overrun>>
  /\ table' = forgotten({m})
  /\ UNCHANGED kernel

\* Every module is reset.
FreshStart ==
  /\ Sessions!FreshStart
  /\ sock' = << >> /\ dump' = {} /\ overrun' = FALSE
  /\ wire' = [m \in TcpModules |-> << >>]
  /\ cut' = {}
  /\ broken' = FALSE
  /\ table' = forgotten(Enabled)
  /\ UNCHANGED kernel

-----------------------------------------------------------------------------
Init ==
  /\ Sessions!LifeInit
  /\ kernel = Empty
  /\ sock = << >> /\ dump = {} /\ overrun = FALSE
  /\ wire = [m \in TcpModules |-> << >>]
  /\ cut = {}
  /\ broken = FALSE
  /\ table = [s \in Sinks |-> Empty]

Change == \E p \in Prefixes, h \in Hops \cup {NoRoute} : KernelChange(p, h)
Dumping == \E p \in dump : DumpStep(p)

Next ==
  \/ Change \/ Dumping \/ Purge \/ ChannelLost
  \/ KnlmRead
  \/ \E m \in TcpModules : Read(m) \/ PeerRead(m)
  \/ FreshStart
  \/ \E m \in Enabled : BringUp(m) \/ Drop(m)

Spec == Init /\ [][Next]_vars

\* The loop serves every source, and the modules come up again (shown of
\* NlaAgent); the loss of a connection is noticed in the end.
Fairness ==
  /\ WF_vars(Dumping) /\ WF_vars(KnlmRead)
  /\ \A m \in TcpModules : WF_vars(Read(m)) /\ WF_vars(PeerRead(m))
  /\ WF_vars(FreshStart)
  /\ \A m \in Enabled : WF_vars(BringUp(m))
  /\ WF_vars(broken /\ Drop(NLA_PRPD_CLIENT))

FairSpec == Spec /\ Fairness

-----------------------------------------------------------------------------
(* Properties.                                                             *)

\* Every module is up, no fresh start is due, nothing is under way, and the
\* kernel has not been forced to drop a notification.
Settled ==
  /\ Enabled \subseteq up /\ ~dirty /\ ~broken /\ ~overrun
  /\ sock = << >> /\ dump = {} /\ \A m \in TcpModules : wire[m] = << >>

PeersHaveAll   == \A s \in Peers : table[s] = kernel
DaemonHasAll   ==
  \A s \in Sinks \cap {NLA_PRPD_CLIENT}, p \in Prefixes :
    kernel[p] # NoRoute => table[s][p] # NoRoute

\* Whatever changes during the dump, and in whatever order the connections came
\* up, a peer ends with the kernel's routes: none missing, none stale
\* (nla_knlm.c:224, "request route flash from knlm").
PeersAgree == Settled => PeersHaveAll

\* The only way of the kernel's routes to the daemon: over the connections that
\* the modules of path write, each dispatched to by the other end of the one
\* before, and by nobody else.  Each comes up before who dispatches to it, unless
\* that is itself.
PathToDaemon(path) ==
  LET src(j) == IF j = 0 THEN NLA_KNLM ELSE Peer[path[j]]
      dst(j) == IF j = Len(path) THEN NLA_PRPD_CLIENT ELSE path[j + 1]
  IN /\ NLA_PRPD_CLIENT \in Enabled
     /\ path \in Seq(DOMAIN Peer)
     /\ \A i, j \in 1..Len(path) : path[i] = path[j] => i = j
     /\ \A j \in 0..Len(path) :
          /\ NotifyMe[dst(j)] = {src(j)}
          /\ dst(j) = src(j) \/ ~Interdependent(src(j), dst(j))

\* The daemon misses no route of the kernel, although it may have kept others
\* over a reconnection and refuses what it has.
DaemonComplete == Settled => DaemonHasAll

\* Once kernel and connections are at rest, the tables agree for good.
Rest == ~Change /\ ~Purge /\ ~ChannelLost /\ \A m \in Enabled : ~Drop(m)
EventuallyAgree ==
  <>[][Rest]_vars => <>[](overrun \/ (PeersHaveAll /\ DaemonHasAll))

=============================================================================
