# Verification of the netlink agent

TLA+ modules, TLC configurations and TLAPS proofs for the netlink agent
(`nlad`): a daemon that passes netlink route messages between the Linux kernel,
a routing daemon (gRPC), FPM peers and netlink-over-TCP peers. All paths below
are relative to the repository.

## 1. The system

### Components

| component | source | state it keeps | operations |
|---|---|---|---|
| infra | `nla_main.c` | per module: vector (`nlam_vec`), connection state, configuration; the pending fresh start (`nlag_reinit`) | register, reset, start modules in dependency order, track connection status, ask for flashes, dispatch write events |
| contexts | `nla_defs.h`, `nla_util.c` | five pointers per module: start timer, listener, bufferevent, socket read event, infra vector | cleanup, timers |
| kernel module (KNLM) | `nla_knlm.c` | netlink socket, socket read event | connect with a retry every two seconds, read, flash (route dump), write |
| FPM and NLM client | `nla_fpm_client.c`, `nla_nlm_client.c` | one bufferevent | connect in the background, retry, read loop, write |
| FPM and NLM server | `nla_fpm_server.c`, `nla_nlm_server.c` | listener, one bufferevent | listen, accept one connection, start over on a loss, read loop, write |
| routing daemon client (PRPD) | `nla_prpd_client.c`, `nla_grpc.c` | gRPC channel, manager thread with exit promise, pipe, pipe read event | connect, log in, watch the channel, add and remove routes |
| policies | `nla_policy.c` | none (configuration) | filter, set, strip, on a copy per listener |
| framing | `nla_util.c`, `nla_fpm.h` | none | FPM headers, walks over a buffer, netlink lengths |
| configuration | `nla_config.c` | the configuration table | one pass over the nodes of the YAML document |
| start-up | `nla_main.c` | flags | options, daemonise, enter the loop |

### How they interact

Everything but one thread runs in one libevent loop. A module learns of its peer
in a callback, calls the infra through `nlaiv_notify_cb`, and the infra calls
other modules back before that callback returns: `CONNECTION_UP` of a module
starts the modules that it listens to (`nla_infra_check_init_module`) and asks
it and them for a flash (`nla_infra_init_flash`). `CONNECTION_DOWN` only arms
`nlag_reinit`: the fresh start, which resets and re-registers every module, runs
in a later pass of the loop, and anything may run before it. A write event is
copied, passed through the listener's policy and handed to every listener that
is up. The exception is the gRPC connection manager, a thread that reports the
state of the channel through a pipe that the loop reads.

`notify-me` is the wiring: `notify_me[i][m]` means that `i` listens to `m`. A
module may be started when all its listeners are up, so that nothing it sends is
lost; two modules that listen to each other do not wait for each other.

### What is hard

* The order in which six connections come up, break and come back is decided by
  timers, peers and the kernel. The infra starts a module only from the callback
  of another: one missed check, and it stays down; one check too many, and a
  session that is under way is torn down.
* Between a loss and the fresh start that follows it, every other event may run.
* Contexts are wiped and reused: a source that outlives its context would run
  with a NULL infra vector; a handler that stores a source over another loses it.
* Failures that do not go through `CONNECTION_DOWN`: a port that cannot be
  bound, an accept error, a second client.
* The manager thread runs beside all this, and is joined from the loop.
* Messages: one refused copy, a partial read, a length that does not fit.

### What makes each component correct

* infra: listeners before sources (`DependencyOrder`), nobody forgotten
  (`NoLostWakeup`), nobody disturbed (`RestartOnlyInterdependent`), every
  completed source flashed (`FlashComplete`), circles never started
  (`CycleNeverStarts`), and in the end everything up (`EventuallyAllUp`);
* contexts and timers: an armed timer is alone (`NothingOverwritten`), and every
  armed source has its infra vector (`NoOrphanCallback`);
* modules: what the infra holds for up has a transport (`UpHasTransport`);
* dispatcher and policies: every listener gets its own view of every message
  that it accepts (`OwnView`), whatever the other listeners accept
  (`LostOnlyToRefusal`);
* framing: every message delivered once, in order, however the stream is cut
  (`InStep`, `NothingHeldBack`, `EventuallyHandedOver`, `ImplementsLink`);
* thread: nothing is freed under it (`NoUseAfterFree`), no change of the channel
  is missed (`LossIsReported`, `ReadyIsReported`), a join ends (`ResetReturns`);
* data plane: after a flash and the updates beside it, a listener holds the
  kernel's routes (`PeersAgree`, `DaemonComplete`, `EventuallyAgree`);
* configuration: an entry belongs to its block (`AsWritten`), a name that is not
  in `nla_modules` stops the start (`RefusesUnknown`).

## 2. The models

| module | models | state |
|---|---|---|
| `NlaContext` | `nla_context_t`, `nla_context_cleanup`, the start timers | operators on a context |
| `NlaInfra` | the infra: registration, states, bring-up, flash requests, fresh start | `nlam_vec`, `connection_state`, `reinit`, `ctx`, `nlsock`, `rib`, and the observer `flashed` |
| `NlaKnlm` | connection of the kernel module | uses `ctx`, `nlsock` |
| `NlaTcpClient` | connection of the two clients | uses `ctx` |
| `NlaTcpServer` | connection of the two servers | uses `ctx`; the observer `stray` |
| `NlaPrpdc` | connection of the routing daemon client, with the thread in one action | uses `ctx`, `rib` |
| `NlaAgent` | all of them in one loop; fairness; the properties | `alive` |
| `NlaLifecycle` | the abstract specification: what the infra promises of connections | `up`, `dirty` |
| `NlaRib` | the abstract specification of the manager thread: reports that arrive in order, a reset that leaves nothing behind | `running`, `mgr`, `pipe`, `seen` |
| `NlaGrpc` | the manager thread with its login, wait and outer loops, the exit promise, the join, the pipe and the channel | `loop`, `gc_exitSignal`, `pipe`, `seen`, `chan`, `thread`, `state`, `newConnectionState`, `connectionState` |
| `NlaPolicy` | policies: what `nla_policy_evaluate` makes of a message | operators on messages |
| `NlaDispatch` | the event dispatcher, over the sessions of `NlaLifecycle` | `policy`, `up`, `dirty`, and the observers `event`, `given` |
| `NlaLink` | the abstract specification of a connection: messages handed over once and in order | `queue`, `given` |
| `NlaFraming` | headers, write and read callbacks and walks over a byte stream | `link`, `watermark`, `sent`, `transit`, `input`, `reading`, `data`, `alive`, and the observer `given` |
| `NlaRoutes` | the data plane: kernel, netlink socket, dump, dispatch, connections, tables, over the sessions of `NlaLifecycle` | `up`, `dirty`, `kernel`, `sock`, `dump`, `overrun`, `wire`, `cut`, `broken`, `table` |
| `NlaConfig` | the reader of the configuration file | `file`, `nodes`, `next`, `module_id`, `config`, `ret` |
| `MCNlaAgent`, `MCNlaDispatch`, `MCNlaFraming`, `MCNlaRoutes`, `MCNlaConfig` | the instances for TLC (`NlaGrpc` has one constant and needs none) | |
| `NlaAgentProofs` | type correctness, ownership of sources, kinds of steps | |
| `NlaOrderProofs` | the theorems about order, flashes, the lifecycle, and the agent's side of `NlaRib` | |
| `NlaGrpcProofs` | the thread implements `NlaRib`; the safety of its shutdown | |
| `NlaDispatchProofs` | the theorems about the dispatcher and the policies | |
| `NlaFramingProofs` | the theorems about headers, frames and the stream | |
| `NlaRoutesProofs` | the theorems about the tables of the peers and of the daemon | |
| `NlaConfigProofs` | the theorems about the configuration reader | |
| `NlaFold` | induction, and what folds over sequences compute; the other proof modules instantiate it with the operators that the models fold | |

**A step** of `NlaAgent` is one callback of the event loop with everything it
calls, or one step of the manager thread. `ConnectionUp(m, c, sock, r)` is the
whole of `nla_infra_process_connection_status_change` for an UP: the module says
what its own handler makes of its context (`c`), the netlink socket and the
thread, and the operator adds what the infra does to others. A fresh start is
one step (`modules_reinit_event`), as it is one callback.

**State.** A pointer of a context is a field; only whether it is NULL, and for a
bufferevent whether it is connected, matters. A timer that has fired and waits
for `event_free` is not told from none: nothing reads the pointer. The variable
`rib` holds the manager thread: whether it runs, the last state it has reported,
and what is in the pipe. `flashed[m]` and `stray[m]` are observers: the
listeners that m's last flash covered in its and their present sessions, and the
connections that m accepted and neither serves nor closes.

**Environment.** Any armed source may fire next; a connection attempt ends any
way; a session breaks at any time; the thread sees the channel change at any
time. The loopback links of the end-to-end configuration, where the agent's
clients meet its own servers, are treated as arbitrary peers, which allows more.
The set `Faults` switches on two failures of the operating system, `"bind"` and
`"accept"`; everything else that can fail always can.

**Composition.** Four abstract specifications hold the project together:

    NlaAgent  --implements-->  NlaLifecycle  --sessions of-->  NlaDispatch, NlaRoutes
    NlaAgent  --implements-->  NlaRib  <--implements--  NlaGrpc
    NlaFraming --implements--> NlaLink (the connections of NlaRoutes)

`NlaRib` is what the event loop gets from the manager thread. The agent's one
action for the thread implements it, and so do the loops of `NlaGrpc`: reports
are changes, they arrive in order, and a reset leaves neither a report nor a
state behind.

`NlaDispatch` does not repeat the agent. Its connections come
and go as `NlaLifecycle` allows, and `NlaAgent` is proved to implement that
specification, so what holds of the dispatcher over the lifecycle holds over the
agent. A message is dispatched to the end in one step, as one callback does; the
observers keep what each listener was given until a session changes. A message
is the three fields that policies look at, its attributes as pairs of a type and
a size, and its length; a policy has the values of each kind in the order of the
file. A module reads messages only while it is up: each reports UP before its
read event can run.

**Slips.** An operator commented `Slip` is a plausible mistake in the operator
after it. It is used by no specification: each shows that one property would
notice (see `PROJECT.json`, `mutants`).

**The thread.** `NlaGrpc` has a step for each place where the thread touches
something that it shares: the promise, the channel or the pipe. The channel is
gRPC's and therefore external: it is idle, trying or ready, an idle one moves
when it is asked to, and it may be lost between any two steps. The event loop
may be in an RPC or in the join, and does nothing else then.

**Framing.** Lengths are bytes, contents are left out, but for one thing: which
words of a message would pass for an FPM header, because the walk over a frame
looks behind its end. The stream is cut anywhere (`Receive`), `read_cb` runs when
the low watermark is reached, one pass of its loop is one step, and `data` says
where the buffer on its stack holds such words. It keeps them from one pass to
the next; between two calls it may hold anything.

**Data plane.** A route is a prefix and a hop. The kernel changes at any time and
appends to the socket while there is room; a dump visits the prefixes one by one
in any order and waits for room. Both meet in one queue (`sock`). `wire[m]` is
what m has written and the other end not read. `Peer` says which modules are
connected to each other (the FPM client and server of the demo); everybody else
is an external peer with a table of its own, which it forgets when its session
ends. The routing daemon refuses what it already has and keeps its routes over a
lost session until it purges them.

**Configuration.** libyaml is external: a file is the list of nodes that it makes
of it, a collection before its contents and a key before its value. The names that
the reader knows are those of `nla_modules`: the six modules and `NLA_MODULE_ALL`,
their number, which the code accepts wherever it accepts a module. Its row lies
behind `nla_infa_modules` and its flag behind the six of `nlamc_notify_me`. In the
shipped build other variables lie there, which are set after the file is read, and
the padding of the row; the model has one row more and says nothing of that memory.

### Runs

| run | configuration | what it shows |
|---|---|---|
| `e2e` | the six modules of `utils/nlagent_e2e_test.yaml`, `Faults = {}`, with fairness | `UpHasTransport`, `NoLostWakeup`, `FlashComplete`, `EventuallyAllUp` |
| `e2e_faults` | the same, both faults, a second client | `DependencyOrder`, `NothingOverwritten`, `NoOrphanCallback`, `RestartOnlyInterdependent`, and the refinements `LifecycleSpec` and `ThreadSpec` |
| `cycle` | three modules that wait for each other, two servers, bind failures | `CycleNeverStarts`, `NobodyUpAtExit`; the loop may end, so deadlock is not checked |
| `accept_error` | kernel and FPM server, accept errors | violates `FlashComplete` (finding 1) |
| `dispatch` | three listeners of the kernel, one of them listened to by it, every assignment of four policies to four modules, three messages | `OwnView`, `LostOnlyToRefusal` |
| `dispatch_return` | the same | violates `RefusalIsLocal` (finding 2) |
| `set_table` | the same | violates `SetTableSetsTable` (finding 3) |
| `grpc` | the thread, with fairness | `NoUseAfterFree`, `LossIsReported`, `ReadyIsReported`, `ResetReturns`, and the refinement `ImplementsRib` |
| `framing` | IPv4, IPv6 and a batch of two, two frames under way, FPM and NLM | `InStep`, `NothingHeldBack`, `EventuallyHandedOver`, and the refinement `ImplementsLink`; the receiver may have stopped at an assertion, so deadlock is not checked |
| `framing_walk` | the same, on a clean stack | violates `NoAssertionFails` (finding 4) |
| `routes` | the README's demo with an NLM peer, one prefix with two hops, with fairness | `PeersAgree`, `DaemonComplete`, `EventuallyAgree` |
| `config` | the default file, and every file of one or two blocks out of 72, which name modules, `NLA_MODULE_ALL` and names that nobody knows | `AsWritten`, `RefusesUnknown`; reading ends, so deadlock is not checked |

The end-to-end configuration is the richest the repository has: it enables all
six modules and holds an interdependent pair (FPM client and NLM server), a
module that listens to itself (FPM server) and a chain (PRPD client, NLM client,
kernel).

**Bounds.** In the agent, `MaxPipe = 2` states written and not yet read: with
one, the thread could never be ahead of the loop by an UP and a DOWN; a third
only repeats what two do, since the thread alternates. In `NlaGrpc` it is the
capacity of the pipe, which is thousands of states in Linux: 2 makes it full
often. `MaxStray` counts connections nobody looks at again; 1 is enough to reach
the branch, 2 only widens the `cycle` run. The dispatcher's three messages are
one that every filter of `utils/nlagent.yaml` lets through, with an attribute
that occurs twice, one that fails the protocol filter and one that fails the
others; the four policies hold a filter of each kind, both setters, and strips
of one and of two types. Two frames under way (`MaxFrames`) are the least with
which a piece of the stream can hold the end of one and the beginning of the
next, and one read the leftovers of the other. A socket of two messages
(`MaxSock`) holds an update and a dumped route in either order, and overruns at
the third; one message per connection (`MaxWire`) makes a reader stall its
writer: the real buffers grow instead, which only removes interleavings of
readers that wait. Prefixes do not interact, so one is enough for the tables; two
hops tell a stale route from a missing one. A policy has room for two values
instead of thirty, so that a third is dropped.

**Fairness.** libevent serves every ready source, so a pending timer fires, the
fresh start runs and the pipe is read (weak fairness of `TimerFires`, `Reinit`,
`PipeRead` in the agent). A connection attempt ends, by success or by error. The
two assumptions about the outside are that somebody connects to a server that
keeps listening and that the channel, retried by gRPC, becomes ready. No fairness
is assumed of losses. `EventuallyAllUp` is conditional: *if* from some time on no
fault happens, *then* all modules come up and stay up; it says that the agent
has no state of its own from which it cannot recover.

In `NlaGrpc` the thread is scheduled; its step that logs in has fairness of its
own, because a login is accepted in the end by a daemon whose session lasts; an
RPC ends only if its channel is lost. The pipe is read with strong fairness:
while RPCs come and go, reading is enabled again and again, and each pass of the
loop serves every ready source. Nothing is assumed of the channel: it need not
become ready. In `NlaFraming` the read callback goes on and the network delivers.
`EventuallyHandedOver` says that frames do not get stuck: while there is always one on
the way, one after the other is handed over whole.
In `NlaRoutes` the modules come up again (which `EventuallyAllUp` shows of the
agent) and a broken channel is noticed; `EventuallyAgree` is conditional on
kernel and connections coming to rest.

### Findings

1. **An accept error loses a session silently** (`nla_fpm_server.c:203`): the
   handler frees the served connection and starts over without telling the
   infra. The infra keeps the module UP, takes the next CONNECTION_UP for no
   change, and the new peer gets no flash.
2. **One refusal ends the dispatch** (`nla_main.c:366`): where the log says that
   the message is skipped for one listener, the function returns, and the
   listeners with higher module numbers do not get the message.
3. **set-table sets the protocol** (`nla_policy.c:201`): the table-id stays as
   it was, against `README.md:19` and the log of the next line.
4. **The walk over a frame does not stop at its end** (`nla_util.c:224`): the
   loop asks `fpm_msg_hdr_ok`, which looks at a header and not at what is left of
   the buffer, as `fpm_msg_ok` would. The buffer is on the stack and keeps the
   longer frame before; if a word of it that passes for a header comes to lie
   right behind the next frame, `fpm_msg_next` asserts. The destination
   2001:db8::1:8 ends in such a word. In a build with `-D NDEBUG` (`make`) the
   function returns NULL and the walk goes on there.

### Other behaviours that the models show

These have no run of their own; most are named in a property as its exception.

* A port that cannot be bound is not retried (`nla_fpm_server.c:226`,
  `nla_nlm_server.c:220`), unlike in the clients and the kernel module: the
  server stays down until another module's loss causes a fresh start
  (`NoLostWakeup` is checked, and proved, without bind failures).
* A refused second client is logged and not closed (`nla_fpm_server.c:171`).
* The login loop of the thread looks neither at the channel nor at the exit
  promise (`nla_grpc.c:431`). If a session that the loop holds for up is lost and
  found between two samples, the thread logs in again; if it is lost once more in
  that login, the module stays up without a session until the daemon accepts a
  login, and a reset meanwhile hangs in the join, with the event loop.
  `LossIsReported` and `ResetReturns` name it.
* A full pipe and a loop in the join wait for each other (`nla_grpc.c:394`).
* A session that is lost and found again while the thread waits is not reported
  (`nla_grpc.c:464`), so no flash follows.
* A read overrun of the netlink socket is not noticed (`nla_knlm.c:114`): the
  tables stay wrong until the next fresh start. `PeersAgree` and
  `EventuallyAgree` end where an overrun happens.
* A route that replaces another is refused by the daemon (`RouteAdd` returns an
  error for a prefix that exists, and the replace flag was cleared in
  `nla_knlm.c:88`): it keeps the old next hop. `DaemonComplete` therefore asks
  that no prefix is missing, and no more.
* Modules that listen to each other do not wait for each other, and the flash of
  a module other than the kernel does nothing (`nla_fpm_client.c:250`,
  `nla_nlm_server.c:275`): with such a pair on the way of a dump
  (`utils/nlagent_e2e_test.yaml`), dumped routes can reach the first before the
  second is up, and are not sent again.
* With `filter-protocol`, the replacement of a route by one of another protocol
  is filtered out and the old route stays.
* `NLA_MODULE_ALL` in the place of a module's name passes the reader, although there
  is no such module (`nla_util.c:73`, `nla_config.c:363`); `RefusesUnknown` says
  which names are refused.
* A value of the configuration that is spelled like a key is read as one
  (`nla_config.c:361`): behind the server address `module`, the next key is looked
  up as the name of a module, and the agent does not start.

## 3. The proofs

All theorems hold for every set of modules, every `Enabled`, every `NotifyMe`,
every `Faults` and every bound, under the named assumptions of the modules:
`ModulesAssumption` (the kinds of modules are disjoint), `ConfigAssumption`
(the configuration is over the modules), `ServerAssumption` and
`PipeAssumption` (the bounds are numbers); for the dispatcher `NumberAssumption`
(modules have different numbers), `PoliciesAssumption` (values are natural
numbers), `HeaderAssumption` and `MessagesAssumption` (the length of a message
that is read is the length of its header and attributes); `GrpcAssumption` (the
pipe has room for a state); `FramesAssumption` (section 4 says what it leaves out);
`RoutesAssumption`; and `FilesAssumption` (what a file and its blocks are). Nine
theorems assume more, as the last column says; where a run checks the property,
its constants satisfy the assumption. The two theorems about a single message state
the lengths that they are about.

| theorem | property | extra assumption |
|---|---|---|
| `TypeCorrect` | every variable keeps its type, and the bounds hold (`TypeOK` of `NlaAgent`, in no run) | |
| `NothingIsOverwritten` | `NothingOverwritten` | |
| `NoCallbackIsOrphaned` | `NoOrphanCallback` | |
| `StartOrder` | `DependencyOrder` | |
| `NobodyIsRestarted` | `RestartOnlyInterdependent` | |
| `CyclesNeverStart` | `CycleNeverStarts` | |
| `ImplementsLifecycle` | `LifecycleSpec` | |
| `LifecycleServesFirst` | the abstract specification implies the start order | |
| `MessagesAreLostOnlyToRefusals` | `LostOnlyToRefusal` | |
| `UpCanBeWritten` | `UpHasTransport` | no accept errors |
| `FlashIsComplete` | `FlashComplete` | no accept errors |
| `ExitsIdle` | `NobodyUpAtExit` | no accept errors |
| `NobodyIsForgotten` | `NoLostWakeup` | no bind failures |
| `AgentImplementsRib` | `ThreadSpec` | |
| `GrpcTypeCorrect` | the same of `NlaGrpc` (`TypeOK`, in no run) | |
| `NothingIsUsedAfterFree` | `NoUseAfterFree` | |
| `GrpcImplementsRib` | `ImplementsRib` | |
| `LoopKnowsLastReport` | an empty pipe means that the loop holds what the thread reported last | |
| `HeaderIsOkForFittingMessages` | which lengths get a header that the receiver accepts | |
| `FramesAreExact` | what is taken off a stream is what was put on it | |
| `ReaderStaysInStep` | `InStep` | |
| `NoFrameIsHeldBack` | `NothingHeldBack` | |
| `FramingImplementsLink` | `ImplementsLink` | |
| `ListenersHaveTheirView` | `OwnView` | values of `set-protocol` are below 256 |
| `PeersEndWithKernel` | `PeersAgree` | the external peers listen to the kernel only |
| `DaemonMissesNothing` | `DaemonComplete` | routes have one way from the kernel to the daemon (`PathToDaemon`) |
| `EntriesAreAsWritten` | `AsWritten` | no value in a file is spelled like a key (`PlainValues`) |
| `UnknownModulesAreRefused` | `RefusesUnknown` | the same |

The assumptions are needed. The run `accept_error` is the counterexample without
the first, and a server whose port is not retried the one without the second. The
protocol of a route is an `unsigned char`: a larger value is cut to eight bits. A
peer that listens to other modules holds their routes, too. Two modules on the way
to the daemon that listen to each other can lose a dumped route (section 2); that
there is one way only is what the proof follows, and several are not covered. A
value that is spelled like a key is read as one (section 2). `MCNlaRoutes` and
`MCNlaConfig` assert of their constants what the theorems assume (`DemoAssumption`,
`PlainAssumption`); `DemoAssumption` says that the demo's wiring is such a way, over
one connection of the agent with itself.

**The argument.** None of the properties is inductive. The base is `SourcesInv`:

* `Consistent`: an event source of m implies that m is registered and has its
  infra vector; an armed timer is alone; a pipe without a thread is empty. This
  is what makes it harmless that contexts are wiped and restarted from anywhere.
* `Registered`: either nothing is registered yet or exactly the enabled modules
  are; the state of a registered module has been set; only enabled modules are up.

Every step is then one of four kinds (`NextShape`): `Quiet` (no state changes and
nobody is started), `CameUp(m)`, `WentDown(m)`, `Fresh`. The six modules matter
only in the proof of this lemma; the rest is about the infra. `DependencyOrder`
needs one strengthening more: a module comes up long after it was started, so
`Served` states the order for every module that is up *or under way*.
`NobodyIsForgotten` rests on `StartedByUp`: the check at the UP of m starts
exactly those for which m was the last listener missing. The refinement maps
`up <- Up, dirty <- reinit`; `CameUp` is `BringUp` by `Served`, `WentDown` is
`Drop`, `Fresh` is `FreshStart`.

`MessagesAreLostOnlyToRefusals` says what the start order buys: with
`ServedFirst`, every listener that a sender had to wait for is up when the sender
reads a message, so the branch "module still not up" of the dispatcher is never
the reason why it misses one. `FiltersAccept` relates the loops of the filters to
what the configuration says.

`NlaGrpc` has one invariant besides its types: the phases of loop, promise and
thread belong together (`Protocol`: a thread runs only between the making of the
promise and the join; the loop is in the join exactly while the promise is set).
The join is what makes `NoUseAfterFree` inductive. For the refinement,
`gc_exitSignal # "NULL"` is `running` and `connectionState` is `mgr`: only
`PipeWrite` reports, and only changes, because `NothingNew` takes the other case.

`PeersEndWithKernel` follows a prefix through the queues. `EndsWith(q, p, before,
after)` says what the messages q make of one entry of a table. The invariant:
while no fresh start is due and no notification was lost, what is on the
connection to a peer followed by what is in the socket ends with the kernel's
route, or the dump has yet to visit the prefix and they end with none. A kernel
change appends to the end, so it decides; a dump step appends what the kernel has
just then, so it cannot bring back an old route; reading moves a message from one
queue to the other or into the table. The start order of `NlaLifecycle` is what
lets it begin: when the kernel module comes up, every listener is up with an
empty table, and the dump has every prefix before it.

`DaemonMissesNothing` follows a prefix along the whole way: the socket, then each
connection on the path, then the daemon. The path may have any length. Replacing a
route at the daemon does nothing, so which hop it has is not decided, but whether
it has one is decided by the queue nearest to it that mentions the prefix. `Known`
says so: either some queue ends with an addition and no queue behind it, nearer to
the daemon, mentions the prefix, or none mentions it and the daemon has it, or the
dump has yet to come by. A message that moves on is the oldest of its queue and
becomes the youngest of the next, so the deciding queue only moves towards the
daemon. `WayInv` makes sure that nobody on the way drops a message: who is up has
the one it dispatches to up, by the start order.

**Loops and sums.** Several models compute with folds and recursive functions over
sequences: frame lengths, the rounds of `nla_policy_strip_attr`, the scan of a
configuration. The library's induction theorems take the predicate as a parameter,
which the installed provers cannot instantiate; induction for a *set* of numbers
or sequences in its place needs no such parameter. `NlaFold` proves it
(`Induction`, `SeqInduction`), from it that the recursive functions behind
`FoldLeft` and `FlattenSeq` exist, and then their equations (`FoldAppend`,
`FoldConcat`, `FlattenAppend`, `MappedAppend`). Its operator is a CONSTANT, so that
each proof module instantiates it with the operator that its model folds and cites
the theorems of the instance.

`ReaderStaysInStep` has an invariant of three parts, types, `InStep` and
`NothingHeldBack`; they need each other, since only a reader that is in step knows
the length of the frame that it waits for. The refinement to `NlaLink` needs no
more: the queue of the link is all messages of the frames that have not been read
(`FlattenSeq(sent)`), and the walk over a frame finds exactly its batch.

`ListenersHaveTheirView` compares the code's loops with a definition that has none.
One round of `nla_policy_strip_attr` cuts out the first attribute of a type, so
after as many rounds as there are attributes none is left and `Stripped` is
unchanged by every round; the length shrinks with the sum of the sizes.

For the configuration, `read_node` is what one pass of the loop does with a node
and the one behind it, and `ReadInv` says that the reader's state is the fold of it
over the nodes read so far. What that fold makes of a file is computed from the
inside out: of an entry (`EntryRead`), of the settings, policies and names of a
block, of a block (`BlockRead`), of a file (`FileRead`). The pairs of a node and its
successor compose (`TracksConcat`) because the last node of a part is never a key;
this is where `PlainValues` is used. A reader that has failed does not go on
(`FailureIsFinal`), which gives the other direction of `RefusesUnknown`.

**Only model-checked**: the liveness properties `EventuallyAllUp`,
`LossIsReported`, `ReadyIsReported`, `ResetReturns`, `EventuallyHandedOver` and
`EventuallyAgree`, since liveness under fairness is out of the prover's reach. Every
other property of the passing runs is stated by a theorem.

## 4. What is not modelled

* **The kernel as a listener.** `nla_knlm_notify` writes routes to the kernel. In
  every configuration of the repository the kernel module listens to nobody;
  `RoutesAssumption` says so, and the data plane counts as partly modelled.
* **Routes through modules that listen to each other** are in no run; the theorems
  about the tables assume that there are none on the way.
* **Lengths that do not fit.** `FramesAssumption` wants messages whose length is a
  multiple of four and that fit into an FPM message. Others get a header that the
  receiver refuses, or that is cut to 16 bits; `HeaderIsOkForFittingMessages`
  says which.
* **Policies in the data plane.** `NlaRoutes` has no policies and `NlaDispatch`
  has no tables; their combination is described above and not checked.
* **Replaced sessions.** `NlaRoutes` assumes that a broken channel is noticed.
* **Files that libyaml refuses**, or that cannot be opened: `nla_read_config`
  returns -1 at once. A block whose key `module` is not the first is outside the
  assumption of `NlaConfig`. What the entries of `NLA_MODULE_ALL` do to the memory
  behind the tables is not modelled.
* **Descriptors.** The first `RibClientReset` closes descriptor 0.
* The memcpy of `nla_policy.c:115` moves bytes within one message; what it does
  with an overlap is up to the C library. The model takes it for memmove, which
  is what the usual builds of glibc make of it.
* Values of a policy are natural numbers; the setters write them to fields of
  eight bits.
* **Start-up.** The options are read once, before there is any state; `vflag` is
  read without having been set (`nla_main.c:621`). Daemonising and signal set-up
  are pure I/O, logging and dumps have no effect on the rest, and the protocol
  files describe the daemon, not the agent.

## 5. Plan

The core, the dispatcher, the thread, the framing, the data plane and the
configuration are modelled. What remains, in the order of what it would add:

1. Proofs: `OrderInv` of `NlaRoutesProofs` from `LifecycleServesFirst` instead of by
   itself; that a connection of `NlaRoutes` is the link that `NlaFraming` implements.
2. `NlaRoutes` with policies, so that a filtered replacement can be checked.
3. `NlaRoutes` with a kernel that listens, once a configuration has one.
