---------------------------- MODULE NlaAgentProofs ----------------------------
(***************************************************************************)
(* Theorems about NlaAgent, for every set of modules, every configuration  *)
(* and every bound.                                                        *)
(***************************************************************************)
EXTENDS NlaAgent, TLAPS

-----------------------------------------------------------------------------
(* Contexts.                                                               *)

LEMMA ContextOperations ==
  ASSUME NEW c \in Context
  PROVE  /\ Cleanup(c) \in Context
         /\ TimerStart(c) \in Context
         /\ Start(c) \in Context
BY DEF Context, Cleanup, TimerStart, Start, NullContext

LEMMA ContextMaps ==
  ASSUME NEW S, NEW c \in [Modules -> Context]
  PROVE  /\ ResetContexts(S, c) \in [Modules -> Context]
         /\ InitContexts(S, c) \in [Modules -> Context]
         /\ GetVec(c) \in [Modules -> Context]
<1>1. NullContext \in Context
  BY DEF NullContext, Context
<1> QED
  BY <1>1, ContextOperations DEF ResetContexts, InitContexts, GetVec

LEMMA NoRibType == NoRib \in Rib /\ Len(NoRib.pipe) <= MaxPipe
BY PipeAssumption DEF NoRib, Rib, PipeAssumption

-----------------------------------------------------------------------------
(* The parts of TypeOK that concern the infra.                             *)

RibOK == rib \in Rib /\ Len(rib.pipe) <= MaxPipe

StatesOK ==
  /\ nlam_vec \subseteq Modules
  /\ connection_state \in [Modules -> {"UNSET", "DOWN", "UP"}]
  /\ reinit \in BOOLEAN
  /\ flashed \in [Modules -> SUBSET Modules]

SourcesOK == ctx \in [Modules -> Context] /\ nlsock \in BOOLEAN /\ RibOK

RestOK == stray \in [TcpServers -> 0..MaxStray] /\ alive \in BOOLEAN

LEMMA TypeParts == TypeOK <=> StatesOK /\ SourcesOK /\ RestOK
BY DEF TypeOK, StatesOK, SourcesOK, RestOK, RibOK

LEMMA ConnectionUpType ==
  ASSUME StatesOK, NEW m \in Modules,
         NEW c \in [Modules -> Context], NEW sock \in BOOLEAN,
         NEW r \in Rib, Len(r.pipe) <= MaxPipe,
         ConnectionUp(m, c, sock, r)
  PROVE  StatesOK' /\ SourcesOK'
<1>1. StatesOK'
  BY DEF ConnectionUp, StatesOK, Subscribers
<1>2. ctx' \in [Modules -> Context]
  BY ContextMaps DEF ConnectionUp
<1>3. nlsock' \in BOOLEAN
  BY DEF ConnectionUp, FreeSocket
<1>4. RibOK'
  BY NoRibType DEF ConnectionUp, FreeRib, RibOK
<1> QED
  BY <1>1, <1>2, <1>3, <1>4 DEF SourcesOK

LEMMA ConnectionDownType ==
  ASSUME StatesOK, NEW m \in Modules, ConnectionDown(m)
  PROVE  StatesOK'
BY DEF ConnectionDown, StatesOK, EndSession

LEMMA QuietType ==
  ASSUME StatesOK, UNCHANGED <<nlam_vec, connection_state, reinit, flashed>>
  PROVE  StatesOK'
BY DEF StatesOK

LEMMA EndSessionType ==
  ASSUME StatesOK, NEW m,
         UNCHANGED <<nlam_vec, connection_state, reinit>>, flashed' = EndSession(m, flashed)
  PROVE  StatesOK'
BY DEF StatesOK, EndSession

-----------------------------------------------------------------------------
(* Type correctness.                                                       *)

LEMMA InitType == Init => TypeOK
<1> SUFFICES ASSUME Init PROVE TypeOK
  OBVIOUS
<1>1. StatesOK
  BY DEF Init, InfraInit, StatesOK
<1>2. SourcesOK
  <2>1. NullContext \in Context
    BY DEF NullContext, Context
  <2> QED
    BY <2>1, NoRibType DEF Init, InfraInit, SourcesOK, RibOK
<1>3. RestOK
  BY ServerAssumption DEF Init, RestOK, ServerAssumption
<1> QED
  BY <1>1, <1>2, <1>3, TypeParts

LEMMA ReinitType ==
  ASSUME StatesOK, SourcesOK, Reinit
  PROVE  StatesOK' /\ SourcesOK'
<1> USE DEF Reinit, modules_reinit_event
<1>1. StatesOK'
  BY ConfigAssumption DEF StatesOK, ConfigAssumption
<1>2. ctx' \in [Modules -> Context]
  BY ContextMaps DEF SourcesOK
<1>3. nlsock' \in BOOLEAN /\ RibOK'
  BY NoRibType DEF SourcesOK, FreeSocket, FreeRib, RibOK
<1> QED
  BY <1>1, <1>2, <1>3 DEF SourcesOK

LEMMA KnlmType ==
  ASSUME StatesOK, SourcesOK, KnlmConnect \/ KnlmConnectFailure
  PROVE  StatesOK' /\ SourcesOK'
<1>0. NLA_KNLM \in Modules
  BY DEF Modules
<1>1. CASE KnlmConnect
  <2> DEFINE c == [ctx EXCEPT ![NLA_KNLM] =
                     [@ EXCEPT !.timer = FALSE, !.socket_read = TRUE]]
  <2>1. c \in [Modules -> Context]
    BY DEF SourcesOK, Context
  <2>2. ConnectionUp(NLA_KNLM, c, TRUE, rib)
    BY <1>1 DEF KnlmConnect
  <2> QED
    BY <1>0, <2>1, <2>2, ConnectionUpType DEF SourcesOK, RibOK
<1>2. CASE KnlmConnectFailure
  <2>1. StatesOK'
    BY <1>0, <1>2, ConnectionDownType DEF KnlmConnectFailure
  <2>2. SourcesOK'
    BY <1>2, ContextOperations DEF KnlmConnectFailure, SourcesOK, RibOK
  <2> QED
    BY <2>1, <2>2
<1> QED
  BY <1>1, <1>2

LEMMA ClientType ==
  ASSUME StatesOK, SourcesOK, NEW m \in TcpClients,
         \/ ClientConnect(m) \/ ClientConnectFailure(m) \/ ClientConnected(m)
         \/ ClientConnectError(m) \/ ClientDisconnected(m)
  PROVE  StatesOK' /\ SourcesOK'
<1>0. m \in Modules
  BY DEF Modules
<1>1. CASE ClientConnect(m)
  <2>1. StatesOK'
    BY <1>1, QuietType DEF ClientConnect
  <2>2. SourcesOK'
    <3>1. ctx' \in [Modules -> Context]
      BY <1>0, <1>1 DEF ClientConnect, SourcesOK, Context
    <3> QED
      BY <1>1, <3>1 DEF ClientConnect, SourcesOK, RibOK
  <2> QED
    BY <2>1, <2>2
<1>2. ASSUME Retry(m) PROVE SourcesOK'
  BY <1>0, <1>2, ContextOperations DEF Retry, SourcesOK, RibOK
<1>3. CASE ClientConnectFailure(m)
  BY <1>0, <1>2, <1>3, QuietType, ConnectionDownType DEF ClientConnectFailure
<1>4. CASE ClientConnected(m)
  <2> DEFINE c == [ctx EXCEPT ![m] = [@ EXCEPT !.bev = "OPEN"]]
  <2>1. c \in [Modules -> Context]
    BY DEF SourcesOK, Context
  <2>2. ConnectionUp(m, c, nlsock, rib)
    BY <1>4 DEF ClientConnected
  <2> HIDE DEF c
  <2> QED
    BY <1>0, <2>1, <2>2, ConnectionUpType DEF SourcesOK, RibOK
<1>5. CASE ClientConnectError(m) \/ ClientDisconnected(m)
  BY <1>0, <1>2, <1>5, ConnectionDownType
  DEF ClientConnectError, ClientDisconnected, event_cb_error
<1> QED
  BY <1>1, <1>3, <1>4, <1>5

LEMMA ServerType ==
  ASSUME StatesOK, SourcesOK, RestOK, NEW m \in TcpServers,
         \/ ServerListen(m) \/ ServerBindFailure(m) \/ ServerAccept(m)
         \/ ServerAcceptExtra(m) \/ ServerDisconnected(m) \/ ServerAcceptError(m)
  PROVE  StatesOK' /\ SourcesOK' /\ stray' \in [TcpServers -> 0..MaxStray]
<1>0. m \in Modules
  BY DEF Modules
<1>1. CASE ServerListen(m)
  <2>1. StatesOK'
    BY <1>1, QuietType DEF ServerListen
  <2>2. SourcesOK'
    <3>1. ctx' \in [Modules -> Context]
      BY <1>0, <1>1 DEF ServerListen, SourcesOK, Context
    <3> QED
      BY <1>1, <3>1 DEF ServerListen, SourcesOK, RibOK
  <2> QED
    BY <1>1, <2>1, <2>2 DEF ServerListen, RestOK
<1>2. CASE ServerBindFailure(m)
  <2>1. StatesOK'
    BY <1>2, QuietType DEF ServerBindFailure
  <2>2. SourcesOK'
    <3>1. ctx' \in [Modules -> Context]
      BY <1>0, <1>2 DEF ServerBindFailure, SourcesOK, Context
    <3> QED
      BY <1>2, <3>1 DEF ServerBindFailure, SourcesOK, RibOK
  <2> QED
    BY <1>2, <2>1, <2>2 DEF ServerBindFailure, RestOK
<1>3. CASE ServerAccept(m)
  <2> DEFINE c == [ctx EXCEPT ![m].bev = "OPEN"]
  <2>1. c \in [Modules -> Context]
    BY DEF SourcesOK, Context
  <2>2. ConnectionUp(m, c, nlsock, rib)
    BY <1>3 DEF ServerAccept
  <2> HIDE DEF c
  <2> QED
    BY <1>0, <1>3, <2>1, <2>2, ConnectionUpType DEF SourcesOK, RibOK, ServerAccept, RestOK
<1>4. CASE ServerAcceptExtra(m)
  <2>1. StatesOK' /\ SourcesOK'
    BY <1>4 DEF ServerAcceptExtra, infraVars, StatesOK, SourcesOK, RibOK
  <2>2. stray' \in [TcpServers -> 0..MaxStray]
    BY <1>4, ServerAssumption DEF ServerAcceptExtra, RestOK, ServerAssumption
  <2> QED
    BY <2>1, <2>2
<1>5. CASE ServerDisconnected(m)
  <2>1. StatesOK'
    BY <1>0, <1>5, ConnectionDownType DEF ServerDisconnected
  <2>2. SourcesOK'
    BY <1>0, <1>5, ContextOperations DEF ServerDisconnected, SourcesOK, RibOK
  <2> QED
    BY <1>5, <2>1, <2>2 DEF ServerDisconnected, RestOK
<1>6. CASE ServerAcceptError(m)
  <2>1. StatesOK'
    BY <1>6, EndSessionType DEF ServerAcceptError
  <2>2. SourcesOK'
    BY <1>0, <1>6, ContextOperations DEF ServerAcceptError, SourcesOK, RibOK
  <2> QED
    BY <1>6, <2>1, <2>2 DEF ServerAcceptError, RestOK
<1> QED
  BY <1>1, <1>2, <1>3, <1>4, <1>5, <1>6

LEMMA PrpdcType ==
  ASSUME StatesOK, SourcesOK,
         \/ PrpdConnect \/ PrpdConnectFailure \/ ConnectionManagerUp
         \/ ConnectionManagerDown \/ PipeReadUp \/ PipeReadDown
  PROVE  StatesOK' /\ SourcesOK'
<1>0. NLA_PRPD_CLIENT \in Modules
  BY DEF Modules
<1>1. CASE PrpdConnect
  <2>1. StatesOK'
    BY <1>1, QuietType DEF PrpdConnect
  <2>2. SourcesOK'
    <3>1. ctx' \in [Modules -> Context] /\ nlsock' \in BOOLEAN
      BY <1>1 DEF PrpdConnect, SourcesOK, Context
    <3>2. RibOK'
      BY <1>1, NoRibType DEF PrpdConnect, RibOK, Rib
    <3> QED
      BY <3>1, <3>2 DEF SourcesOK
  <2> QED
    BY <2>1, <2>2
<1>2. CASE PrpdConnectFailure
  <2>1. StatesOK'
    BY <1>2, QuietType DEF PrpdConnectFailure
  <2>2. SourcesOK'
    BY <1>0, <1>2, ContextOperations, NoRibType DEF PrpdConnectFailure, SourcesOK, RibOK
  <2> QED
    BY <2>1, <2>2
<1>3. ASSUME NEW state \in {"UP", "DOWN"}, ConnectionManager(state)
      PROVE  StatesOK' /\ SourcesOK'
  <2>1. StatesOK'
    BY <1>3, QuietType DEF ConnectionManager
  <2>2. RibOK'
    <3> DEFINE pipe == Append(rib.pipe, state)
    <3>1. rib.pipe \in Seq({"UP", "DOWN"}) /\ Len(rib.pipe) < MaxPipe
      BY <1>3 DEF ConnectionManager, SourcesOK, RibOK, Rib
    <3>2. pipe \in Seq({"UP", "DOWN"}) /\ Len(pipe) = Len(rib.pipe) + 1
      BY <1>3, <3>1
    <3>3. Len(pipe) <= MaxPipe
      BY <3>1, <3>2, PipeAssumption DEF PipeAssumption
    <3>4. rib' = [rib EXCEPT !.mgr = state, !.pipe = pipe]
      BY <1>3 DEF ConnectionManager
    <3> HIDE DEF pipe
    <3>5. rib' \in Rib /\ rib'.pipe = pipe
      BY <1>3, <3>2, <3>4 DEF SourcesOK, RibOK, Rib
    <3> QED
      BY <3>3, <3>5 DEF RibOK
  <2> QED
    BY <1>3, <2>1, <2>2 DEF ConnectionManager, SourcesOK
<1>4. rib.pipe # << >> => rib_after_read \in Rib /\ Len(rib_after_read.pipe) <= MaxPipe
  <2> SUFFICES ASSUME rib.pipe # << >>
               PROVE  rib_after_read \in Rib /\ Len(rib_after_read.pipe) <= MaxPipe
    OBVIOUS
  <2> DEFINE pipe == Tail(rib.pipe)
  <2>1. rib.pipe \in Seq({"UP", "DOWN"}) /\ Len(rib.pipe) <= MaxPipe
    BY DEF SourcesOK, RibOK, Rib
  <2>2. pipe \in Seq({"UP", "DOWN"}) /\ Len(pipe) = Len(rib.pipe) - 1
    BY <2>1
  <2>3. Len(pipe) <= MaxPipe
    BY <2>1, <2>2, PipeAssumption DEF PipeAssumption
  <2>4. rib_after_read = [rib EXCEPT !.pipe = pipe]
    BY DEF rib_after_read
  <2> HIDE DEF pipe
  <2>5. rib_after_read \in Rib /\ rib_after_read.pipe = pipe
    BY <2>2, <2>4 DEF SourcesOK, RibOK, Rib
  <2> QED
    BY <2>3, <2>5
<1>5. CASE PipeReadUp
  BY <1>0, <1>4, <1>5, ConnectionUpType DEF PipeReadUp, pipe_holds, SourcesOK
<1>6. CASE PipeReadDown
  <2>1. StatesOK'
    BY <1>0, <1>6, ConnectionDownType DEF PipeReadDown
  <2>2. RibOK'
    BY <1>4, <1>6 DEF PipeReadDown, pipe_holds, RibOK
  <2> QED
    BY <1>6, <2>1, <2>2 DEF PipeReadDown, SourcesOK
<1> QED
  BY <1>1, <1>2, <1>3, <1>5, <1>6 DEF ConnectionManagerUp, ConnectionManagerDown

LEMMA StepType == ASSUME TypeOK, [Next]_vars PROVE TypeOK'
<1>0. StatesOK /\ SourcesOK /\ RestOK
  BY TypeParts
<1>1. ASSUME StatesOK', SourcesOK', UNCHANGED <<stray, alive>> PROVE TypeOK'
  <2>1. RestOK'
    BY <1>0, <1>1 DEF RestOK
  <2> QED
    BY <1>1, <2>1, TypeParts DEF TypeOK, StatesOK, SourcesOK, RestOK, RibOK
<1>2. CASE EventLoopExit
  <2>1. StatesOK'
    BY <1>0, <1>2, QuietType DEF EventLoopExit
  <2>2. ctx' \in [Modules -> Context] /\ nlsock' \in BOOLEAN
    BY <1>0, <1>2, ContextMaps DEF EventLoopExit, SourcesOK, FreeSocket
  <2>3. RibOK'
    BY <1>0, <1>2, NoRibType DEF EventLoopExit, SourcesOK, RibOK, FreeRib
  <2>4. RestOK'
    BY <1>0, <1>2 DEF EventLoopExit, RestOK
  <2> QED
    BY <2>1, <2>2, <2>3, <2>4 DEF TypeOK, StatesOK, SourcesOK, RestOK, RibOK
<1>3. CASE Reinit /\ UNCHANGED alive
  BY <1>0, <1>1, <1>3, ReinitType DEF Reinit
<1>4. CASE PipeRead /\ UNCHANGED alive
  BY <1>0, <1>1, <1>4, PrpdcType DEF PipeRead
<1>5. CASE Manager /\ UNCHANGED alive
  BY <1>0, <1>1, <1>5, PrpdcType DEF Manager
<1>6. ASSUME NEW m \in Modules, TimerFires(m), UNCHANGED alive PROVE TypeOK'
  <2>1. CASE m = NLA_KNLM /\ (KnlmConnect \/ KnlmConnectFailure) /\ UNCHANGED stray
    BY <1>0, <1>1, <1>6, <2>1, KnlmType
  <2>2. CASE m = NLA_PRPD_CLIENT /\ (PrpdConnect \/ PrpdConnectFailure) /\ UNCHANGED stray
    BY <1>0, <1>1, <1>6, <2>2, PrpdcType
  <2>3. CASE m \in TcpClients /\ (ClientConnect(m) \/ ClientConnectFailure(m)) /\ UNCHANGED stray
    BY <1>0, <1>1, <1>6, <2>3, ClientType
  <2>4. CASE m \in TcpServers /\ (ServerListen(m) \/ ServerBindFailure(m))
    <3>1. StatesOK' /\ SourcesOK' /\ stray' \in [TcpServers -> 0..MaxStray]
      BY <1>0, <2>4, ServerType
    <3> QED
      BY <1>0, <1>6, <3>1 DEF TypeOK, StatesOK, SourcesOK, RestOK, RibOK
  <2> QED
    BY <1>6, <2>1, <2>2, <2>3, <2>4 DEF TimerFires
<1>7. ASSUME NEW m \in TcpClients, ClientEvent(m), UNCHANGED alive PROVE TypeOK'
  BY <1>0, <1>1, <1>7, ClientType DEF ClientEvent
<1>8. ASSUME NEW m \in TcpServers, ServerEvent(m), UNCHANGED alive PROVE TypeOK'
  <2>1. StatesOK' /\ SourcesOK' /\ stray' \in [TcpServers -> 0..MaxStray]
    BY <1>0, <1>8, ServerType DEF ServerEvent
  <2> QED
    BY <1>0, <1>8, <2>1 DEF TypeOK, StatesOK, SourcesOK, RestOK, RibOK
<1>9. CASE UNCHANGED vars
  BY <1>9 DEF vars, infraVars, TypeOK
<1> QED
  BY <1>2, <1>3, <1>4, <1>5, <1>6, <1>7, <1>8, <1>9 DEF Next, Callback

\* In every reachable state every variable has a value of its type; in
\* particular the pipe and the observers stay within their bounds.
THEOREM TypeCorrect == Spec => []TypeOK
<1>1. Init => TypeOK
  BY InitType
<1>2. TypeOK /\ [Next]_vars => TypeOK'
  BY StepType
<1> QED
  BY <1>1, <1>2, PTL DEF Spec

-----------------------------------------------------------------------------
(* The invariant on which everything rests: who owns which event source.   *)

\* The loop holds an event of m, of which the context is x.
Held(m, x, r) == Armed(x) \/ (m = NLA_PRPD_CLIENT /\ r.running)

OwnOK(m, x, vec, sock, r) ==
  /\ Held(m, x, r) => m \in vec /\ x.infravec
  /\ x.timer => /\ x = TimerStart(x)
                /\ m = NLA_KNLM => ~sock
                /\ m = NLA_PRPD_CLIENT => ~r.running

\* HasTransport of a module whose context is x
Transport(m, x, sock, r) ==
  CASE m = NLA_KNLM -> sock /\ x.socket_read
    [] m = NLA_PRPD_CLIENT -> r.running
    [] OTHER -> x.bev = "OPEN"

\* A pipe without a thread is closed and empty.
RibIdle(r) == ~r.running => r = NoRib

Consistent(c, sock, r) ==
  /\ RibIdle(r)
  /\ \A m \in Modules : OwnOK(m, c[m], nlam_vec, sock, r)

Registered ==
  /\ nlam_vec \in {{}, Enabled}
  /\ ~reinit => nlam_vec = Enabled
  /\ \A m \in nlam_vec : connection_state[m] # "UNSET"
  /\ Up \subseteq Enabled

SourcesInv == TypeOK /\ Registered /\ Consistent(ctx, nlsock, rib)

LEMMA InitConsistent ==
  ASSUME NEW S \in SUBSET Modules, S \subseteq nlam_vec,
         NEW c \in [Modules -> Context], NEW sock \in BOOLEAN, NEW r \in Rib,
         Consistent(c, sock, r)
  PROVE  /\ Consistent(InitContexts(S, c), FreeSocket(S, sock), FreeRib(S, r))
         /\ \A i \in S : Held(i, InitContexts(S, c)[i], FreeRib(S, r))
         /\ \A i \in Modules \ S :
              /\ InitContexts(S, c)[i] = c[i]
              /\ Held(i, c[i], FreeRib(S, r)) <=> Held(i, c[i], r)
              /\ Transport(i, c[i], FreeSocket(S, sock), FreeRib(S, r))
                   <=> Transport(i, c[i], sock, r)
<1>1. RibIdle(FreeRib(S, r))
  BY DEF Consistent, RibIdle, FreeRib, NoRib
<1>2. ASSUME NEW i \in Modules
      PROVE  /\ OwnOK(i, InitContexts(S, c)[i], nlam_vec, FreeSocket(S, sock), FreeRib(S, r))
             /\ i \in S => Held(i, InitContexts(S, c)[i], FreeRib(S, r))
             /\ i \notin S =>
                  /\ InitContexts(S, c)[i] = c[i]
                  /\ Held(i, c[i], FreeRib(S, r)) <=> Held(i, c[i], r)
                  /\ Transport(i, c[i], FreeSocket(S, sock), FreeRib(S, r))
                       <=> Transport(i, c[i], sock, r)
  <2>1. CASE i \in S
    <3>1. InitContexts(S, c)[i] = Start(c[i])
      BY <2>1 DEF InitContexts
    <3>2. /\ Start(c[i]).infravec
          /\ Start(c[i]) = TimerStart(Start(c[i]))
          /\ Armed(Start(c[i]))
      BY DEF Start, TimerStart, Cleanup, NullContext, Context, Armed
    <3>3. i = NLA_KNLM => ~FreeSocket(S, sock)
      BY <2>1 DEF FreeSocket
    <3>4. i = NLA_PRPD_CLIENT => ~FreeRib(S, r).running
      BY <2>1 DEF FreeRib, NoRib
    <3> QED
      BY <2>1, <3>1, <3>2, <3>3, <3>4 DEF OwnOK, Held
  <2>2. CASE i \notin S
    <3>1. InitContexts(S, c)[i] = c[i]
      BY <2>2 DEF InitContexts
    <3>2. i = NLA_PRPD_CLIENT => FreeRib(S, r) = r
      BY <2>2 DEF FreeRib
    <3>3. i = NLA_KNLM => FreeSocket(S, sock) = sock
      BY <2>2 DEF FreeSocket
    <3>4. /\ Held(i, c[i], FreeRib(S, r)) <=> Held(i, c[i], r)
          /\ OwnOK(i, c[i], nlam_vec, FreeSocket(S, sock), FreeRib(S, r))
      BY <3>2, <3>3 DEF Consistent, OwnOK, Held
    <3>5. Transport(i, c[i], FreeSocket(S, sock), FreeRib(S, r)) <=> Transport(i, c[i], sock, r)
      BY <3>2, <3>3 DEF Transport
    <3> QED
      BY <2>2, <3>1, <3>4, <3>5
  <2> QED
    BY <2>1, <2>2
<1> QED
  BY <1>1, <1>2 DEF Consistent

-----------------------------------------------------------------------------
(* Four kinds of steps.  For the bring-up order it does not matter which   *)
(* callback runs, only whose state it changes and whom it starts.          *)

\* The modules that the infra starts when m comes up.
UpInits(m) ==
  {i \in NotifyMe[m] :
     m \notin Up /\ check_init_module(i, nlam_vec, [connection_state EXCEPT ![m] = "UP"])}

\* The modules that the infra asks for a flash when m comes up.
Flashes(m) ==
  {s \in init_flash(m, nlam_vec, [connection_state EXCEPT ![m] = "UP"]) : m \notin Up}

\* Nobody's state changes, nobody new is started.  A module stops only where a
\* port cannot be bound, and loses its transport only to an accept error.
Quiet ==
  /\ UNCHANGED <<nlam_vec, connection_state, reinit>>
  /\ "accept" \notin Faults => UNCHANGED flashed
  /\ \A i \in Modules :
       /\ Started(i)' => Started(i)
       /\ Started(i) /\ "bind" \notin Faults => Started(i)'
       /\ HasTransport(i) /\ "accept" \notin Faults => HasTransport(i)'

\* m comes up, or says once more that it is.
CameUp(m) ==
  /\ Started(m)
  /\ connection_state' = [connection_state EXCEPT ![m] = "UP"]
  /\ UNCHANGED <<nlam_vec, reinit>>
  /\ flashed' = [s \in Modules |-> IF s \in Flashes(m) THEN Subscribers(s, nlam_vec)
                                                      ELSE flashed[s]]
  /\ HasTransport(m)'
  /\ \A i \in UpInits(m) : Started(i)'
  /\ \A i \in Modules \ UpInits(m) :
       /\ Started(i)' <=> Started(i)
       /\ i # m => ctx'[i] = ctx[i] /\ (HasTransport(i)' <=> HasTransport(i))

WentDown(m) ==
  /\ Started(m)
  /\ connection_state' = [connection_state EXCEPT ![m] = "DOWN"]
  /\ reinit' = (reinit \/ connection_state[m] # "DOWN")
  /\ UNCHANGED nlam_vec
  /\ flashed' = EndSession(m, flashed)
  /\ \A i \in Modules :
       /\ Started(i)' <=> Started(i)
       /\ i # m => (HasTransport(i)' <=> HasTransport(i))

Fresh ==
  /\ reinit /\ ~reinit'
  /\ nlam_vec' = Enabled
  /\ connection_state' = [i \in Modules |-> IF i \in Enabled THEN "DOWN" ELSE connection_state[i]]
  /\ \A i \in Modules : Started(i)' <=> check_init_module(i, Enabled, connection_state')

LEMMA HeldStarted ==
  \A i \in Modules : /\ Started(i) <=> Held(i, ctx[i], rib)
                     /\ HasTransport(i) <=> Transport(i, ctx[i], nlsock, rib)
BY DEF Started, Held, HasTransport, Transport

LEMMA NextStarted ==
  \A i \in Modules : /\ Started(i)' <=> Held(i, ctx'[i], rib')
                     /\ HasTransport(i)' <=> Transport(i, ctx'[i], nlsock', rib')
BY DEF Started, Held, HasTransport, Transport

LEMMA ConnectionUpShape ==
  ASSUME TypeOK, NEW m \in Modules, Started(m),
         NEW c \in [Modules -> Context], NEW sock \in BOOLEAN, NEW r \in Rib,
         Consistent(c, sock, r),
         Held(m, c[m], r), Transport(m, c[m], sock, r),
         \A i \in Modules \ {m} :
           /\ c[i] = ctx[i]
           /\ Held(i, c[i], r) <=> Started(i)
           /\ Transport(i, c[i], sock, r) <=> HasTransport(i),
         ConnectionUp(m, c, sock, r)
  PROVE  Consistent(ctx, nlsock, rib)' /\ CameUp(m)
<1> DEFINE S == UpInits(m)
<1>1. S \in SUBSET Modules /\ S \subseteq nlam_vec
  BY ConfigAssumption DEF UpInits, check_init_module, is_module_enabled, ConfigAssumption
<1>2. /\ connection_state' = [connection_state EXCEPT ![m] = "UP"]
      /\ UNCHANGED <<nlam_vec, reinit>>
      /\ flashed' = [s \in Modules |-> IF s \in Flashes(m) THEN Subscribers(s, nlam_vec)
                                                          ELSE flashed[s]]
      /\ ctx' = InitContexts(S, c)
      /\ nlsock' = FreeSocket(S, sock)
      /\ rib' = FreeRib(S, r)
  BY DEF ConnectionUp, UpInits, Flashes, is_module_up, Up
<1> HIDE DEF S
<1>3. m \notin S
  BY DEF S, UpInits, check_init_module, is_module_up, Up, TypeOK
<1>4. /\ Consistent(InitContexts(S, c), FreeSocket(S, sock), FreeRib(S, r))
      /\ \A i \in S : Held(i, InitContexts(S, c)[i], FreeRib(S, r))
      /\ \A i \in Modules \ S :
           /\ InitContexts(S, c)[i] = c[i]
           /\ Held(i, c[i], FreeRib(S, r)) <=> Held(i, c[i], r)
           /\ Transport(i, c[i], FreeSocket(S, sock), FreeRib(S, r))
                <=> Transport(i, c[i], sock, r)
  BY <1>1, InitConsistent
<1>5. Consistent(ctx, nlsock, rib)'
  BY <1>2, <1>4 DEF Consistent
<1>6. \A i \in S : Started(i)'
  BY <1>2, <1>4 DEF Started, Held
<1>7. ASSUME NEW i \in Modules \ S
      PROVE  /\ ctx'[i] = c[i]
             /\ Started(i)' <=> Held(i, c[i], r)
             /\ HasTransport(i)' <=> Transport(i, c[i], sock, r)
  <2>1. /\ ctx'[i] = c[i]
        /\ Held(i, ctx'[i], rib') <=> Held(i, c[i], r)
        /\ Transport(i, ctx'[i], nlsock', rib') <=> Transport(i, c[i], sock, r)
    BY <1>2, <1>4
  <2> QED
    BY <2>1 DEF Started, Held, HasTransport, Transport
<1> QED
  BY <1>2, <1>3, <1>5, <1>6, <1>7 DEF CameUp, S

\* A handler changes the context of its own module, and of what lies outside
\* the contexts only what that module owns.
OnlyOf(m, x, c, sock, r) ==
  /\ c \in [Modules -> Context]
  /\ Consistent(c, sock, r)
  /\ c[m] = x
  /\ \A i \in Modules \ {m} :
       /\ c[i] = ctx[i]
       /\ Held(i, c[i], r) <=> Started(i)
       /\ Transport(i, c[i], sock, r) <=> HasTransport(i)

LEMMA OneContext ==
  ASSUME TypeOK, Consistent(ctx, nlsock, rib),
         NEW m \in Modules, Started(m),
         NEW x \in Context, NEW sock \in BOOLEAN, NEW r \in Rib,
         x.infravec = ctx[m].infravec,
         x.timer => /\ x = TimerStart(x)
                    /\ m = NLA_KNLM => ~sock
                    /\ m = NLA_PRPD_CLIENT => ~r.running,
         m # NLA_KNLM => sock = nlsock,
         m # NLA_PRPD_CLIENT => r = rib,
         RibIdle(r)
  PROVE  OnlyOf(m, x, [ctx EXCEPT ![m] = x], sock, r)
<1> DEFINE c == [ctx EXCEPT ![m] = x]
<1>0. ctx \in [Modules -> Context]
  BY DEF TypeOK
<1>1. c \in [Modules -> Context] /\ c[m] = x /\ \A i \in Modules : i # m => c[i] = ctx[i]
  BY <1>0
<1> HIDE DEF c
<1>2. m \in nlam_vec /\ ctx[m].infravec
  BY HeldStarted DEF Consistent, OwnOK
<1>3. OwnOK(m, c[m], nlam_vec, sock, r)
  BY <1>1, <1>2 DEF OwnOK
<1>4. ASSUME NEW i \in Modules \ {m}
      PROVE  /\ OwnOK(i, c[i], nlam_vec, sock, r)
             /\ Held(i, c[i], r) <=> Started(i)
             /\ Transport(i, c[i], sock, r) <=> HasTransport(i)
  <2>1. OwnOK(i, ctx[i], nlam_vec, nlsock, rib) /\ c[i] = ctx[i]
    BY <1>1, <1>4 DEF Consistent
  <2>2. i = NLA_KNLM => sock = nlsock
    BY <1>4
  <2>3. i = NLA_PRPD_CLIENT => r = rib
    BY <1>4
  <2>4. Held(i, c[i], r) <=> Held(i, ctx[i], rib)
    BY <2>1, <2>3 DEF Held
  <2>5. Transport(i, c[i], sock, r) <=> Transport(i, ctx[i], nlsock, rib)
    BY <2>1, <2>2, <2>3 DEF Transport
  <2> QED
    BY <2>1, <2>2, <2>3, <2>4, <2>5, HeldStarted DEF OwnOK
<1>5. Consistent(c, sock, r)
  BY <1>3, <1>4 DEF Consistent
<1> QED
  BY <1>1, <1>4, <1>5 DEF c, OnlyOf

\* The step of a handler of m that leaves the module with context x.
Steps(m) == Consistent(ctx, nlsock, rib)' /\ (Quiet \/ CameUp(m) \/ WentDown(m))

LEMMA RetryContext ==
  ASSUME NEW x \in Context
  PROVE  /\ TimerStart(x) \in Context
         /\ TimerStart(x).infravec = x.infravec
         /\ TimerStart(x).timer
         /\ TimerStart(x) = TimerStart(TimerStart(x))
         /\ TimerStart(x).bev = "NULL" /\ ~TimerStart(x).listener
BY DEF TimerStart, Cleanup, NullContext, Context

\* Losing a connection, and failing to make one, restart the module's timer.
LEMMA RetrySteps ==
  ASSUME TypeOK, Consistent(ctx, nlsock, rib), NEW m \in Modules, Started(m),
         ctx' = [ctx EXCEPT ![m] = TimerStart(@)],
         IF m = NLA_KNLM THEN nlsock' = FALSE ELSE nlsock' = nlsock,
         IF m = NLA_PRPD_CLIENT THEN rib' = NoRib ELSE rib' = rib,
         \/ ConnectionDown(m)
         \/ /\ UNCHANGED <<nlam_vec, connection_state, reinit>>
            /\ HasTransport(m) \/ flashed' # flashed => "accept" \in Faults
  PROVE  Steps(m)
<1> DEFINE x == TimerStart(ctx[m])
<1>0. ctx[m] \in Context /\ nlsock' \in BOOLEAN /\ rib' \in Rib
  BY NoRibType DEF TypeOK
<1>1. RibIdle(rib')
  BY DEF Consistent, RibIdle, NoRib
<1>2. /\ x \in Context /\ x.infravec = ctx[m].infravec
      /\ x.timer /\ x = TimerStart(x)
  BY <1>0, RetryContext
<1>3. m = NLA_KNLM => ~nlsock'
  OBVIOUS
<1>4. m = NLA_PRPD_CLIENT => ~rib'.running
  BY DEF NoRib
<1>5. ctx' = [ctx EXCEPT ![m] = x]
  OBVIOUS
<1> HIDE DEF x
<1>6. /\ m # NLA_KNLM => nlsock' = nlsock
      /\ m # NLA_PRPD_CLIENT => rib' = rib
  OBVIOUS
<1>7. OnlyOf(m, x, [ctx EXCEPT ![m] = x], nlsock', rib')
  BY <1>0, <1>1, <1>2, <1>3, <1>4, <1>6, OneContext
<1>8. UNCHANGED nlam_vec
  BY DEF ConnectionDown
<1>9. Held(m, x, rib')
  BY <1>2 DEF Held, Armed
<1>10. OnlyOf(m, x, ctx', nlsock', rib')
  BY <1>5, <1>7
<1> QED
  BY <1>8, <1>9, <1>10, NextStarted
  DEF OnlyOf, Steps, Consistent, Quiet, WentDown, ConnectionDown

\* A step towards a connection that the infra does not hear of
LEMMA MoveSteps ==
  ASSUME TypeOK, Consistent(ctx, nlsock, rib), NEW m \in Modules, Started(m),
         ~HasTransport(m),
         NEW x \in Context, ctx' = [ctx EXCEPT ![m] = x],
         x.infravec = ctx[m].infravec, ~x.timer,
         NEW r \in Rib, RibIdle(r), nlsock' = nlsock, rib' = r,
         m # NLA_PRPD_CLIENT => r = rib,
         Held(m, x, r) \/ "bind" \in Faults,
         UNCHANGED <<nlam_vec, connection_state, reinit, flashed>>
  PROVE  Steps(m)
<1>0. nlsock \in BOOLEAN
  BY DEF TypeOK
<1>1. OnlyOf(m, x, [ctx EXCEPT ![m] = x], nlsock, r)
  BY <1>0, OneContext
<1>2. OnlyOf(m, x, ctx', nlsock', rib')
  BY <1>1
<1> QED
  BY <1>2, NextStarted DEF OnlyOf, Steps, Consistent, Quiet

\* A connection is made.
LEMMA UpSteps ==
  ASSUME TypeOK, Consistent(ctx, nlsock, rib), NEW m \in Modules, Started(m),
         NEW x \in Context, x.infravec = ctx[m].infravec, ~x.timer,
         NEW sock \in BOOLEAN, NEW r \in Rib, RibIdle(r),
         m # NLA_KNLM => sock = nlsock,
         m # NLA_PRPD_CLIENT => r = rib,
         Held(m, x, r), Transport(m, x, sock, r),
         ConnectionUp(m, [ctx EXCEPT ![m] = x], sock, r)
  PROVE  Steps(m)
<1> DEFINE c == [ctx EXCEPT ![m] = x]
<1>1. OnlyOf(m, x, c, sock, r)
  BY OneContext
<1> HIDE DEF c
<1>2. ConnectionUp(m, c, sock, r)
  BY DEF c
<1> QED
  BY <1>1, <1>2, ConnectionUpShape DEF Steps, OnlyOf

LEMMA KnlmSteps ==
  ASSUME TypeOK, Consistent(ctx, nlsock, rib), KnlmConnect \/ KnlmConnectFailure
  PROVE  Steps(NLA_KNLM)
<1>0. /\ NLA_KNLM \in Modules /\ NLA_KNLM # NLA_PRPD_CLIENT
      /\ ctx[NLA_KNLM] \in Context /\ ctx[NLA_KNLM].timer /\ rib \in Rib
  BY ModulesAssumption
  DEF Modules, ModulesAssumption, TypeOK, KnlmConnect, KnlmConnectFailure,
      knlm_connect_timer_fires, knlm_ctx
<1>1. Started(NLA_KNLM)
  BY <1>0 DEF Started, Armed
<1>2. CASE KnlmConnect
  <2> DEFINE x == [ctx[NLA_KNLM] EXCEPT !.timer = FALSE, !.socket_read = TRUE]
  <2>1. x \in Context /\ x.infravec = ctx[NLA_KNLM].infravec /\ ~x.timer
    BY <1>0 DEF Context
  <2>2. ConnectionUp(NLA_KNLM, [ctx EXCEPT ![NLA_KNLM] = x], TRUE, rib)
    BY <1>2 DEF KnlmConnect
  <2>3. Held(NLA_KNLM, x, rib) /\ Transport(NLA_KNLM, x, TRUE, rib)
    BY <1>0 DEF Held, Transport, Armed, Context
  <2> HIDE DEF x
  <2> QED
    BY <1>0, <1>1, <2>1, <2>2, <2>3, UpSteps DEF Consistent
<1>3. CASE KnlmConnectFailure
  BY <1>0, <1>1, <1>3, RetrySteps DEF KnlmConnectFailure
<1> QED
  BY <1>2, <1>3

LEMMA ClientSteps ==
  ASSUME TypeOK, Consistent(ctx, nlsock, rib), NEW m \in TcpClients,
         \/ ClientConnect(m) \/ ClientConnectFailure(m) \/ ClientConnected(m)
         \/ ClientConnectError(m) \/ ClientDisconnected(m)
  PROVE  Steps(m)
<1>0. /\ m \in Modules /\ m # NLA_PRPD_CLIENT /\ m # NLA_KNLM
      /\ ctx[m] \in Context /\ rib \in Rib /\ nlsock \in BOOLEAN
      /\ ctx[m].timer => ctx[m] = TimerStart(ctx[m])
  BY ModulesAssumption DEF Modules, ModulesAssumption, TypeOK, Consistent, OwnOK
<1>1. Started(m)
  BY <1>0 DEF Started, Armed, ClientConnect, ClientConnectFailure, ClientConnected,
              ClientConnectError, ClientDisconnected
<1>t. ctx[m].timer => ~HasTransport(m)
  BY <1>0, RetryContext DEF HasTransport
<1>2. CASE ClientConnect(m)
  <2> DEFINE x == [ctx[m] EXCEPT !.timer = FALSE, !.bev = "CONNECTING"]
  <2>1. x \in Context /\ x.infravec = ctx[m].infravec /\ ~x.timer
    BY <1>0 DEF Context
  <2>2. ctx' = [ctx EXCEPT ![m] = x]
    BY <1>2 DEF ClientConnect
  <2>3. Held(m, x, rib)
    BY <1>0 DEF Held, Armed, Context
  <2>4. ~HasTransport(m)
    BY <1>2, <1>t DEF ClientConnect
  <2>5. /\ UNCHANGED <<nlam_vec, connection_state, reinit, flashed>>
        /\ nlsock' = nlsock /\ rib' = rib
    BY <1>2 DEF ClientConnect
  <2> HIDE DEF x
  <2> QED
    BY <1>0, <1>1, <2>1, <2>2, <2>3, <2>4, <2>5, MoveSteps DEF Consistent
<1>3. CASE ClientConnected(m)
  <2> DEFINE x == [ctx[m] EXCEPT !.bev = "OPEN"]
  <2>1. ~ctx[m].timer
    <3>1. ctx[m].bev = "CONNECTING"
      BY <1>3 DEF ClientConnected
    <3> QED
      BY <1>0, <3>1, RetryContext
  <2>2. x \in Context /\ x.infravec = ctx[m].infravec /\ ~x.timer
    BY <1>0, <2>1 DEF Context
  <2>3. ConnectionUp(m, [ctx EXCEPT ![m] = x], nlsock, rib)
    BY <1>3 DEF ClientConnected
  <2>4. Held(m, x, rib) /\ Transport(m, x, nlsock, rib)
    BY <1>0 DEF Held, Transport, Armed, Context
  <2> HIDE DEF x
  <2> QED
    BY <1>0, <1>1, <2>2, <2>3, <2>4, UpSteps DEF Consistent
<1>4. CASE ClientConnectFailure(m)
  BY <1>0, <1>1, <1>4, <1>t, RetrySteps DEF ClientConnectFailure, Retry
<1>5. CASE ClientConnectError(m) \/ ClientDisconnected(m)
  BY <1>0, <1>1, <1>5, RetrySteps
  DEF ClientConnectError, ClientDisconnected, event_cb_error, Retry
<1> QED
  BY <1>2, <1>3, <1>4, <1>5

LEMMA ServerSteps ==
  ASSUME TypeOK, Consistent(ctx, nlsock, rib), NEW m \in TcpServers,
         \/ ServerListen(m) \/ ServerBindFailure(m) \/ ServerAccept(m)
         \/ ServerAcceptExtra(m) \/ ServerDisconnected(m) \/ ServerAcceptError(m)
  PROVE  Steps(m)
<1>0. /\ m \in Modules /\ m # NLA_PRPD_CLIENT /\ m # NLA_KNLM
      /\ ctx[m] \in Context /\ rib \in Rib /\ nlsock \in BOOLEAN
      /\ ctx[m].timer => ctx[m] = TimerStart(ctx[m])
  BY ModulesAssumption DEF Modules, ModulesAssumption, TypeOK, Consistent, OwnOK
<1>1. Started(m)
  BY <1>0 DEF Started, Armed, ServerListen, ServerBindFailure, ServerAccept,
              ServerAcceptExtra, ServerDisconnected, ServerAcceptError
<1>t. ctx[m].timer => ~HasTransport(m)
  BY <1>0, RetryContext DEF HasTransport
<1>2. CASE ServerListen(m)
  <2> DEFINE x == [ctx[m] EXCEPT !.timer = FALSE, !.listener = TRUE]
  <2>1. x \in Context /\ x.infravec = ctx[m].infravec /\ ~x.timer
    BY <1>0 DEF Context
  <2>2. ctx' = [ctx EXCEPT ![m] = x]
    BY <1>2 DEF ServerListen
  <2>3. Held(m, x, rib)
    BY <1>0 DEF Held, Armed, Context
  <2>4. ~HasTransport(m)
    BY <1>2, <1>t DEF ServerListen
  <2>5. /\ UNCHANGED <<nlam_vec, connection_state, reinit, flashed>>
        /\ nlsock' = nlsock /\ rib' = rib
    BY <1>2 DEF ServerListen
  <2> HIDE DEF x
  <2> QED
    BY <1>0, <1>1, <2>1, <2>2, <2>3, <2>4, <2>5, MoveSteps DEF Consistent
<1>3. CASE ServerBindFailure(m)
  <2> DEFINE x == [ctx[m] EXCEPT !.timer = FALSE]
  <2>1. x \in Context /\ x.infravec = ctx[m].infravec /\ ~x.timer
    BY <1>0 DEF Context
  <2>2. ctx' = [ctx EXCEPT ![m] = x]
    BY <1>3 DEF ServerBindFailure
  <2>4. ~HasTransport(m) /\ "bind" \in Faults
    BY <1>3, <1>t DEF ServerBindFailure
  <2>5. /\ UNCHANGED <<nlam_vec, connection_state, reinit, flashed>>
        /\ nlsock' = nlsock /\ rib' = rib
    BY <1>3 DEF ServerBindFailure
  <2> HIDE DEF x
  <2> QED
    BY <1>0, <1>1, <2>1, <2>2, <2>4, <2>5, MoveSteps DEF Consistent
<1>4. CASE ServerAccept(m)
  <2> DEFINE x == [ctx[m] EXCEPT !.bev = "OPEN"]
  <2>1. ~ctx[m].timer
    <3>1. ctx[m].listener
      BY <1>4 DEF ServerAccept
    <3> QED
      BY <1>0, <3>1, RetryContext
  <2>2. x \in Context /\ x.infravec = ctx[m].infravec /\ ~x.timer
    BY <1>0, <2>1 DEF Context
  <2>3. ConnectionUp(m, [ctx EXCEPT ![m] = x], nlsock, rib)
    BY <1>4 DEF ServerAccept
  <2>4. Held(m, x, rib) /\ Transport(m, x, nlsock, rib)
    BY <1>0 DEF Held, Transport, Armed, Context
  <2> HIDE DEF x
  <2> QED
    BY <1>0, <1>1, <2>2, <2>3, <2>4, UpSteps DEF Consistent
<1>5. CASE ServerAcceptExtra(m)
  <2>1. UNCHANGED infraVars
    BY <1>5 DEF ServerAcceptExtra
  <2> QED
    BY <2>1 DEF infraVars, Steps, Quiet, Started, HasTransport, Consistent
<1>6. CASE ServerDisconnected(m)
  BY <1>0, <1>1, <1>6, RetrySteps DEF ServerDisconnected
<1>7. CASE ServerAcceptError(m)
  BY <1>0, <1>1, <1>7, RetrySteps DEF ServerAcceptError
<1> QED
  BY <1>2, <1>3, <1>4, <1>5, <1>6, <1>7

LEMMA PrpdcSteps ==
  ASSUME TypeOK, Consistent(ctx, nlsock, rib),
         \/ PrpdConnect \/ PrpdConnectFailure \/ ConnectionManagerUp
         \/ ConnectionManagerDown \/ PipeReadUp \/ PipeReadDown
  PROVE  Steps(NLA_PRPD_CLIENT)
<1> DEFINE m == NLA_PRPD_CLIENT
<1>0. /\ m \in Modules /\ m # NLA_KNLM
      /\ ctx[m] \in Context /\ rib \in Rib /\ nlsock \in BOOLEAN
      /\ ctx[m].timer => ctx[m] = TimerStart(ctx[m]) /\ ~rib.running
      /\ RibIdle(rib)
  BY ModulesAssumption DEF Modules, ModulesAssumption, TypeOK, Consistent, OwnOK
<1>1. StatesOK /\ SourcesOK
  BY TypeParts
<1>2. rib.pipe # << >> => rib.running
  BY <1>0 DEF RibIdle, NoRib
<1>3. Started(m)
  BY <1>0, <1>2 DEF Started, Armed, PrpdConnect, PrpdConnectFailure, ConnectionManagerUp,
     ConnectionManagerDown, ConnectionManager, PipeReadUp, PipeReadDown, pipe_holds, prpdc_ctx
<1>4. rib' \in Rib
  BY <1>1, PrpdcType DEF SourcesOK, RibOK
<1>t. ctx[m].timer => ~HasTransport(m)
  BY <1>0 DEF HasTransport
<1>5. CASE PrpdConnect
  <2> DEFINE x == [ctx[m] EXCEPT !.timer = FALSE]
  <2>1. x \in Context /\ x.infravec = ctx[m].infravec /\ ~x.timer
    BY <1>0 DEF Context
  <2>2. ctx' = [ctx EXCEPT ![m] = x]
    BY <1>5 DEF PrpdConnect
  <2>3. RibIdle(rib') /\ rib'.running
    BY <1>5 DEF PrpdConnect, RibIdle, NoRib
  <2>4. Held(m, x, rib')
    BY <2>3 DEF Held
  <2>5. ~HasTransport(m)
    BY <1>0, <1>5, <1>t DEF PrpdConnect, prpdc_ctx
  <2>6. UNCHANGED <<nlam_vec, connection_state, reinit, flashed>> /\ nlsock' = nlsock
    BY <1>5 DEF PrpdConnect
  <2> HIDE DEF x, m
  <2> QED
    BY <1>0, <1>3, <1>4, <2>1, <2>2, <2>3, <2>4, <2>5, <2>6, MoveSteps DEF m
<1>6. CASE PrpdConnectFailure
  BY <1>0, <1>3, <1>6, <1>t, RetrySteps DEF PrpdConnectFailure, prpdc_ctx
<1>7. ASSUME NEW state \in {"UP", "DOWN"}, ConnectionManager(state) PROVE Steps(m)
  <2>1. rib.running /\ rib'.running
    BY <1>0, <1>7 DEF ConnectionManager, Rib
  <2>2. UNCHANGED <<nlam_vec, connection_state, reinit, flashed, ctx, nlsock>>
    BY <1>7 DEF ConnectionManager
  <2> QED
    BY <1>0, <2>1, <2>2 DEF Steps, Quiet, Started, HasTransport, Consistent, OwnOK, Held, RibIdle
<1>8. rib.pipe # << >> => rib_after_read.running
  BY <1>0, <1>2 DEF rib_after_read, Rib
<1>9. CASE PipeReadUp
  <2>1. rib.running /\ rib_after_read.running /\ ~ctx[m].timer
    BY <1>0, <1>2, <1>8, <1>9 DEF PipeReadUp, pipe_holds
  <2>2. rib_after_read \in Rib
    BY <1>0, <1>9 DEF PipeReadUp, pipe_holds, rib_after_read, Rib
  <2>3. [ctx EXCEPT ![m] = ctx[m]] = ctx
    BY DEF TypeOK
  <2>4. ConnectionUp(m, [ctx EXCEPT ![m] = ctx[m]], nlsock, rib_after_read)
    BY <1>9, <2>3 DEF PipeReadUp
  <2>5. /\ Held(m, ctx[m], rib_after_read)
        /\ Transport(m, ctx[m], nlsock, rib_after_read)
    BY <1>0, <2>1 DEF Held, Transport
  <2> HIDE DEF m
  <2> QED
    BY <1>0, <1>3, <2>1, <2>2, <2>4, <2>5, UpSteps DEF RibIdle, m
<1>10. CASE PipeReadDown
  <2>1. rib.running /\ rib'.running
    BY <1>2, <1>8, <1>10 DEF PipeReadDown, pipe_holds
  <2>2. ConnectionDown(m) /\ UNCHANGED <<ctx, nlsock>>
    BY <1>10 DEF PipeReadDown
  <2>3. UNCHANGED nlam_vec
    BY <2>2 DEF ConnectionDown
  <2>4. Consistent(ctx, nlsock, rib)'
    BY <1>0, <2>1, <2>2, <2>3 DEF Consistent, OwnOK, Held, RibIdle
  <2>5. WentDown(m)
    BY <1>3, <2>1, <2>2 DEF WentDown, ConnectionDown, Started, HasTransport
  <2> QED
    BY <2>4, <2>5 DEF Steps
<1> QED
  BY <1>5, <1>6, <1>7, <1>9, <1>10 DEF ConnectionManagerUp, ConnectionManagerDown

LEMMA ReinitSteps ==
  ASSUME SourcesInv, Reinit
  PROVE  Consistent(ctx, nlsock, rib)' /\ Fresh
<1> DEFINE cs == [i \in Modules |-> IF i \in Enabled THEN "DOWN" ELSE connection_state[i]]
           S  == {i \in Modules : check_init_module(i, Enabled, cs)}
           c  == GetVec(ResetContexts(nlam_vec, ctx))
<1>1. /\ reinit /\ ~reinit'
      /\ connection_state' = cs /\ nlam_vec' = Enabled
      /\ ctx' = InitContexts(S, c)
      /\ nlsock' = FreeSocket(nlam_vec \cup S, nlsock)
      /\ rib' = FreeRib(nlam_vec \cup S, rib)
  BY DEF Reinit, modules_reinit_event
<1>2. S \subseteq Modules /\ S \subseteq Enabled
  BY DEF check_init_module, is_module_enabled
<1> HIDE DEF S, cs
<1>3. ASSUME NEW i \in Modules, i \notin S
      PROVE  ~Held(i, ctx'[i], rib') /\ ~ctx'[i].timer
  <2>1. ctx'[i] = c[i]
    BY <1>1, <1>3 DEF InitContexts
  <2>2. i \notin nlam_vec => ~Held(i, ctx[i], rib)
    BY DEF SourcesInv, Consistent, OwnOK
  <2>3. ~Armed(c[i]) /\ ~c[i].timer
    BY <2>2 DEF GetVec, ResetContexts, Cleanup, NullContext, Armed, Held
  <2>4. i = NLA_PRPD_CLIENT => ~rib'.running
    BY <1>1, <2>2 DEF FreeRib, NoRib, Held
  <2> QED
    BY <2>1, <2>3, <2>4 DEF Held
<1>4. ASSUME NEW i \in S
      PROVE  OwnOK(i, ctx'[i], nlam_vec', nlsock', rib') /\ Held(i, ctx'[i], rib')
  <2>1. i \in Modules /\ i \in Enabled
    BY <1>2
  <2>2. c[i] \in Context
    BY <2>1, ContextMaps DEF SourcesInv, TypeOK
  <2>3. ctx'[i] = Start(c[i])
    BY <1>1, <2>1 DEF InitContexts
  <2> HIDE DEF c
  <2>4. Start(c[i]).infravec /\ Start(c[i]) = TimerStart(Start(c[i]))
    BY <2>2 DEF Start, TimerStart, Cleanup, NullContext, Context
  <2>a. Armed(Start(c[i]))
    BY <2>2 DEF Start, TimerStart, Cleanup, NullContext, Context, Armed
  <2>5. i = NLA_KNLM => ~nlsock'
    BY <1>1 DEF FreeSocket
  <2>6. i = NLA_PRPD_CLIENT => ~rib'.running
    BY <1>1 DEF FreeRib, NoRib
  <2> QED
    BY <1>1, <2>1, <2>3, <2>4, <2>5, <2>6, <2>a DEF OwnOK, Held
<1>5. RibIdle(rib')
  BY <1>1 DEF FreeRib, NoRib, RibIdle, SourcesInv, Consistent
<1>6. Consistent(ctx, nlsock, rib)'
  BY <1>3, <1>4, <1>5 DEF Consistent, OwnOK
<1>7. \A i \in Modules : Started(i)' <=> i \in S
  BY <1>2, <1>3, <1>4, NextStarted
<1> QED
  BY <1>1, <1>6, <1>7 DEF Fresh, S, cs

-----------------------------------------------------------------------------
(* Every step of the agent is of one of the four kinds.                    *)

Shaped == Quiet \/ Fresh \/ \E m \in Modules : CameUp(m) \/ WentDown(m)

LEMMA IdleShape ==
  ASSUME SourcesInv, EventLoopExit
  PROVE  Consistent(ctx, nlsock, rib)' /\ Quiet
<1>1. \A i \in Modules : ~Armed(ctx[i]) /\ (i = NLA_PRPD_CLIENT => ~rib.running)
  BY DEF EventLoopExit, Started
<1>2. ASSUME NEW i \in Modules PROVE ~Armed(ctx'[i]) /\ ~ctx'[i].timer
  <2>1. ctx'[i] = IF i \in nlam_vec THEN Cleanup(ctx[i]) ELSE ctx[i]
    BY DEF EventLoopExit, ResetContexts
  <2> QED
    BY <1>1, <2>1 DEF Cleanup, NullContext, Armed
<1>3. rib' = NoRib
  BY <1>1 DEF EventLoopExit, FreeRib, SourcesInv, Consistent, RibIdle, Modules
<1>4. ~rib'.running
  BY <1>3 DEF NoRib
<1>5. Consistent(ctx', nlsock', rib')
  BY <1>2, <1>3, <1>4 DEF Consistent, OwnOK, Held, RibIdle, EventLoopExit
<1>6. UNCHANGED <<nlam_vec, connection_state, reinit, flashed>>
  BY DEF EventLoopExit
<1>7. Consistent(ctx, nlsock, rib)'
  BY <1>5, <1>6 DEF Consistent
<1>8. ASSUME NEW i \in Modules PROVE ~Started(i) /\ ~Started(i)' /\ ~HasTransport(i)
  BY <1>1, <1>2, <1>4 DEF Started, HasTransport, Armed
<1> QED
  BY <1>6, <1>7, <1>8 DEF Quiet

LEMMA NextShape ==
  ASSUME SourcesInv, [Next]_vars
  PROVE  Consistent(ctx, nlsock, rib)' /\ Shaped
<1>0. TypeOK /\ Consistent(ctx, nlsock, rib)
  BY DEF SourcesInv
<1>1. ASSUME NEW m \in Modules, Steps(m)
      PROVE  Consistent(ctx, nlsock, rib)' /\ Shaped
  BY <1>1 DEF Steps, Shaped
<1>2. CASE EventLoopExit
  BY <1>2, IdleShape DEF Shaped
<1>3. CASE Reinit
  BY <1>3, ReinitSteps DEF Shaped
<1>4. CASE PipeRead \/ Manager
  <2>1. NLA_PRPD_CLIENT \in Modules
    BY DEF Modules
  <2> QED
    BY <1>0, <1>1, <1>4, <2>1, PrpdcSteps DEF PipeRead, Manager
<1>5. ASSUME NEW m \in Modules, TimerFires(m)
      PROVE  Consistent(ctx, nlsock, rib)' /\ Shaped
  BY <1>0, <1>1, <1>5, KnlmSteps, ClientSteps, ServerSteps, PrpdcSteps DEF TimerFires
<1>6. ASSUME NEW m \in TcpClients, ClientEvent(m)
      PROVE  Consistent(ctx, nlsock, rib)' /\ Shaped
  <2>1. m \in Modules
    BY DEF Modules
  <2> QED
    BY <1>0, <1>1, <1>6, <2>1, ClientSteps DEF ClientEvent
<1>7. ASSUME NEW m \in TcpServers, ServerEvent(m)
      PROVE  Consistent(ctx, nlsock, rib)' /\ Shaped
  <2>1. m \in Modules
    BY DEF Modules
  <2> QED
    BY <1>0, <1>1, <1>7, <2>1, ServerSteps DEF ServerEvent
<1>8. CASE UNCHANGED vars
  BY <1>0, <1>8
  DEF vars, infraVars, Shaped, Quiet, Started, HasTransport, Consistent
<1> QED
  BY <1>2, <1>3, <1>4, <1>5, <1>6, <1>7, <1>8 DEF Next, Callback

LEMMA UpAfterCameUp ==
  ASSUME SourcesInv, NEW m \in Modules, CameUp(m)
  PROVE  Up' = Up \cup {m} /\ nlam_vec = Enabled /\ m \in Enabled
<1>1. m \in nlam_vec
  BY HeldStarted DEF SourcesInv, Consistent, OwnOK, CameUp
<1>2. nlam_vec = Enabled
  BY <1>1 DEF SourcesInv, Registered
<1>3. connection_state \in [Modules -> {"UNSET", "DOWN", "UP"}]
  BY DEF SourcesInv, TypeOK
<1> QED
  BY <1>1, <1>2, <1>3 DEF CameUp, Up

LEMMA UpAfterWentDown ==
  ASSUME SourcesInv, NEW m \in Modules, WentDown(m)
  PROVE  /\ Up' = Up \ {m} /\ nlam_vec = Enabled /\ m \in Enabled
         /\ ~reinit' => ~reinit /\ Up' = Up
         /\ m \notin Up => reinit' = reinit
         /\ m \in Up => reinit'
<1>1. m \in nlam_vec
  BY HeldStarted DEF SourcesInv, Consistent, OwnOK, WentDown
<1>2. nlam_vec = Enabled /\ connection_state[m] # "UNSET"
  BY <1>1 DEF SourcesInv, Registered
<1>3. /\ connection_state \in [Modules -> {"UNSET", "DOWN", "UP"}]
      /\ reinit \in BOOLEAN
  BY DEF SourcesInv, TypeOK
<1>4. Up' = Up \ {m}
  BY <1>3 DEF WentDown, Up
<1>5. m \notin Up <=> connection_state[m] = "DOWN"
  BY <1>2, <1>3 DEF Up
<1>6. reinit' = (reinit \/ connection_state[m] # "DOWN")
  BY DEF WentDown
<1> QED
  BY <1>1, <1>2, <1>3, <1>4, <1>5, <1>6

LEMMA UpAfterFresh ==
  ASSUME SourcesInv, Fresh
  PROVE  Up' = {}
BY DEF SourcesInv, Registered, Fresh, Up

LEMMA StepSources == ASSUME SourcesInv, [Next]_vars PROVE SourcesInv' /\ Shaped
<1>1. Consistent(ctx, nlsock, rib)' /\ Shaped
  BY NextShape
<1>2. TypeOK'
  BY StepType DEF SourcesInv
<1>3. Registered'
  <2>1. CASE Quiet
    BY <2>1 DEF SourcesInv, Registered, Quiet, Up
  <2>2. CASE Fresh
    <3>1. Up' = {}
      BY <2>2, UpAfterFresh
    <3> QED
      BY <2>2, <3>1, ConfigAssumption DEF Registered, Fresh, ConfigAssumption
  <2>3. ASSUME NEW m \in Modules, CameUp(m) PROVE Registered'
    <3>1. Up' = Up \cup {m} /\ nlam_vec = Enabled /\ m \in Enabled
      BY <2>3, UpAfterCameUp
    <3>2. /\ nlam_vec' = nlam_vec
          /\ connection_state' = [connection_state EXCEPT ![m] = "UP"]
      BY <2>3 DEF CameUp
    <3> QED
      BY <3>1, <3>2 DEF SourcesInv, Registered, TypeOK
  <2>4. ASSUME NEW m \in Modules, WentDown(m) PROVE Registered'
    <3>1. Up' = Up \ {m} /\ nlam_vec = Enabled /\ m \in Enabled
      BY <2>4, UpAfterWentDown
    <3>2. /\ nlam_vec' = nlam_vec
          /\ connection_state' = [connection_state EXCEPT ![m] = "DOWN"]
      BY <2>4 DEF WentDown
    <3> QED
      BY <3>1, <3>2 DEF SourcesInv, Registered, TypeOK
  <2> QED
    BY <1>1, <2>1, <2>2, <2>3, <2>4 DEF Shaped
<1> QED
  BY <1>1, <1>2, <1>3 DEF SourcesInv

LEMMA InitSources == Init => SourcesInv
<1> SUFFICES ASSUME Init PROVE SourcesInv
  OBVIOUS
<1>1. Registered
  BY DEF Init, InfraInit, Registered, Up
<1>2. Consistent(ctx, nlsock, rib)
  BY DEF Init, InfraInit, Consistent, RibIdle, OwnOK, Held, Armed, NullContext, NoRib
<1> QED
  BY <1>1, <1>2, InitType DEF SourcesInv

LEMMA SourcesAlways == Spec => []SourcesInv
<1>1. SourcesInv /\ [Next]_vars => SourcesInv'
  BY StepSources
<1> QED
  BY <1>1, InitSources, PTL DEF Spec

=============================================================================
