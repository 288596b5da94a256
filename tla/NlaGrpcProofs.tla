---------------------------- MODULE NlaGrpcProofs ----------------------------
(***************************************************************************)
(* Theorems about the connection manager thread and the event loop: the    *)
(* shutdown protocol frees nothing too early, and to the loop the thread   *)
(* is what NlaRib says, for every capacity of the pipe.                    *)
(***************************************************************************)
EXTENDS NlaGrpc, TLAPS

\* The promise follows the loop; a thread that has ended was told to; a client
\* that is not there has reported nothing.
Protocol ==
  /\ gc_exitSignal = "NULL" <=> loop = "IDLE"
  /\ gc_exitSignal = "SET" <=> loop = "JOIN"
  /\ thread = "END" => gc_exitSignal # "UNSET"
  /\ gc_exitSignal = "NULL" =>
       /\ thread = "END"
       /\ pipe = << >>
       /\ seen = "DOWN"
       /\ connectionState = "DOWN"

Inv == TypeOK /\ Protocol

LEMMA InitInv == Init => Inv
  BY GrpcAssumption DEF Init, Inv, TypeOK, Protocol, ChannelStates

LEMMA NextInv == Inv /\ [Next]_vars => Inv'
<1> SUFFICES ASSUME Inv, [Next]_vars PROVE Inv'
  OBVIOUS
<1> USE DEF Inv, TypeOK, Protocol, ChannelStates, loopVars, threadVars, Connecting, Woken
<1>1. CASE UNCHANGED vars
  BY <1>1 DEF vars
<1>2. CASE ChannelChange
  BY <1>2 DEF ChannelChange
<1>3. CASE Exit \/ Check \/ Login \/ LoginFails \/ TryConnecting
  BY <1>3 DEF Exit, Check, Login, LoginFails, TryConnecting
<1>4. CASE NothingNew \/ PipeWriteAgain \/ WaitForStateChange \/ WaitTimeout
  BY <1>4 DEF NothingNew, PipeWriteAgain, WaitForStateChange, watched, WaitTimeout, vars
<1>5. CASE PipeWrite
  BY <1>5, GrpcAssumption DEF PipeWrite
<1>6. CASE RibClientInit
  BY <1>6, GrpcAssumption DEF RibClientInit
<1>7. CASE PipeRead
  BY <1>7, GrpcAssumption DEF PipeRead
<1>8. CASE RouteRpc \/ RpcReturns \/ SetExitSignal
  BY <1>8 DEF RouteRpc, RpcReturns, SetExitSignal
<1>9. CASE JoinAndFree
  BY <1>9, GrpcAssumption DEF JoinAndFree, joined
<1> QED
  BY <1>1, <1>2, <1>3, <1>4, <1>5, <1>6, <1>7, <1>8, <1>9
  DEF Next, ConnectionManager, EventLoop

LEMMA Invariance == Spec => []Inv
  BY InitInv, NextInv, PTL DEF Spec

\* Types, and the capacity of the pipe (PipeWrite, nla_grpc.c:384).
THEOREM GrpcTypeCorrect == Spec => []TypeOK
<1>1. Inv => TypeOK
  BY DEF Inv
<1> QED
  BY <1>1, Invariance, PTL

\* RibClientReset frees nothing that the thread may still use: the join comes
\* before every delete and close (nla_grpc.c:523-559).
THEOREM NothingIsUsedAfterFree == Spec => []NoUseAfterFree
<1>1. Inv => NoUseAfterFree
  BY DEF Inv, Protocol, NoUseAfterFree
<1> QED
  BY <1>1, Invariance, PTL

-----------------------------------------------------------------------------
\* A step of the detailed thread or of the loop is one of NlaRib, or a stutter.
LEMMA StepImplements == Inv /\ Inv' /\ [Next]_vars => [Client!RibNext]_Client!ribVars
<1> SUFFICES ASSUME Inv, Inv', [Next]_vars PROVE [Client!RibNext]_Client!ribVars
  OBVIOUS
<1> USE DEF Inv, TypeOK, Protocol, loopVars, threadVars
<1>a. (gc_exitSignal' # "NULL") = (gc_exitSignal # "NULL")
      /\ UNCHANGED <<connectionState, pipe, seen>> => UNCHANGED Client!ribVars
  BY DEF Client!ribVars
<1>1. CASE UNCHANGED vars
  BY <1>1, <1>a DEF vars
<1>2. CASE ChannelChange \/ Exit \/ Check \/ Login \/ LoginFails \/ TryConnecting
  BY <1>2, <1>a DEF ChannelChange, Exit, Check, Login, LoginFails, TryConnecting
<1>3. CASE NothingNew \/ PipeWriteAgain \/ WaitForStateChange \/ WaitTimeout
  BY <1>3, <1>a DEF NothingNew, PipeWriteAgain, WaitForStateChange, WaitTimeout, vars
<1>4. CASE RouteRpc \/ RpcReturns \/ SetExitSignal
  BY <1>4, <1>a DEF RouteRpc, RpcReturns, SetExitSignal
<1>5. CASE PipeWrite
  <2>1. Client!Report(newConnectionState)
    BY <1>5 DEF PipeWrite, Client!Report
  <2> QED
    BY <2>1 DEF Client!RibNext
<1>6. CASE RibClientInit
  <2>1. Client!Launch
    BY <1>6 DEF RibClientInit, Client!Launch
  <2> QED
    BY <2>1 DEF Client!RibNext
<1>7. CASE PipeRead
  <2>1. Client!Learn
    BY <1>7 DEF PipeRead, Client!Learn
  <2> QED
    BY <2>1 DEF Client!RibNext
<1>8. CASE JoinAndFree
  <2>1. Client!Quit
    BY <1>8 DEF JoinAndFree, Client!Quit
  <2> QED
    BY <2>1 DEF Client!RibNext
<1> QED
  BY <1>1, <1>2, <1>3, <1>4, <1>5, <1>6, <1>7, <1>8 DEF Next, ConnectionManager, EventLoop

\* The thread with its loops, its promise and its join implements NlaRib.
THEOREM GrpcImplementsRib == Spec => ImplementsRib
<1>1. Init => Client!RibInit
  BY DEF Init, Client!RibInit
<1> QED
  BY <1>1, Invariance, StepImplements, PTL DEF Spec, ImplementsRib, Client!RibSpec

-----------------------------------------------------------------------------
(* The abstract specification by itself: what the loop knows.              *)

\* The last state in the pipe is the last that was reported.
LastReported ==
  /\ connectionState \in {"UP", "DOWN"}
  /\ pipe \in Seq({"UP", "DOWN"})
  /\ pipe # << >> => pipe[Len(pipe)] = connectionState
  /\ pipe = << >> => seen = connectionState

\* When the pipe is empty, the infra holds for the state of the client what the
\* thread has last reported, through every reset (PipeRead, nla_grpc.c:397).
THEOREM LoopKnowsLastReport == Spec => [](pipe = << >> => seen = connectionState)
<1>1. Init => LastReported
  BY DEF Init, LastReported
<1>2. LastReported /\ Inv /\ [Next]_vars => LastReported'
  <2> SUFFICES ASSUME LastReported, Inv, [Next]_vars PROVE LastReported'
    OBVIOUS
  <2> USE DEF LastReported, loopVars, threadVars
  <2>1. CASE UNCHANGED <<pipe, seen, connectionState>>
    BY <2>1
  <2>2. CASE PipeWrite
    BY <2>2 DEF PipeWrite, Inv, TypeOK
  <2>3. CASE PipeRead
    <3>1. CASE Len(pipe) = 1
      BY <2>3, <3>1 DEF PipeRead
    <3>2. CASE Len(pipe) # 1
      BY <2>3, <3>2 DEF PipeRead
    <3> QED
      BY <3>1, <3>2
  <2>4. CASE RibClientInit
    BY <2>4 DEF RibClientInit, Inv, Protocol
  <2>5. CASE JoinAndFree
    BY <2>5 DEF JoinAndFree
  <2> QED
    BY <2>1, <2>2, <2>3, <2>4, <2>5
    DEF Next, ConnectionManager, EventLoop, vars, ChannelChange, Exit, Check, Login,
        LoginFails, TryConnecting, NothingNew, PipeWriteAgain, WaitForStateChange,
        WaitTimeout, RouteRpc, RpcReturns, SetExitSignal
<1>3. LastReported => (pipe = << >> => seen = connectionState)
  BY DEF LastReported
<1> QED
  BY <1>1, <1>2, <1>3, Invariance, PTL DEF Spec

=============================================================================
