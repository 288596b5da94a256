---------------------------- MODULE NlaOrderProofs ----------------------------
(***************************************************************************)
(* What the infra promises of the connections, and that the agent is the   *)
(* infra of NlaRib's thread, proved from the ownership of event sources    *)
(* (SourcesInv) and the four kinds of steps (Shaped) of NlaAgentProofs.    *)
(***************************************************************************)
EXTENDS NlaAgentProofs

\* A timer that is armed owns its module alone (NothingOverwritten of
\* NlaAgent): no handler stores a source over one that is still in the loop.
THEOREM NothingIsOverwritten == Spec => []NothingOverwritten
<1>1. \A x : LET y == TimerStart(x) IN ~y.listener /\ y.bev = "NULL" /\ ~y.socket_read
  BY DEF TimerStart, Cleanup, NullContext
<1>2. SourcesInv => NothingOverwritten
  BY <1>1 DEF SourcesInv, Consistent, OwnOK, NothingOverwritten
<1> QED
  BY <1>2, SourcesAlways, PTL

\* A source in the loop belongs to an enabled module whose infra vector is
\* set (NoOrphanCallback of NlaAgent).
THEOREM NoCallbackIsOrphaned == Spec => []NoOrphanCallback
<1>1. SourcesInv => NoOrphanCallback
  BY HeldStarted DEF SourcesInv, Consistent, OwnOK, NoOrphanCallback
<1> QED
  BY <1>1, SourcesAlways, PTL

-----------------------------------------------------------------------------
(* The start order.  DependencyOrder is not inductive: a module comes up   *)
(* long after it was started, so that its listeners are up has to be known *)
(* of every module that is under way.                                      *)

Served == ~reinit => \A m \in Modules : m \in Up \/ Started(m) => Deps[m] \subseteq Up

\* check_init_module, seen from the configuration
LEMMA CheckInit ==
  ASSUME NEW i \in Modules, NEW cs
  PROVE  check_init_module(i, Enabled, cs)
           <=> /\ i \in Enabled
               /\ cs[i] # "UP"
               /\ \A k \in Deps[i] : cs[k] = "UP"
<1>1. \A k \in Modules : k \in Subscribers(i, Enabled) <=> k \in Enabled /\ i \in NotifyMe[k]
  BY DEF Subscribers, is_module_enabled
<1>2. \A k \in Modules :
        k \in Deps[i] <=> k \in Subscribers(i, Enabled) /\ ~Interdependent(i, k)
  BY <1>1 DEF Deps
<1>3. Deps[i] \subseteq Modules /\ Subscribers(i, Enabled) \subseteq Modules
  BY ConfigAssumption DEF Deps, Subscribers, ConfigAssumption
<1> QED
  BY <1>2, <1>3 DEF check_init_module, is_module_enabled, is_module_up

\* Whoever is started when m comes up has all its listeners up by then, and
\* m is the last of them.
LEMMA StartedByUp ==
  ASSUME SourcesInv, NEW m \in Modules, CameUp(m), NEW i \in Modules
  PROVE  i \in UpInits(m)
           <=> /\ i \in NotifyMe[m] /\ m \notin Up
               /\ i \in Enabled \ Up' /\ Deps[i] \subseteq Up'
<1>1. Up' = Up \cup {m} /\ nlam_vec = Enabled
  BY UpAfterCameUp
<1>2. connection_state' = [connection_state EXCEPT ![m] = "UP"]
  BY DEF CameUp
<1>3. \A k \in Modules : k \in Up' <=> connection_state'[k] = "UP"
  BY DEF Up
<1>4. Deps[i] \subseteq Modules
  BY ConfigAssumption DEF Deps, ConfigAssumption
<1>5. i \in UpInits(m)
        <=> /\ i \in NotifyMe[m] /\ m \notin Up
            /\ check_init_module(i, Enabled, connection_state')
  BY <1>1, <1>2 DEF UpInits
<1> QED
  BY <1>3, <1>4, <1>5, CheckInit

\* Whoever is started afresh listens to nobody but itself and its likes.
LEMMA StartedFresh ==
  ASSUME SourcesInv, Fresh, NEW i \in Modules
  PROVE  Started(i)' <=> i \in Enabled /\ Deps[i] = {}
<1>1. Up' = {}
  BY UpAfterFresh
<1>2. \A k \in Modules : connection_state'[k] # "UP"
  BY <1>1 DEF Up
<1>3. Deps[i] \subseteq Modules
  BY ConfigAssumption DEF Deps, ConfigAssumption
<1>4. Started(i)' <=> check_init_module(i, Enabled, connection_state')
  BY DEF Fresh
<1> QED
  BY <1>2, <1>3, <1>4, CheckInit

LEMMA StepServed ==
  ASSUME SourcesInv, Served, Shaped
  PROVE  Served'
<1> SUFFICES ASSUME ~reinit', NEW i \in Modules, (i \in Up \/ Started(i))'
             PROVE  Deps[i] \subseteq Up'
  BY DEF Served, Deps
<1>1. CASE Quiet
  BY <1>1 DEF Served, Quiet, Up
<1>2. CASE Fresh
  BY <1>2, UpAfterFresh, StartedFresh
<1>3. ASSUME NEW m \in Modules, CameUp(m) PROVE Deps[i] \subseteq Up'
  <2>1. Up' = Up \cup {m} /\ ~reinit
    BY <1>3, UpAfterCameUp DEF CameUp
  <2>2. CASE i \in UpInits(m)
    BY <1>3, <2>2, StartedByUp
  <2>3. CASE i \notin UpInits(m)
    BY <1>3, <2>1, <2>3 DEF CameUp, Served
  <2> QED
    BY <2>2, <2>3
<1>4. ASSUME NEW m \in Modules, WentDown(m) PROVE Deps[i] \subseteq Up'
  BY <1>4, UpAfterWentDown DEF WentDown, Served
<1> QED
  BY <1>1, <1>2, <1>3, <1>4 DEF Shaped

LEMMA ServedAlways == Spec => []Served
<1>1. Init => Served
  BY DEF Init, InfraInit, Served
<1>2. SourcesInv /\ Served /\ [Next]_vars => Served'
  BY StepSources, StepServed
<1> QED
  BY <1>1, <1>2, SourcesAlways, PTL DEF Spec

\* Unless a fresh start is pending, a module that is up has all its listeners
\* up (DependencyOrder of NlaAgent), whatever the configuration.
THEOREM StartOrder == Spec => []DependencyOrder
<1>1. Served => DependencyOrder
  BY DEF Served, DependencyOrder, Up
<1> QED
  BY <1>1, ServedAlways, PTL

\* A module that comes up leaves everybody else who is under way alone, unless
\* the two are interdependent (RestartOnlyInterdependent of NlaAgent).
THEOREM NobodyIsRestarted == Spec => RestartOnlyInterdependent
<1>1. ASSUME SourcesInv, Served, [Next]_vars,
             NEW m \in Modules, NEW i \in Modules,
             m \notin Up, m \in Up', i # m,
             Started(i), ~reinit, ~Interdependent(m, i)
      PROVE  ctx'[i] = ctx[i]
  <2>1. Shaped
    BY <1>1, StepSources
  <2>2. ~Quiet /\ ~Fresh
    BY <1>1, UpAfterFresh DEF Quiet, Up
  <2>3. ASSUME NEW k \in Modules, WentDown(k) PROVE FALSE
    BY <1>1, <2>3, UpAfterWentDown
  <2>4. PICK k \in Modules : CameUp(k)
    BY <2>1, <2>2, <2>3 DEF Shaped
  <2>5. Up' = Up \cup {k} /\ k \in Enabled
    BY <1>1, <2>4, UpAfterCameUp
  <2>6. k = m
    BY <1>1, <2>5
  <2>7. i \notin UpInits(m)
    <3>1. Deps[i] \subseteq Up
      BY <1>1 DEF Served
    <3>2. i \in NotifyMe[m] => m \in Deps[i]
      BY <1>1, <2>5, <2>6 DEF Deps, Interdependent
    <3> QED
      BY <1>1, <3>1, <3>2 DEF UpInits
  <2> QED
    BY <1>1, <2>4, <2>6, <2>7 DEF CameUp
<1>2. SourcesInv /\ Served /\ [Next]_vars
        => [\A m, i \in Modules :
              (/\ m \notin Up /\ m \in Up' /\ i # m
               /\ Started(i) /\ ~reinit /\ ~Interdependent(m, i))
                => ctx'[i] = ctx[i]]_vars
  BY <1>1
<1> QED
  BY <1>2, SourcesAlways, ServedAlways, PTL DEF Spec, RestartOnlyInterdependent

-----------------------------------------------------------------------------
\* Modules that wait for each other in a circle are never started and never
\* up (CycleNeverStarts of NlaAgent): nla_infra_check_init_module breaks only
\* the circles of two.
THEOREM CyclesNeverStart == Spec => []CycleNeverStarts
<1>1. Init => CycleNeverStarts
  BY DEF Init, InfraInit, CycleNeverStarts, Up, Started, Armed, NullContext, NoRib
<1>2. ASSUME SourcesInv, CycleNeverStarts, Shaped PROVE CycleNeverStarts'
  <2> SUFFICES ASSUME NEW C \in SUBSET Modules, \A k \in C : Deps[k] \cap C # {},
                      NEW i \in C
               PROVE  (i \notin Up /\ ~Started(i))'
    BY DEF CycleNeverStarts, Deps
  <2>1. \A k \in C : k \notin Up /\ ~Started(k)
    BY <1>2 DEF CycleNeverStarts
  <2>2. PICK d \in C : d \in Deps[i]
    OBVIOUS
  <2>3. CASE Quiet
    BY <2>1, <2>3 DEF Quiet, Up
  <2>4. CASE Fresh
    BY <1>2, <2>2, <2>4, UpAfterFresh, StartedFresh
  <2>5. ASSUME NEW m \in Modules, CameUp(m) PROVE (i \notin Up /\ ~Started(i))'
    <3>1. m \notin C
      BY <2>1, <2>5 DEF CameUp
    <3>2. Up' = Up \cup {m}
      BY <1>2, <2>5, UpAfterCameUp
    <3>3. i \notin UpInits(m)
      BY <1>2, <2>1, <2>2, <2>5, <3>1, <3>2, StartedByUp
    <3>4. i \in Modules /\ i # m
      BY <3>1
    <3> QED
      BY <2>1, <2>5, <3>2, <3>3, <3>4 DEF CameUp
  <2>6. ASSUME NEW m \in Modules, WentDown(m) PROVE (i \notin Up /\ ~Started(i))'
    BY <1>2, <2>1, <2>6, UpAfterWentDown DEF WentDown
  <2> QED
    BY <1>2, <2>3, <2>4, <2>5, <2>6 DEF Shaped
<1>3. SourcesInv /\ CycleNeverStarts /\ [Next]_vars => CycleNeverStarts'
  BY <1>2, StepSources
<1> QED
  BY <1>1, <1>3, SourcesAlways, PTL DEF Spec

\* While no listener fails to accept, what the infra holds for up can be
\* written to (UpHasTransport of NlaAgent).
THEOREM UpCanBeWritten ==
  ASSUME "accept" \notin Faults
  PROVE  Spec => []UpHasTransport
<1>1. Init => UpHasTransport
  BY DEF Init, InfraInit, UpHasTransport, Up
<1>2. ASSUME SourcesInv, UpHasTransport, Shaped PROVE UpHasTransport'
  <2> SUFFICES ASSUME NEW i \in Modules, i \in Up' PROVE HasTransport(i)'
    BY DEF UpHasTransport, Up
  <2>1. CASE Quiet
    BY <1>2, <2>1 DEF UpHasTransport, Quiet, Up
  <2>2. CASE Fresh
    BY <1>2, <2>2, UpAfterFresh
  <2>3. ASSUME NEW m \in Modules, CameUp(m) PROVE HasTransport(i)'
    <3>1. Up' = Up \cup {m} /\ (i \in UpInits(m) => i \notin Up')
      BY <1>2, <2>3, UpAfterCameUp, StartedByUp
    <3> QED
      BY <1>2, <2>3, <3>1 DEF CameUp, UpHasTransport
  <2>4. ASSUME NEW m \in Modules, WentDown(m) PROVE HasTransport(i)'
    <3>1. Up' = Up \ {m}
      BY <1>2, <2>4, UpAfterWentDown
    <3> QED
      BY <1>2, <2>4, <3>1 DEF WentDown, UpHasTransport
  <2> QED
    BY <1>2, <2>1, <2>2, <2>3, <2>4 DEF Shaped
<1>3. SourcesInv /\ UpHasTransport /\ [Next]_vars => UpHasTransport'
  BY <1>2, StepSources
<1> QED
  BY <1>1, <1>3, SourcesAlways, PTL DEF Spec

\* While no listener fails to accept, the agent ends by itself only when no
\* connection is up (NobodyUpAtExit of NlaAgent).
THEOREM ExitsIdle ==
  ASSUME "accept" \notin Faults
  PROVE  Spec => []NobodyUpAtExit
<1>1. Init => NobodyUpAtExit
  BY DEF Init, NobodyUpAtExit
<1>2. ASSUME UpHasTransport, NobodyUpAtExit, [Next]_vars PROVE NobodyUpAtExit'
  <2>1. CASE EventLoopExit
    <3>1. \A i \in Modules : ~HasTransport(i)
      BY <2>1 DEF EventLoopExit, Started, Armed, HasTransport
    <3>2. Up = {}
      BY <1>2, <3>1 DEF UpHasTransport, Up
    <3> QED
      BY <2>1, <3>2 DEF EventLoopExit, NobodyUpAtExit, Up
  <2>2. CASE alive /\ UNCHANGED alive
    BY <2>2 DEF NobodyUpAtExit
  <2>3. CASE UNCHANGED vars
    BY <1>2, <2>3 DEF vars, infraVars, NobodyUpAtExit, Up
  <2> QED
    BY <1>2, <2>1, <2>2, <2>3 DEF Next
<1>3. UpHasTransport /\ NobodyUpAtExit /\ [Next]_vars => NobodyUpAtExit'
  BY <1>2
<1> QED
  BY <1>1, <1>3, UpCanBeWritten, PTL DEF Spec

\* While every port can be bound, no module that may be started is forgotten
\* (NoLostWakeup of NlaAgent).
THEOREM NobodyIsForgotten ==
  ASSUME "bind" \notin Faults
  PROVE  Spec => []NoLostWakeup
<1>1. Init => NoLostWakeup
  BY DEF Init, InfraInit, NoLostWakeup
<1>2. ASSUME SourcesInv, NoLostWakeup, Shaped PROVE NoLostWakeup'
  <2> SUFFICES ASSUME ~reinit', NEW i \in Enabled, i \notin Up', Deps[i] \subseteq Up'
               PROVE  Started(i)'
    BY DEF NoLostWakeup, Deps
  <2>0. i \in Modules
    BY ConfigAssumption DEF ConfigAssumption
  <2>1. CASE Quiet
    BY <1>2, <2>0, <2>1 DEF NoLostWakeup, Quiet, Up
  <2>2. CASE Fresh
    BY <1>2, <2>0, <2>2, UpAfterFresh, StartedFresh
  <2>3. ASSUME NEW m \in Modules, CameUp(m) PROVE Started(i)'
    <3>1. Up' = Up \cup {m} /\ ~reinit
      BY <1>2, <2>3, UpAfterCameUp DEF CameUp
    <3>2. CASE i \in UpInits(m)
      BY <2>3, <3>2 DEF CameUp
    <3>3. CASE i \notin UpInits(m)
      <4>1. Deps[i] \subseteq Up
        BY <1>2, <2>0, <2>3, <3>1, <3>3, StartedByUp DEF Deps
      <4> QED
        BY <1>2, <2>0, <2>3, <3>1, <3>3, <4>1 DEF CameUp, NoLostWakeup
    <3> QED
      BY <3>2, <3>3
  <2>4. ASSUME NEW m \in Modules, WentDown(m) PROVE Started(i)'
    BY <1>2, <2>0, <2>4, UpAfterWentDown DEF WentDown, NoLostWakeup
  <2> QED
    BY <1>2, <2>1, <2>2, <2>3, <2>4 DEF Shaped
<1>3. SourcesInv /\ NoLostWakeup /\ [Next]_vars => NoLostWakeup'
  BY <1>2, StepSources
<1> QED
  BY <1>1, <1>3, SourcesAlways, PTL DEF Spec

\* While no listener fails to accept, connected modules have had their flash
\* since the last of them connected (FlashComplete of NlaAgent): whoever comes
\* up last asks for it, for itself and for those it listens to.
THEOREM FlashIsComplete ==
  ASSUME "accept" \notin Faults
  PROVE  Spec => []FlashComplete
<1>1. Init => FlashComplete
  BY DEF Init, InfraInit, FlashComplete
<1>2. ASSUME SourcesInv, UpHasTransport, FlashComplete, Shaped PROVE FlashComplete'
  <2> SUFFICES ASSUME ~reinit', NEW s \in Modules, s \in Up',
                      Subscribers(s, nlam_vec') \subseteq Up',
                      NEW i \in Subscribers(s, nlam_vec')
               PROVE  i \in flashed'[s]
    BY DEF FlashComplete, Up
  <2> DEFINE subs == Subscribers(s, nlam_vec)
  <2>0. Subscribers(s, nlam_vec) \subseteq Modules
    BY DEF Subscribers
  <2>1. ASSUME ~reinit, nlam_vec' = nlam_vec, s \in Up, subs \subseteq Up
        PROVE  i \in flashed[s]
    BY <1>2, <2>0, <2>1 DEF FlashComplete, UpHasTransport
  <2>2. CASE Quiet
    BY <2>1, <2>2 DEF Quiet, Up
  <2>3. CASE Fresh
    BY <1>2, <2>3, UpAfterFresh
  <2>4. ASSUME NEW m \in Modules, CameUp(m) PROVE i \in flashed'[s]
    <3>1. Up' = Up \cup {m} /\ nlam_vec = Enabled /\ nlam_vec' = nlam_vec /\ ~reinit
      BY <1>2, <2>4, UpAfterCameUp DEF CameUp
    <3>2. flashed'[s] = IF s \in Flashes(m) THEN subs ELSE flashed[s]
      BY <2>4 DEF CameUp
    <3>3. CASE m \in subs \cup {s} /\ m \notin Up
      <4>1. s \in {m} \cup NotifyMe[m]
        BY <3>3 DEF Subscribers
      <4>2. s \in Enabled
        BY <1>2, <2>4, <3>1, UpAfterCameUp DEF SourcesInv, Registered
      <4>3. connection_state' = [connection_state EXCEPT ![m] = "UP"]
        BY <2>4 DEF CameUp
      <4>4. \A k \in subs \cup {s} : connection_state'[k] = "UP"
        BY <3>1 DEF Up
      <4>5. request_flash(s, nlam_vec, connection_state')
        BY <3>1, <4>2, <4>4 DEF request_flash, is_module_enabled, is_module_up
      <4>6. s \in Flashes(m)
        BY <3>3, <4>1, <4>3, <4>5 DEF Flashes, init_flash
      <4> QED
        BY <3>1, <3>2, <4>6
    <3>4. CASE ~(m \in subs \cup {s} /\ m \notin Up)
      <4>1. s \in Up /\ subs \subseteq Up
        BY <3>1, <3>4
      <4> QED
        BY <2>1, <3>1, <3>2, <4>1
    <3> QED
      BY <3>3, <3>4
  <2>5. ASSUME NEW m \in Modules, WentDown(m) PROVE i \in flashed'[s]
    <3>1. Up' = Up \ {m} /\ ~reinit /\ Up' = Up /\ nlam_vec' = nlam_vec
      BY <1>2, <2>5, UpAfterWentDown DEF WentDown
    <3>2. flashed' = EndSession(m, flashed)
      BY <2>5 DEF WentDown
    <3>3. s # m /\ i # m
      BY <3>1
    <3> QED
      BY <2>1, <3>1, <3>2, <3>3 DEF EndSession
  <2> QED
    BY <1>2, <2>2, <2>3, <2>4, <2>5 DEF Shaped
<1>3. SourcesInv /\ UpHasTransport /\ FlashComplete /\ [Next]_vars => FlashComplete'
  BY <1>2, StepSources
<1> QED
  BY <1>1, <1>3, SourcesAlways, UpCanBeWritten, PTL DEF Spec

-----------------------------------------------------------------------------
\* The agent implements the lifecycle (LifecycleSpec of NlaAgent): every
\* callback of the loop is BringUp, Drop or FreshStart, or changes nothing
\* that the lifecycle sees.
THEOREM ImplementsLifecycle == Spec => LifecycleSpec
<1>1. Init => Lifecycle!LifeInit
  BY DEF Init, InfraInit, Lifecycle!LifeInit, Up
<1>2. ASSUME SourcesInv, Served, [Next]_vars
      PROVE  [Lifecycle!LifeNext]_(Lifecycle!lifeVars)
  <2> USE DEF Lifecycle!LifeNext, Lifecycle!lifeVars
  <2>1. CASE Quiet
    BY <2>1 DEF Quiet, Up
  <2>2. CASE Fresh
    <3>1. Lifecycle!FreshStart
      BY <1>2, <2>2, UpAfterFresh DEF Fresh, Lifecycle!FreshStart
    <3> QED
      BY <3>1
  <2>3. ASSUME NEW m \in Modules, CameUp(m)
        PROVE  [Lifecycle!LifeNext]_(Lifecycle!lifeVars)
    <3>1. Up' = Up \cup {m} /\ m \in Enabled /\ reinit' = reinit
      BY <1>2, <2>3, UpAfterCameUp DEF CameUp
    <3>2. m \notin Up => Lifecycle!BringUp(m)
      BY <1>2, <2>3, <3>1 DEF CameUp, Served, Lifecycle!BringUp
    <3> QED
      BY <3>1, <3>2
  <2>4. ASSUME NEW m \in Modules, WentDown(m)
        PROVE  [Lifecycle!LifeNext]_(Lifecycle!lifeVars)
    <3>1. /\ Up' = Up \ {m} /\ m \in Enabled
          /\ m \notin Up => reinit' = reinit
          /\ m \in Up => reinit'
      BY <1>2, <2>4, UpAfterWentDown
    <3>2. m \in Up => Lifecycle!Drop(m)
      BY <1>2, <2>4, <3>1 DEF WentDown, SourcesInv, TypeOK, Lifecycle!Drop
    <3> QED
      BY <3>1, <3>2
  <2> QED
    BY <1>2, <2>1, <2>2, <2>3, <2>4, StepSources DEF Shaped
<1>3. SourcesInv /\ Served /\ [Next]_vars => [Lifecycle!LifeNext]_(Lifecycle!lifeVars)
  BY <1>2
<1> QED
  BY <1>1, <1>3, SourcesAlways, ServedAlways, PTL DEF Spec, LifecycleSpec, Lifecycle!LifeSpec

\* The lifecycle by itself promises the start order (ServedFirst of
\* NlaLifecycle, which is DependencyOrder of the agent): the order follows
\* from what the abstract specification shows, not from what it hides.
THEOREM LifecycleServesFirst == LifecycleSpec => []Lifecycle!ServedFirst
<1> USE DEF Lifecycle!ServedFirst
<1>1. Lifecycle!LifeInit => Lifecycle!ServedFirst
  BY DEF Lifecycle!LifeInit
<1>2. ASSUME Lifecycle!ServedFirst, [Lifecycle!LifeNext]_(Lifecycle!lifeVars)
      PROVE  Lifecycle!ServedFirst'
  <2>1. CASE Lifecycle!FreshStart
    BY <2>1 DEF Lifecycle!FreshStart
  <2>2. ASSUME NEW m \in Enabled, Lifecycle!BringUp(m) PROVE Lifecycle!ServedFirst'
    BY <1>2, <2>2 DEF Lifecycle!BringUp, Deps
  <2>3. ASSUME NEW m \in Enabled, Lifecycle!Drop(m) PROVE Lifecycle!ServedFirst'
    BY <2>3 DEF Lifecycle!Drop
  <2>4. CASE UNCHANGED Lifecycle!lifeVars
    BY <1>2, <2>4 DEF Lifecycle!lifeVars, Deps
  <2> QED
    BY <1>2, <2>1, <2>2, <2>3, <2>4 DEF Lifecycle!LifeNext
<1>3. Lifecycle!ServedFirst /\ [Lifecycle!LifeNext]_(Lifecycle!lifeVars)
        => Lifecycle!ServedFirst'
  BY <1>2
<1> QED
  BY <1>1, <1>3, PTL DEF LifecycleSpec, Lifecycle!LifeSpec

-----------------------------------------------------------------------------
(* NlaAgent implements NlaRib: whoever resets the routing daemon client,   *)
(* the infra learns from its thread what NlaRib says.                      *)

P == NLA_PRPD_CLIENT
PrpdUp == connection_state[P] = "UP"

\* What a step may do to the thread and to what the infra holds for it
Silent   == UNCHANGED rib /\ (PrpdUp' <=> PrpdUp)
Ended    == rib' = NoRib /\ ~PrpdUp'
Launched == ~rib.running /\ rib = NoRib /\ rib' = [NoRib EXCEPT !.running = TRUE]
            /\ (PrpdUp' <=> PrpdUp)
Told     == /\ rib.pipe # << >>
            /\ rib' = rib_after_read
            /\ PrpdUp' <=> Head(rib.pipe) = "UP"
Reported(state) == ConnectionManager(state)

ThreadStep == Silent \/ Ended \/ Launched \/ Told \/ \E state \in {"UP", "DOWN"} : Reported(state)

LEMMA PrpdIsModule == P \in Modules /\ P \notin TcpClients \cup TcpServers /\ P # NLA_KNLM
BY ModulesAssumption DEF P, Modules

LEMMA NotUpInit ==
  ASSUME NEW m \in Modules, NEW vec, NEW cs, check_init_module(m, vec, cs)
  PROVE  cs[m] # "UP"
BY DEF check_init_module, is_module_up

\* The UP of another module may end the thread, if the client is not up.
LEMMA OtherUp ==
  ASSUME TypeOK, NEW m \in Modules, m # P, NEW c, NEW sock, ConnectionUp(m, c, sock, rib)
  PROVE  Silent \/ Ended
<1> DEFINE cs    == [connection_state EXCEPT ![m] = "UP"]
           inits == {i \in NotifyMe[m] : ~is_module_up(m, connection_state)
                                         /\ check_init_module(i, nlam_vec, cs)}
<1>1. connection_state' = cs /\ rib' = FreeRib(inits, rib)
  BY DEF ConnectionUp
<1>2. cs[P] = connection_state[P]
  BY PrpdIsModule DEF TypeOK
<1>3. P \in inits => cs[P] # "UP"
  BY NotUpInit, PrpdIsModule
<1> HIDE DEF inits, cs
<1> QED
  BY <1>1, <1>2, <1>3 DEF Silent, Ended, FreeRib, PrpdUp, P

LEMMA OtherDown ==
  ASSUME TypeOK, NEW m \in Modules, m # P, ConnectionDown(m), UNCHANGED rib
  PROVE  Silent
BY PrpdIsModule DEF TypeOK, ConnectionDown, Silent, PrpdUp

LEMMA ThreadTimer ==
  ASSUME SourcesInv, ctx[P].timer
  PROVE  ~rib.running /\ rib = NoRib
BY PrpdIsModule DEF SourcesInv, Consistent, OwnOK, RibIdle, P

LEMMA PrpdcThread ==
  ASSUME SourcesInv,
         PrpdConnect \/ PrpdConnectFailure \/ PipeReadUp \/ PipeReadDown
           \/ ConnectionManagerUp \/ ConnectionManagerDown
  PROVE  ThreadStep
<1>0. TypeOK /\ P \in Modules
  BY PrpdIsModule DEF SourcesInv
<1>1. CASE PrpdConnect
  <2>1. Launched
    BY <1>1, ThreadTimer DEF PrpdConnect, prpdc_ctx, P, Launched, PrpdUp
  <2> QED
    BY <2>1 DEF ThreadStep
<1>2. CASE PrpdConnectFailure
  <2>1. Silent
    BY <1>2, ThreadTimer DEF PrpdConnectFailure, prpdc_ctx, P, Silent, PrpdUp
  <2> QED
    BY <2>1 DEF ThreadStep
<1>3. CASE PipeReadUp
  <2> DEFINE cs    == [connection_state EXCEPT ![P] = "UP"]
             inits == {i \in NotifyMe[P] : ~is_module_up(P, connection_state)
                                           /\ check_init_module(i, nlam_vec, cs)}
  <2>1. connection_state' = cs /\ rib' = FreeRib(inits, rib_after_read)
    BY <1>3 DEF PipeReadUp, ConnectionUp, P
  <2>2. cs[P] = "UP"
    BY <1>0 DEF TypeOK
  <2>3. P \notin inits
    BY <1>0, <2>2, NotUpInit
  <2> HIDE DEF inits, cs
  <2>4. Told
    BY <1>3, <2>1, <2>2, <2>3 DEF PipeReadUp, pipe_holds, Told, FreeRib, PrpdUp, P
  <2> QED
    BY <2>4 DEF ThreadStep
<1>4. CASE PipeReadDown
  <2>1. Told
    BY <1>0, <1>4 DEF PipeReadDown, pipe_holds, ConnectionDown, Told, PrpdUp, P, TypeOK
  <2> QED
    BY <2>1 DEF ThreadStep
<1>5. CASE ConnectionManagerUp \/ ConnectionManagerDown
  BY <1>5 DEF ConnectionManagerUp, ConnectionManagerDown, ThreadStep, Reported
<1> QED
  BY <1>1, <1>2, <1>3, <1>4, <1>5

LEMMA ReinitThread == ASSUME SourcesInv, Reinit PROVE ThreadStep
<1> DEFINE cs == [m \in Modules |-> IF m \in Enabled THEN "DOWN" ELSE connection_state[m]]
           S  == {m \in Modules : check_init_module(m, Enabled, cs)}
<1>1. connection_state' = cs /\ rib' = FreeRib(nlam_vec \cup S, rib)
  BY DEF Reinit, modules_reinit_event
<1>2. ~PrpdUp'
  BY <1>1, PrpdIsModule DEF SourcesInv, Registered, Up, PrpdUp
<1>3. P \notin nlam_vec => rib = NoRib
  BY PrpdIsModule DEF SourcesInv, Consistent, OwnOK, Held, RibIdle, P
<1> HIDE DEF S
<1>4. rib' = NoRib
  BY <1>1, <1>3 DEF FreeRib, P
<1> QED
  BY <1>2, <1>4 DEF ThreadStep, Ended

LEMMA OtherTimer ==
  ASSUME SourcesInv, NEW m \in Modules, m # P, TimerFires(m)
  PROVE  ThreadStep
<1>0. TypeOK /\ m # NLA_PRPD_CLIENT
  BY DEF SourcesInv, P
<1>1. Silent \/ Ended
  BY <1>0, OtherUp, OtherDown
  DEF TimerFires, KnlmConnect, KnlmConnectFailure, ClientConnect, ClientConnectFailure,
      Retry, ServerListen, ServerBindFailure, Silent, PrpdUp
<1> QED
  BY <1>1 DEF ThreadStep

LEMMA OtherEvent ==
  ASSUME SourcesInv,
         NEW m \in TcpClients \cup TcpServers,
         (m \in TcpClients /\ ClientEvent(m)) \/ (m \in TcpServers /\ ServerEvent(m))
  PROVE  ThreadStep
<1>0. TypeOK /\ m \in Modules /\ m # P
  BY PrpdIsModule DEF SourcesInv, Modules
<1>1. CASE m \in TcpClients /\ ClientEvent(m)
  BY <1>0, <1>1, OtherUp, OtherDown
  DEF ClientEvent, ClientConnected, ClientConnectError, ClientDisconnected,
      event_cb_error, Retry, ThreadStep
<1>2. CASE m \in TcpServers /\ ServerEvent(m)
  BY <1>0, <1>2, OtherUp, OtherDown
  DEF ServerEvent, ServerAccept, ServerAcceptExtra, ServerDisconnected,
      ServerAcceptError, infraVars, ThreadStep, Silent, PrpdUp
<1> QED
  BY <1>1, <1>2

LEMMA IdleThread == ASSUME SourcesInv, EventLoopExit PROVE ThreadStep
<1>1. ~rib.running
  BY PrpdIsModule DEF EventLoopExit, Started, P
<1>2. rib = NoRib
  BY <1>1 DEF SourcesInv, Consistent, RibIdle
<1>3. Silent
  BY <1>2 DEF EventLoopExit, FreeRib, Silent, PrpdUp
<1> QED
  BY <1>3 DEF ThreadStep

LEMMA EveryThreadStep == ASSUME SourcesInv, [Next]_vars PROVE ThreadStep
<1>1. CASE EventLoopExit
  BY <1>1, IdleThread
<1>2. CASE Reinit
  BY <1>2, ReinitThread
<1>3. CASE PipeRead \/ Manager
  BY <1>3, PrpdcThread DEF PipeRead, Manager
<1>4. ASSUME NEW m \in Modules, TimerFires(m) PROVE ThreadStep
  <2>1. CASE m # P
    BY <1>4, <2>1, OtherTimer
  <2>2. CASE m = P
    BY <1>4, <2>2, PrpdcThread, PrpdIsModule DEF TimerFires
  <2> QED
    BY <2>1, <2>2
<1>5. ASSUME NEW m \in TcpClients, ClientEvent(m) PROVE ThreadStep
  BY <1>5, OtherEvent
<1>6. ASSUME NEW m \in TcpServers, ServerEvent(m) PROVE ThreadStep
  BY <1>6, OtherEvent
<1>7. CASE UNCHANGED vars
  BY <1>7 DEF vars, infraVars, ThreadStep, Silent, PrpdUp
<1> QED
  BY <1>1, <1>2, <1>3, <1>4, <1>5, <1>6, <1>7 DEF Next, Callback

-----------------------------------------------------------------------------
\* A step of the agent is a step of NlaRib, or a stutter.
LEMMA ThreadStepImplements ==
  ASSUME SourcesInv, ThreadStep
  PROVE  [Client!RibNext]_Client!ribVars
<1> USE DEF PrpdUp, P
<1>0. rib \in [running : BOOLEAN, mgr : {"UP", "DOWN"}, pipe : Seq({"UP", "DOWN"})]
  BY DEF SourcesInv, TypeOK, Rib
<1>1. CASE Silent
  BY <1>1 DEF Silent, Client!ribVars
<1>2. CASE Ended
  <2>1. Client!Quit
    BY <1>2 DEF Ended, Client!Quit, NoRib
  <2> QED
    BY <2>1 DEF Client!RibNext
<1>3. CASE Launched
  <2>1. Client!Launch
    BY <1>3 DEF Launched, Client!Launch, NoRib
  <2> QED
    BY <2>1 DEF Client!RibNext
<1>4. CASE Told
  <2>1. Client!Learn
    BY <1>0, <1>4 DEF Told, Client!Learn, rib_after_read
  <2> QED
    BY <2>1 DEF Client!RibNext
<1>5. ASSUME NEW state \in {"UP", "DOWN"}, Reported(state)
      PROVE  [Client!RibNext]_Client!ribVars
  <2>1. Client!Report(state)
    BY <1>0, <1>5 DEF Reported, ConnectionManager, Client!Report
  <2> QED
    BY <2>1 DEF Client!RibNext
<1> QED
  BY <1>1, <1>2, <1>3, <1>4, <1>5 DEF ThreadStep

\* The agent implements NlaRib (nla_grpc.c, PipeRead and RibClientReset): the
\* infra learns of the reports in order, of all or of none after a reset.
THEOREM AgentImplementsRib == Spec => ThreadSpec
<1>1. Init => Client!RibInit
  BY PrpdIsModule DEF Init, InfraInit, Client!RibInit, NoRib, P
<1>2. SourcesInv /\ [Next]_vars => [Client!RibNext]_Client!ribVars
  BY EveryThreadStep, ThreadStepImplements
<1> QED
  BY <1>1, <1>2, SourcesAlways, PTL DEF Spec, ThreadSpec, Client!RibSpec

=============================================================================
