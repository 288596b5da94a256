------------------------------ MODULE MCNlaRoutes ------------------------------
(***************************************************************************)
(* Instances of NlaRoutes for TLC.                                         *)
(***************************************************************************)
EXTENDS NlaRoutes, TLC

CONSTANTS NLA_FPM_SERVER, NLA_FPM_CLIENT, NLA_NLM_SERVER

\* The demo of the README: the FPM client is connected to the agent's own FPM
\* server, which sends everything back.  Beside it, an NLM peer.
DemoNotifyMe ==
  [m \in Modules |->
     CASE m \in {NLA_FPM_CLIENT, NLA_NLM_SERVER} -> {NLA_KNLM}
       [] m = NLA_FPM_SERVER  -> {NLA_FPM_SERVER}
       [] m = NLA_PRPD_CLIENT -> {NLA_FPM_CLIENT}
       [] OTHER -> {}]

DemoPeer == NLA_FPM_CLIENT :> NLA_FPM_SERVER @@ NLA_FPM_SERVER :> NLA_FPM_CLIENT

\* The wiring is one of those that the theorems are about.
ASSUME DemoAssumption ==
  /\ \A s \in Peers : NotifyMe[s] = {NLA_KNLM}
  /\ PathToDaemon(<<NLA_FPM_CLIENT, NLA_FPM_SERVER>>)

=============================================================================
