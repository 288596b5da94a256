------------------------------ MODULE MCNlaAgent ------------------------------
(***************************************************************************)
(* Instances of NlaAgent for TLC: the modules of the agent and the         *)
(* configuration files of utils/.                                          *)
(***************************************************************************)
EXTENDS NlaAgent, TLC

CONSTANTS NLA_FPM_SERVER, NLA_FPM_CLIENT, NLA_NLM_SERVER, NLA_NLM_CLIENT

\* notify-me of utils/nlagent_e2e_test.yaml
E2ENotifyMe ==
  [m \in Modules |->
     CASE m = NLA_NLM_CLIENT  -> {NLA_KNLM}
       [] m = NLA_FPM_CLIENT  -> {NLA_NLM_SERVER}
       [] m = NLA_FPM_SERVER  -> {NLA_FPM_SERVER}
       [] m = NLA_NLM_SERVER  -> {NLA_FPM_CLIENT}
       [] m = NLA_PRPD_CLIENT -> {NLA_NLM_CLIENT}
       [] OTHER               -> {}]

\* Routes of the kernel for one client of each server
ServersNotifyMe ==
  [m \in Modules |-> IF m \in TcpServers THEN {NLA_KNLM} ELSE {}]

\* Three modules that wait for each other, beside a pair of servers
CycleNotifyMe ==
  [m \in Modules |->
     CASE m = NLA_NLM_CLIENT -> {NLA_FPM_CLIENT}
       [] m = NLA_FPM_CLIENT -> {NLA_KNLM}
       [] m = NLA_KNLM       -> {NLA_NLM_CLIENT}
       [] m = NLA_NLM_SERVER -> {NLA_FPM_SERVER}
       [] OTHER              -> {}]

=============================================================================
