\* utils/nlagent_e2e_test.yaml, with listeners that fail
SPECIFICATION Spec
CONSTANTS
  NLA_KNLM = NLA_KNLM
  NLA_PRPD_CLIENT = NLA_PRPD_CLIENT
  NLA_FPM_SERVER = NLA_FPM_SERVER
  NLA_FPM_CLIENT = NLA_FPM_CLIENT
  NLA_NLM_SERVER = NLA_NLM_SERVER
  NLA_NLM_CLIENT = NLA_NLM_CLIENT
  TcpServers = {NLA_FPM_SERVER, NLA_NLM_SERVER}
  TcpClients = {NLA_FPM_CLIENT, NLA_NLM_CLIENT}
  Enabled = {NLA_KNLM, NLA_PRPD_CLIENT, NLA_FPM_SERVER, NLA_FPM_CLIENT, NLA_NLM_SERVER, NLA_NLM_CLIENT}
  NotifyMe <- E2ENotifyMe
  Faults = {"bind", "accept"}
  MaxPipe = 2
  MaxStray = 1
INVARIANTS
  DependencyOrder
  NothingOverwritten
  NoOrphanCallback
PROPERTIES
  RestartOnlyInterdependent
  LifecycleSpec
  ThreadSpec
