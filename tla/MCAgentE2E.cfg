\* utils/nlagent_e2e_test.yaml, while the operating system does its part
SPECIFICATION FairSpec
CONSTANTS
  NLA_KNLM = NLA_KNLM
  NLA_PRPD_CLIENT = NLA_PRPD_CLIENT
  NLA_FPM_SERVER = NLA_FPM_SERVER
  NLA_FPM_CLIENT = NLA_FPM_CLIENT
  NLA_NLM_SERVER = NLA_NLM_SERVER
  NLA_NLM_CLIENT = NLA_NLM_CLIENT
  TcpServers = {NLA_FPM_SERVER, NLA_NLM_SERVER}
  TcpClients = {NLA_FPM_CLIENT, NLA_NLM_CLIENT}
  Enabled = {NLA_KNLM, NLA_PRPD_CLIENT, NLA_FPM_SERVER, NLA_FPM_CLIENT, NLA_NLM_SERVER, NLA_NLM_CLIENT}
  NotifyMe <- E2ENotifyMe
  Faults = {}
  MaxPipe = 2
  MaxStray = 0
INVARIANTS
  UpHasTransport
  NoLostWakeup
  FlashComplete
PROPERTIES
  EventuallyAllUp
