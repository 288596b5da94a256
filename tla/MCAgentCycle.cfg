\* a configuration with a cycle, and ports that cannot be bound: the agent may end
SPECIFICATION Spec
CONSTANTS
  NLA_KNLM = NLA_KNLM
  NLA_PRPD_CLIENT = NLA_PRPD_CLIENT
  NLA_FPM_SERVER = NLA_FPM_SERVER
  NLA_FPM_CLIENT = NLA_FPM_CLIENT
  NLA_NLM_SERVER = NLA_NLM_SERVER
  NLA_NLM_CLIENT = NLA_NLM_CLIENT
  TcpServers = {NLA_FPM_SERVER, NLA_NLM_SERVER}
  TcpClients = {NLA_FPM_CLIENT, NLA_NLM_CLIENT}
  Enabled = {NLA_KNLM, NLA_FPM_SERVER, NLA_FPM_CLIENT, NLA_NLM_SERVER, NLA_NLM_CLIENT}
  NotifyMe <- CycleNotifyMe
  Faults = {"bind"}
  MaxPipe = 2
  MaxStray = 2
CHECK_DEADLOCK FALSE
INVARIANTS
  CycleNeverStarts
  NobodyUpAtExit
