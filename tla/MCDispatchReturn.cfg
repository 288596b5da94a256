SPECIFICATION Spec
CONSTANTS
  NLA_KNLM = NLA_KNLM
  NLA_PRPD_CLIENT = NLA_PRPD_CLIENT
  NLA_FPM_SERVER = NLA_FPM_SERVER
  NLA_FPM_CLIENT = NLA_FPM_CLIENT
  NLA_NLM_SERVER = NLA_NLM_SERVER
  NLA_NLM_CLIENT = NLA_NLM_CLIENT
  TcpServers = {NLA_FPM_SERVER, NLA_NLM_SERVER}
  TcpClients = {NLA_FPM_CLIENT, NLA_NLM_CLIENT}
  Enabled = {NLA_KNLM, NLA_FPM_SERVER, NLA_FPM_CLIENT, NLA_NLM_SERVER}
  NotifyMe <- KernelNotifyMe
  Number <- EnumNumber
  Policies <- YamlPolicies
  Messages <- ThreeMessages
  HeaderLen = 28
INVARIANTS
  RefusalIsLocal
