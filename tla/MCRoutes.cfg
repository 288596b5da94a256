\* one route with two ways, a socket for two messages, connections for one
SPECIFICATION FairSpec
CONSTANTS
  NLA_KNLM = NLA_KNLM
  NLA_PRPD_CLIENT = NLA_PRPD_CLIENT
  NLA_FPM_SERVER = NLA_FPM_SERVER
  NLA_FPM_CLIENT = NLA_FPM_CLIENT
  NLA_NLM_SERVER = NLA_NLM_SERVER
  TcpServers = {NLA_FPM_SERVER, NLA_NLM_SERVER}
  TcpClients = {NLA_FPM_CLIENT}
  Enabled = {NLA_KNLM, NLA_PRPD_CLIENT, NLA_FPM_SERVER, NLA_FPM_CLIENT, NLA_NLM_SERVER}
  NotifyMe <- DemoNotifyMe
  Peer <- DemoPeer
  Prefixes = {p1}
  Hops = {h1, h2}
  NoRoute = NoRoute
  MaxSock = 2
  MaxWire = 1
INVARIANTS
  PeersAgree
  DaemonComplete
PROPERTIES
  EventuallyAgree
