\* policies with room for two values instead of thirty
SPECIFICATION Spec
CONSTANTS
  Modules <- SixModules
  NLA_MODULE_ALL = "NLA_MODULE_ALL"
  First = "NLA_KNLM"
  Files <- SomeFiles
  Default <- YamlFile
  NLA_POLICY_ENTRIES_MAX = 2
  Strtol <- Numerals
INVARIANTS
  AsWritten
  RefusesUnknown
CHECK_DEADLOCK FALSE
