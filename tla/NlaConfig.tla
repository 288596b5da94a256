------------------------------- MODULE NlaConfig -------------------------------
(***************************************************************************)
(* nla_read_config of nla_config.c.  libyaml turns the file into a list of *)
(* nodes, a collection before its contents and a key before its value; the *)
(* code goes through the list once, without looking at the nesting, and    *)
(* takes every entry for one of the module whose name it saw last.         *)
(*                                                                         *)
(* The table of names, nla_modules, has one name more than there are       *)
(* modules: NLA_MODULE_ALL passes for a module.  Its row lies behind       *)
(* nla_infa_modules and its flag behind nlamc_notify_me.  Rows of modules  *)
(* come before it in memory, and the flag falls into the padding of a row, *)
(* so neither touches the configuration of a module; the row is modelled   *)
(* as one more, what else lies there is not.                               *)
(***************************************************************************)
EXTENDS Integers, Sequences, FiniteSetsExt, SequencesExt

CONSTANTS
  Modules,                \* the modules, each with a row in nla_infa_modules
  NLA_MODULE_ALL,         \* their number, which has a name, too
  First,                  \* the module with number 0
  Files,                  \* configuration files
  Default,                \* the file that is made if there is none
  NLA_POLICY_ENTRIES_MAX, \* values of a policy
  Strtol                  \* Strtol[s]: the number that strtol makes of s

\* nla_modules
Names == Modules \cup {NLA_MODULE_ALL}

\* A file is its modules in order.  Of a module: its name, which comes first, its
\* settings and policies as keys with values, and the modules it listens to.
SettingKeys == {"server-address", "server-port"}
PolicyKeys  == {"filter-family", "filter-table", "filter-protocol",
                "set-table", "set-protocol", "strip-rtattr"}

Blocks == [module : STRING, settings : Seq(SettingKeys \X STRING),
           policy : Seq(PolicyKeys \X STRING), notify : Seq(STRING)]

ASSUME FilesAssumption ==
  /\ Modules \subseteq STRING
  /\ NLA_MODULE_ALL \in STRING \ Modules
  /\ First \in Modules
  /\ NLA_POLICY_ENTRIES_MAX \in Nat \ {0}
  /\ \A f \in Files \cup {Default} : f \in Seq(Blocks)

VARIABLES
  file,       \* the file as it is written
  nodes,      \* its nodes
  next,       \* index of the node that is read next
  module_id,  \* the module that entries are for
  config,     \* nlam_config of every name
  ret         \* "read" or "failed", once nla_read_config returns 0 or -1

vars == <<file, nodes, next, module_id, config, ret>>

-----------------------------------------------------------------------------
(* The nodes of a file.                                                    *)

Nest == "{"  \* a mapping or a sequence

Entry(key, value) == <<key, value>>
List(key, entries) == IF entries = << >> THEN << >> ELSE <<key, Nest>> \o FlattenSeq(entries)

ModuleNodes(b) ==
  <<Nest>> \o Entry("module", b.module) \o FlattenSeq(b.settings)
  \o List("policy", [k \in DOMAIN b.policy |-> <<Nest>> \o b.policy[k]])
  \o List("notify-me", [k \in DOMAIN b.notify |->
                          <<Nest>> \o Entry("notify-events-from", b.notify[k])])

Nodes(f) ==
  <<Nest>> \o Entry("nlagent-modules", Nest) \o FlattenSeq([j \in DOMAIN f |-> ModuleNodes(f[j])])

-----------------------------------------------------------------------------
(* The configuration of a module.                                          *)

NoPolicies == [k \in PolicyKeys |-> << >>]

\* Static zero, and nla_yaml_module_init
Unconfigured == [enable |-> FALSE, addr |-> "NULL", port |-> 0,
                 policy |-> NoPolicies, notify_me |-> {}]
Initialised  == [enable |-> TRUE, addr |-> "NULL", port |-> -1,
                 policy |-> NoPolicies, notify_me |-> {}]

module_init(c) == Initialised

set_setting(c, key, value) ==
  IF key = "server-port" THEN [c EXCEPT !.port = Strtol[value]] ELSE [c EXCEPT !.addr = value]

\* Slip: one value more than there is room for.
set_policy_past(c, key, value) ==
  IF Len(c.policy[key]) <= NLA_POLICY_ENTRIES_MAX
  THEN [c EXCEPT !.policy[key] = Append(@, Strtol[value])] ELSE c

\* What finds no room is dropped.
set_policy(c, key, value) ==
  IF Len(c.policy[key]) < NLA_POLICY_ENTRIES_MAX
  THEN [c EXCEPT !.policy[key] = Append(@, Strtol[value])] ELSE c

\* Slip: an unknown name is the first module.
get_module_id_zero(name) == {IF name \in Names THEN name ELSE First}
\* nla_yaml_get_module_id: nothing, if nla_modules has no such name
get_module_id(name) == {name} \cap Names

-----------------------------------------------------------------------------
\* nla_yaml_default_config writes the file of a first start.
Init ==
  /\ file \in Files \cup {Default}
  /\ nodes = Nodes(file)
  /\ next = 1
  /\ module_id = First
  /\ config = [m \in Names |-> Unconfigured]
  /\ ret = "reading"

node  == nodes[next]
value == nodes[next + 1]

\* The node after a key is its value; the loop then comes to that node, too.
NextNode ==
  /\ ret = "reading"
  /\ next \in DOMAIN nodes
  /\ next' = next + 1
  /\ UNCHANGED <<file, nodes>>

Failed == ret' = "failed" /\ UNCHANGED <<module_id, config>>

ReadModule ==
  /\ NextNode
  /\ node = "module"
  /\ \/ \E m \in get_module_id(value) :
          /\ module_id' = m
          /\ config' = [config EXCEPT ![m] = module_init(@)]
          /\ UNCHANGED ret
     \/ get_module_id(value) = {} /\ Failed

ReadNotifyFrom ==
  /\ NextNode
  /\ node = "notify-events-from"
  /\ \/ \E m \in get_module_id(value) :
          /\ config' = [config EXCEPT ![module_id].notify_me = @ \cup {m}]
          /\ UNCHANGED <<module_id, ret>>
     \/ get_module_id(value) = {} /\ Failed

ReadSetting ==
  /\ NextNode
  /\ node \in SettingKeys
  /\ config' = [config EXCEPT ![module_id] = set_setting(@, node, value)]
  /\ UNCHANGED <<module_id, ret>>

ReadPolicy ==
  /\ NextNode
  /\ node \in PolicyKeys
  /\ config' = [config EXCEPT ![module_id] = set_policy(@, node, value)]
  /\ UNCHANGED <<module_id, ret>>

\* A value, a key without meaning, or a collection
ReadOther ==
  /\ NextNode
  /\ node \notin {"module", "notify-events-from"} \cup SettingKeys \cup PolicyKeys
  /\ UNCHANGED <<module_id, config, ret>>

Finish ==
  /\ ret = "reading"
  /\ next \notin DOMAIN nodes
  /\ ret' = "read"
  /\ UNCHANGED <<file, nodes, next, module_id, config>>

Next == ReadModule \/ ReadNotifyFrom \/ ReadSetting \/ ReadPolicy \/ ReadOther \/ Finish

Spec == Init /\ [][Next]_vars

-----------------------------------------------------------------------------
(* What the file says, read by its blocks.                                 *)

ValuesOf(entries, key) ==
  FlattenSeq([k \in DOMAIN entries |->
                IF entries[k][1] = key THEN <<entries[k][2]>> ELSE << >>])
LastOf(values, default) == IF values = << >> THEN default ELSE Last(values)
Numbers(values) == [k \in DOMAIN values |-> Strtol[values[k]]]

BlockSays(b) ==
  LET port == ValuesOf(b.settings, "server-port")
  IN [enable |-> TRUE,
      addr |-> LastOf(ValuesOf(b.settings, "server-address"), "NULL"),
      port |-> IF port = << >> THEN -1 ELSE Strtol[Last(port)],
      policy |-> [k \in PolicyKeys |->
                    LET values == Numbers(ValuesOf(b.policy, k))
                    IN IF Len(values) <= NLA_POLICY_ENTRIES_MAX THEN values
                       ELSE SubSeq(values, 1, NLA_POLICY_ENTRIES_MAX)],
      notify_me |-> ToSet(b.notify)]

BlocksOf(f, m) == {j \in DOMAIN f : f[j].module = m}

FileSays(f) ==
  [m \in Names |-> IF BlocksOf(f, m) = {} THEN Unconfigured ELSE BlockSays(f[Max(BlocksOf(f, m))])]

AllNamed(b) == ToSet(<<b.module>> \o b.notify) \subseteq Names

\* No value would pass for a key.  In a file with the address "module" the port
\* would be looked at as the name of a module.
PlainValues(f) ==
  LET plain == STRING \ ({"module", "notify-events-from"} \cup SettingKeys \cup PolicyKeys)
  IN \A j \in DOMAIN f :
       /\ f[j].module \in plain
       /\ \A k \in DOMAIN f[j].settings : f[j].settings[k][2] \in plain
       /\ \A k \in DOMAIN f[j].policy : f[j].policy[k][2] \in plain
       /\ \A k \in DOMAIN f[j].notify : f[j].notify[k] \in plain

\* Although the reader never looks at the nesting, every entry ends up with the
\* module of its own block, and a module that is named twice has what its last
\* block says.  Of a policy the first values count.
AsWritten == ret = "read" => \A m \in Modules : config[m] = FileSays(file)[m]

\* The agent does not start (main, nla_main.c:629) exactly if a block or a
\* notify-events-from has a name that is not in nla_modules.  NLA_MODULE_ALL is
\* in it (nla_util.c:73): a file with that name is read, and the agent starts.
RefusesUnknown ==
  ret # "reading" =>
    (ret = "failed" <=> \E j \in DOMAIN file : ~AllNamed(file[j]))

=============================================================================
