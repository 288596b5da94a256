------------------------------ MODULE MCNlaConfig ------------------------------
(***************************************************************************)
(* Instances of NlaConfig for TLC: the files of utils/, and every file of  *)
(* at most two blocks out of some.                                         *)
(***************************************************************************)
EXTENDS NlaConfig, TLC

SixModules == {"NLA_KNLM", "NLA_PRPD_CLIENT", "NLA_FPM_SERVER",
               "NLA_FPM_CLIENT", "NLA_NLM_SERVER", "NLA_NLM_CLIENT"}

Block(m, settings, policy, notify) ==
  [module |-> m, settings |-> settings, policy |-> policy, notify |-> notify]
Address(port) == << <<"server-address", "127.0.0.1">>, <<"server-port", port>> >>

\* utils/nlagent.yaml, which is also nla_yaml_default_config
YamlFile ==
  <<Block("NLA_KNLM", << >>, << >>, << >>),
    Block("NLA_PRPD_CLIENT", Address("40051"), << >>, <<"NLA_FPM_CLIENT">>),
    Block("NLA_FPM_CLIENT", Address("2620"),
          << <<"filter-protocol", "22">>, <<"set-protocol", "0">>, <<"strip-rtattr", "7">>,
             <<"strip-rtattr", "12">>, <<"strip-rtattr", "15">>, <<"strip-rtattr", "20">> >>,
          <<"NLA_KNLM">>)>>

SomeBlocks ==
  {Block(m, settings, policy, notify) :
     m \in {"NLA_KNLM", "NLA_FPM_CLIENT", "NLA_MODULE_ALL", "NLA_BGP"},
     settings \in {<< >>, Address("2620")},
     policy \in {<< >>,
                 << <<"filter-table", "254">>, <<"set-table", "main">> >>,
                 << <<"strip-rtattr", "7">>, <<"strip-rtattr", "12">>,
                    <<"filter-family", "2">>, <<"strip-rtattr", "15">> >>},
     notify \in {<< >>, <<"NLA_MODULE_ALL", "NLA_FPM_SERVER">>, <<"NLA_KNLM", "NLA_NONE">>}}

SomeFiles == {<<b>> : b \in SomeBlocks} \cup {<<b, c>> : b, c \in SomeBlocks}

\* "main" is no number.
Numerals ==
  "0" :> 0 @@ "2" :> 2 @@ "7" :> 7 @@ "12" :> 12 @@ "15" :> 15 @@ "20" :> 20 @@ "22" :> 22
  @@ "254" :> 254 @@ "2620" :> 2620 @@ "40051" :> 40051 @@ "main" :> 0

\* The files are of those that the theorems are about.
ASSUME PlainAssumption == \A f \in Files \cup {Default} : PlainValues(f)

=============================================================================
