---------------------------- MODULE MCNlaDispatch -----------------------------
(***************************************************************************)
(* Instances of NlaDispatch for TLC.  The policies are those of            *)
(* utils/nlagent.yaml, one kind of refusal each, and a table to set.       *)
(***************************************************************************)
EXTENDS NlaDispatch, TLC

CONSTANTS NLA_FPM_SERVER, NLA_FPM_CLIENT, NLA_NLM_SERVER, NLA_NLM_CLIENT

\* nla_module_id_t
EnumNumber ==
  NLA_KNLM :> 0 @@ NLA_PRPD_CLIENT :> 1 @@ NLA_FPM_SERVER :> 2 @@
  NLA_FPM_CLIENT :> 3 @@ NLA_NLM_SERVER :> 4 @@ NLA_NLM_CLIENT :> 5

\* Three modules listen to the kernel; it listens to the last of them.
KernelNotifyMe ==
  [m \in Modules |->
     CASE m \in {NLA_FPM_CLIENT, NLA_FPM_SERVER, NLA_NLM_SERVER} -> {NLA_KNLM}
       [] m = NLA_KNLM -> {NLA_FPM_CLIENT}
       [] OTHER -> {}]

YamlPolicies ==
  {NoPolicy,
   [NoPolicy EXCEPT !.filter_protocol = <<22>>, !.set_protocol = <<0>>,
                    !.strip_rtattr = <<7, 12>>],
   [NoPolicy EXCEPT !.filter_table = <<253, 254>>, !.set_table = <<100>>],
   [NoPolicy EXCEPT !.filter_family = <<2>>, !.strip_rtattr = <<12>>]}

\* Type 12 occurs twice in a message with attributes.
ThreeMessages ==
  LET attrs == <<[type |-> 12, size |-> 8], [type |-> 1, size |-> 8],
                 [type |-> 7, size |-> 20], [type |-> 12, size |-> 4]>>
      msg   == [family |-> 2, table |-> 254, protocol |-> 22,
                attrs |-> attrs, len |-> HeaderLen + 40]
  IN {msg, [msg EXCEPT !.protocol = 4],
      [msg EXCEPT !.family = 10, !.table = 1, !.attrs = << >>, !.len = HeaderLen]}

=============================================================================
