------------------------------ MODULE NlaPolicy -------------------------------
(***************************************************************************)
(* nla_policy.c: what a listener's policy makes of a route message.  A     *)
(* message is the fields of struct rtmsg that policies look at, its first- *)
(* level attributes and its length; an attribute is its type and its size  *)
(* with header and padding (nla_total_size).                               *)
(***************************************************************************)
EXTENDS Naturals, Sequences, SequencesExt

CONSTANT HeaderLen  \* struct nlmsghdr with struct rtmsg

ASSUME HeaderAssumption == HeaderLen \in Nat

Attribute == [type : Nat, size : Nat]
Message   == [family : Nat, table : Nat, protocol : Nat, attrs : Seq(Attribute), len : Nat]

\* nlamc_policy: the values of every kind in the order of the configuration
Policy == [filter_family : Seq(Nat), filter_table : Seq(Nat), filter_protocol : Seq(Nat),
           set_table : Seq(Nat), set_protocol : Seq(Nat), strip_rtattr : Seq(Nat)]

\* Of a kind without values no policy is configured.
NoPolicy == [filter_family |-> << >>, filter_table |-> << >>, filter_protocol |-> << >>,
             set_table |-> << >>, set_protocol |-> << >>, strip_rtattr |-> << >>]

\* nla_policy_match_filter
match_filter(values, field) == values = << >> \/ Contains(values, field)

\* The three filters, before anything is set
accepts(p, msg) ==
  /\ match_filter(p.filter_family, msg.family)
  /\ match_filter(p.filter_table, msg.table)
  /\ match_filter(p.filter_protocol, msg.protocol)

\* One value after the other is written to the field, an unsigned char.
after_set(field, values) == IF values = << >> THEN field ELSE Last(values) % 256

\* One round of nla_policy_strip_attr: the first attribute of type t is cut
\* out, and the lengths of the header and of the event shrink by its size.
\* The memcpy within the message is taken to move the rest as memmove does.
strip_first(msg, t) ==
  LET k == SelectInSeq(msg.attrs, LAMBDA a : a.type = t)
  IN IF k = 0 THEN msg
     ELSE [msg EXCEPT !.attrs = RemoveAt(@, k), !.len = @ - msg.attrs[k].size]

\* Slip: an attribute that occurs twice is stripped once.
strip_attr_once(msg, t) == strip_first(msg, t)

\* nla_policy_strip_attr: until nlmsg_find_attr finds none
strip_attr(msg, t) ==
  LET rounds[n \in 0..Len(msg.attrs)] ==
        IF n = 0 THEN msg ELSE strip_first(rounds[n - 1], t)
  IN rounds[Len(msg.attrs)]

\* nla_policy_evaluate, on a clone of msg: the message for the listener, or
\* nothing.  The values of set-table go to rtm_protocol, as those of
\* set-protocol do after them.
policy_evaluate(p, msg) ==
  IF ~accepts(p, msg) THEN {}
  ELSE {FoldLeft(strip_attr,
                 [msg EXCEPT !.protocol = after_set(after_set(@, p.set_table), p.set_protocol)],
                 p.strip_rtattr)}

-----------------------------------------------------------------------------
(* What the README says of policies, without loops and lengths that shrink.*)

Accepted(p, msg) ==
  /\ p.filter_family # << >> => msg.family \in ToSet(p.filter_family)
  /\ p.filter_table # << >> => msg.table \in ToSet(p.filter_table)
  /\ p.filter_protocol # << >> => msg.protocol \in ToSet(p.filter_protocol)

\* The attributes of no type to strip, in their order
Stripped(attrs, types) ==
  FlattenSeq([i \in DOMAIN attrs |-> IF attrs[i].type \in types THEN << >> ELSE <<attrs[i]>>])

\* HeaderLen and the sizes of what is left
FullLen(attrs) == FoldLeft(LAMBDA n, a : n + a.size, HeaderLen, attrs)

=============================================================================
