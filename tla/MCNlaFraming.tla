----------------------------- MODULE MCNlaFraming -----------------------------
(***************************************************************************)
(* Instances of NlaFraming for TLC: routes as the kernel encodes them.     *)
(***************************************************************************)
EXTENDS NlaFraming, TLC

\* 10.1.0.0/16 dev eth0: header and rtmsg, table, destination, interface
Ipv4 == [id |-> "v4", len |-> 28 + 8 + 8 + 8, looks |-> {}]
\* default dev eth0: no destination
Default == [id |-> "default", len |-> 28 + 8 + 8, looks |-> {}]
\* 2001:db8::1:8 dev eth0: the last word of the destination is 00 01 00 08, an
\* FPM header of type 1 and length 8
Ipv6 == [id |-> "v6", len |-> 28 + 8 + 20 + 8, looks |-> {52}]

RouteBatches == {<<Ipv4>>, <<Ipv6>>, <<Default, Ipv4>>}

=============================================================================
