------------------------------- MODULE NlaKnlm --------------------------------
(***************************************************************************)
(* nla_knlm.c: the kernel netlink module.  Its socket stays connected once *)
(* it is: the code never looks at the result of nl_recvmsgs_default, so    *)
(* the module reports DOWN only while it connects.                         *)
(***************************************************************************)
EXTENDS NlaInfra

knlm_ctx == ctx[NLA_KNLM]

\* nla_knlm_connect is run by the start timer
knlm_connect_timer_fires == knlm_ctx.timer

\* nl_connect succeeds: read from the socket, report UP.
KnlmConnect ==
  /\ knlm_connect_timer_fires
  /\ ConnectionUp(NLA_KNLM,
       [ctx EXCEPT ![NLA_KNLM] = [@ EXCEPT !.timer = FALSE, !.socket_read = TRUE]],
       TRUE, rib)

\* goto retry: report DOWN, free the socket, wait two seconds.
KnlmConnectFailure ==
  /\ knlm_connect_timer_fires
  /\ ConnectionDown(NLA_KNLM)
  /\ ctx' = [ctx EXCEPT ![NLA_KNLM] = TimerStart(@)]
  /\ nlsock' = FALSE
  /\ UNCHANGED rib

=============================================================================
