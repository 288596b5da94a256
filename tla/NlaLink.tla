------------------------------- MODULE NlaLink -------------------------------
(***************************************************************************)
(* What a connection between two modules of the agent, or a module and its *)
(* peer, promises: netlink messages arrive once, in order and unchanged,   *)
(* as long as the session lasts.  What is under way when it breaks is lost.*)
(***************************************************************************)
EXTENDS Naturals, Sequences

CONSTANT Batches  \* what may be written at once

VARIABLES queue,  \* messages written and not yet handed over
          given   \* the messages handed over by the last step that did

linkVars == <<queue, given>>

LinkInit == queue = << >> /\ given = << >>

Put(msgs) == queue' = queue \o msgs /\ UNCHANGED given

\* Messages that arrive together may be handed over together.
Get ==
  \E k \in 1..Len(queue) :
    /\ given' = SubSeq(queue, 1, k)
    /\ queue' = SubSeq(queue, k + 1, Len(queue))

Break == queue' = << >> /\ given' = << >>

LinkNext == Get \/ Break \/ \E msgs \in Batches : Put(msgs)

LinkSpec == LinkInit /\ [][LinkNext]_linkVars

=============================================================================
