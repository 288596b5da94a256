-------------------------------- MODULE NlaRib --------------------------------
(***************************************************************************)
(* What the event loop gets from the connection manager thread of          *)
(* nla_grpc.c, without channel, promise and join: while the client runs,   *)
(* the thread reports changes, one by one, and the loop learns of them in  *)
(* order; a reset ends both and leaves nothing behind.                     *)
(***************************************************************************)
EXTENDS Naturals, Sequences

VARIABLES running,  \* there is a client
          mgr,      \* the last state that its thread has reported
          pipe,     \* the reports that the loop has not read
          seen      \* what the infra holds for the state of the client

ribVars == <<running, mgr, pipe, seen>>

RibInit == running = FALSE /\ mgr = "DOWN" /\ pipe = << >> /\ seen = "DOWN"

Launch ==
  /\ ~running
  /\ running' = TRUE
  /\ UNCHANGED <<mgr, pipe, seen>>

\* Only a change is reported.
Report(state) ==
  /\ running
  /\ mgr # state
  /\ mgr' = state
  /\ pipe' = Append(pipe, state)
  /\ UNCHANGED <<running, seen>>

Learn ==
  /\ pipe # << >>
  /\ seen' = Head(pipe)
  /\ pipe' = Tail(pipe)
  /\ UNCHANGED <<running, mgr>>

Quit == running' = FALSE /\ mgr' = "DOWN" /\ pipe' = << >> /\ seen' = "DOWN"

RibNext == Launch \/ Learn \/ Quit \/ \E state \in {"UP", "DOWN"} : Report(state)

RibSpec == RibInit /\ [][RibNext]_ribVars

=============================================================================
