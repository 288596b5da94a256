----------------------------- MODULE NlaLifecycle -----------------------------
(***************************************************************************)
(* What the infra promises of the connections, without timers, sockets or  *)
(* callbacks: a module comes up only while everybody it has to serve is    *)
(* up, and once a module is lost every module is brought up again.         *)
(***************************************************************************)
CONSTANTS Mods,  \* the modules of the configuration
          Deps   \* Deps[m]: modules that must be up before m is started

VARIABLES up,    \* modules whose connection is up
          dirty  \* a fresh start is due

lifeVars == <<up, dirty>>

LifeInit == up = {} /\ dirty = TRUE

\* A module that was started before the loss may still come up after it.
BringUp(m) ==
  /\ m \notin up
  /\ dirty \/ Deps[m] \subseteq up
  /\ up' = up \cup {m}
  /\ UNCHANGED dirty

Drop(m) ==
  /\ m \in up
  /\ up' = up \ {m}
  /\ dirty' = TRUE

FreshStart ==
  /\ dirty
  /\ up' = {}
  /\ dirty' = FALSE

LifeNext == FreshStart \/ \E m \in Mods : BringUp(m) \/ Drop(m)

LifeSpec == LifeInit /\ [][LifeNext]_lifeVars

-----------------------------------------------------------------------------
\* Unless a fresh start is due, whoever is up has everybody it serves up.
ServedFirst == ~dirty => \A m \in up : Deps[m] \subseteq up

=============================================================================
