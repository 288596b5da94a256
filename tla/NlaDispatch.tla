----------------------------- MODULE NlaDispatch ------------------------------
(***************************************************************************)
(* nla_infra_event_dispatcher of nla_main.c: a message that a module has   *)
(* read from its connection on its way to the modules that listen.  The    *)
(* connections come and go as NlaLifecycle allows, which NlaAgent is shown *)
(* to implement.                                                           *)
(***************************************************************************)
EXTENDS NlaContext, NlaPolicy

CONSTANTS
  Number,    \* Number[m]: place of m in nla_module_id_t
  Policies,  \* policies[m] is one of these
  Messages   \* messages that modules read

ASSUME NumberAssumption ==
  /\ Number \in [Modules -> Nat]
  /\ \A i, j \in Modules : Number[i] = Number[j] => i = j

ASSUME PoliciesAssumption == Policies \subseteq Policy

\* nlmsg_len is right in what is read: nothing stands behind the last attribute.
ASSUME MessagesAssumption ==
  /\ Messages \subseteq Message
  /\ \A msg \in Messages : msg.len = FullLen(msg.attrs)

VARIABLES
  policy,  \* nlamc_policy of every module, fixed by the configuration file
  up,      \* modules whose connection is up
  dirty,   \* a fresh start is pending
  event,   \* observer: the last write event, if no session has changed since
  given    \* observer: given[m], what m's notify_cb has been given of it

dispatchVars == <<policy, up, dirty, event, given>>

Sessions == INSTANCE NlaLifecycle WITH Mods <- Enabled

\* The listeners of `from' to which the loop would hand a message
listeners(from, ups) == {i \in Enabled : from \in NotifyMe[i] /\ i \in ups}

\* Slip: the loop ends at the first listener that is not up.
handed_on_until_down(i, from, ups, msg) ==
  \A j \in Enabled : (from \in NotifyMe[j] /\ Number[j] <= Number[i])
    => j \in ups /\ policy_evaluate(policy[j], msg) # {}

\* Does the loop get as far as i?  It goes through the modules by number and
\* returns at the first listener whose policy evaluation fails.
handed_on(i, from, ups, msg) ==
  \A j \in listeners(from, ups) :
    Number[j] <= Number[i] => policy_evaluate(policy[j], msg) # {}

Dispatch(from, msg) ==
  /\ from \in up
  /\ event' = {[from |-> from, msg |-> msg]}
  /\ given' = [i \in Modules |->
                 IF i \in listeners(from, up) /\ handed_on(i, from, up, msg)
                 THEN policy_evaluate(policy[i], msg) ELSE {}]
  /\ UNCHANGED <<policy, up, dirty>>

NothingGiven == [m \in Modules |-> {}]

SessionChange ==
  /\ Sessions!LifeNext
  /\ event' = {}
  /\ given' = NothingGiven
  /\ UNCHANGED policy

Init ==
  /\ policy \in [Modules -> Policies]
  /\ \A m \in Modules \ Enabled : policy[m] = NoPolicy
  /\ Sessions!LifeInit
  /\ event = {}
  /\ given = NothingGiven

Next ==
  \/ SessionChange
  \/ \E from \in Enabled, msg \in Messages : Dispatch(from, msg)

Spec == Init /\ [][Next]_dispatchVars

-----------------------------------------------------------------------------
\* What a listener is given is its own view of the message that was read:
\* accepted by its filters as it was read, stripped of every attribute of the
\* types to strip and of no other, its length right (nlmsg_len and
\* nlaei_msglen, nla_policy.c:121), whatever the other listeners were given.
OwnView ==
  \A e \in event, m \in Modules : \A out \in given[m] :
    LET p == policy[m]
    IN /\ Accepted(p, e.msg)
       /\ out.attrs = Stripped(e.msg.attrs, ToSet(p.strip_rtattr))
       /\ out.len = FullLen(out.attrs)
       /\ p.set_protocol # << >> => out.protocol = Last(p.set_protocol)

\* The start order pays off: unless a fresh start is pending, a listener that
\* the sender had to wait for misses a message only because it, or a listener
\* with a lower number, refuses it - never because it is not up.
LostOnlyToRefusal ==
  ~dirty => \A e \in event, i \in Enabled :
    (/\ e.from \in NotifyMe[i] /\ ~Interdependent(e.from, i)
     /\ given[i] = {})
      => \E j \in listeners(e.from, up) :
           Number[j] <= Number[i] /\ ~Accepted(policy[j], e.msg)

\* "policy evaluation failed: skip notifying this msg to %s" (nla_main.c:365):
\* a refusal concerns the listener that refuses.
RefusalIsLocal ==
  \A e \in event : \A i \in listeners(e.from, up) :
    Accepted(policy[i], e.msg) => given[i] # {}

\* "Alter Netlink message fields such as table-id, protocol" (README.md:19)
SetTableSetsTable ==
  \A m \in Modules : \A out \in given[m] :
    policy[m].set_table # << >> => out.table = Last(policy[m].set_table)

=============================================================================
