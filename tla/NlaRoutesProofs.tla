---------------------------- MODULE NlaRoutesProofs ----------------------------
(***************************************************************************)
(* Peers that listen to the kernel end with its routes, and the daemon     *)
(* misses none of them, for every wiring, all prefixes, and all sizes of   *)
(* the buffers.                                                            *)
(***************************************************************************)
EXTENDS NlaRoutes, SequenceTheorems, TLAPS

CONSTANT path  \* the modules that write what the daemon gets, in their order

-----------------------------------------------------------------------------
(* What the messages that are under way will make of one entry of a table. *)

\* Once the messages q have been taken, the way to p is `after', if it is
\* `before' now.
EndsWith(q, p, before, after) ==
  \/ /\ before = after
     /\ \A i \in 1..Len(q) : q[i].prefix # p
  \/ \E i \in 1..Len(q) :
       /\ q[i].prefix = p /\ q[i].hop = after
       /\ \A j \in 1..Len(q) : j > i => q[j].prefix # p

LEMMA EndsWithNothing ==
  ASSUME NEW p, NEW before, NEW after
  PROVE  EndsWith(<< >>, p, before, after) <=> before = after
BY DEF EndsWith

\* One message more: it decides about its own prefix, and about no other.
LEMMA EndsWithAppend ==
  ASSUME NEW q \in Seq(Message), NEW msg \in Message, NEW p, NEW before, NEW after
  PROVE  /\ msg.prefix = p => EndsWith(Append(q, msg), p, before, msg.hop)
         /\ msg.prefix # p /\ EndsWith(q, p, before, after)
              => EndsWith(Append(q, msg), p, before, after)
<1>1. /\ Len(q) \in Nat
      /\ Len(Append(q, msg)) = Len(q) + 1
      /\ \A i \in 1..Len(q) : Append(q, msg)[i] = q[i]
      /\ Append(q, msg)[Len(q) + 1] = msg
  BY AppendProperties, LenProperties
<1>2. \A i \in 1..(Len(q) + 1) : i = Len(q) + 1 \/ i \in 1..Len(q)
  BY <1>1
<1>3. ASSUME msg.prefix = p PROVE EndsWith(Append(q, msg), p, before, msg.hop)
  <2>1. /\ Len(q) + 1 \in 1..(Len(q) + 1)
        /\ \A j \in 1..(Len(q) + 1) : ~(j > Len(q) + 1)
    BY <1>1
  <2> QED
    BY <1>1, <1>3, <2>1 DEF EndsWith
<1>4. ASSUME msg.prefix # p, EndsWith(q, p, before, after)
      PROVE  EndsWith(Append(q, msg), p, before, after)
  <2>1. CASE before = after /\ \A i \in 1..Len(q) : q[i].prefix # p
    BY <1>1, <1>2, <1>4, <2>1 DEF EndsWith
  <2>2. ASSUME NEW i \in 1..Len(q), q[i].prefix = p, q[i].hop = after,
               \A j \in 1..Len(q) : j > i => q[j].prefix # p
        PROVE  EndsWith(Append(q, msg), p, before, after)
    <3>1. i \in 1..(Len(q) + 1)
      BY <1>1
    <3>2. \A j \in 1..(Len(q) + 1) : j > i => Append(q, msg)[j].prefix # p
      BY <1>1, <1>2, <1>4, <2>2
    <3> QED
      BY <1>1, <2>2, <3>1, <3>2 DEF EndsWith
  <2> QED
    BY <1>4, <2>1, <2>2 DEF EndsWith
<1> QED
  BY <1>3, <1>4

\* The first message moves from the queue into the table.
LEMMA EndsWithTail ==
  ASSUME NEW q \in Seq(Message), q # << >>, NEW p, NEW before, NEW after,
         EndsWith(q, p, before, after)
  PROVE  EndsWith(Tail(q), p, IF Head(q).prefix = p THEN Head(q).hop ELSE before, after)
<1>1. /\ Len(q) \in Nat /\ Len(q) > 0
      /\ Tail(q) \in Seq(Message)
      /\ Len(Tail(q)) = Len(q) - 1
      /\ \A i \in 1..(Len(q) - 1) : Tail(q)[i] = q[i + 1]
      /\ Head(q) = q[1]
  BY HeadTailProperties, LenProperties, EmptySeq
<1>2. CASE before = after /\ \A i \in 1..Len(q) : q[i].prefix # p
  <2>1. \A i \in 1..(Len(q) - 1) : i + 1 \in 1..Len(q)
    BY <1>1
  <2>2. 1 \in 1..Len(q)
    BY <1>1
  <2> QED
    BY <1>1, <1>2, <2>1, <2>2 DEF EndsWith
<1>3. ASSUME NEW i \in 1..Len(q), q[i].prefix = p, q[i].hop = after,
             \A j \in 1..Len(q) : j > i => q[j].prefix # p
      PROVE  EndsWith(Tail(q), p, IF Head(q).prefix = p THEN Head(q).hop ELSE before, after)
  <2>1. \A j \in 1..(Len(q) - 1) : j + 1 \in 1..Len(q)
    BY <1>1
  <2>2. CASE i = 1
    <3>1. \A j \in 1..(Len(q) - 1) : Tail(q)[j].prefix # p
      <4>1. \A j \in 1..(Len(q) - 1) : j + 1 > i
        BY <2>2
      <4> QED
        BY <1>1, <1>3, <2>1, <4>1
    <3> QED
      BY <1>1, <1>3, <2>2, <3>1 DEF EndsWith
  <2>3. CASE i # 1
    <3>1. i - 1 \in 1..(Len(q) - 1) /\ (i - 1) + 1 = i
      BY <1>1, <1>3, <2>3
    <3>2. Tail(q)[i - 1] = q[i]
      BY <1>1, <3>1
    <3>3. \A j \in 1..(Len(q) - 1) : j > i - 1 => j + 1 > i
      BY <1>1, <1>3
    <3>4. \A j \in 1..(Len(q) - 1) : j > i - 1 => Tail(q)[j].prefix # p
      BY <1>1, <1>3, <2>1, <3>3
    <3> QED
      BY <1>1, <1>3, <3>1, <3>2, <3>4 DEF EndsWith
  <2> QED
    BY <2>2, <2>3
<1> QED
  BY <1>2, <1>3 DEF EndsWith

\* Two queues behind each other
LEMMA TwoQueues ==
  ASSUME NEW w \in Seq(Message), NEW q \in Seq(Message)
  PROVE  /\ w \o q \in Seq(Message)
         /\ \A msg \in Message : w \o Append(q, msg) = Append(w \o q, msg)
         /\ q # << >> => Append(w, Head(q)) \o Tail(q) = w \o q
         /\ w # << >> => /\ w \o q # << >>
                         /\ Head(w \o q) = Head(w)
                         /\ Tail(w \o q) = Tail(w) \o q
<1>1. w \o q \in Seq(Message)
  BY ConcatProperties
<1>2. ASSUME NEW msg \in Message PROVE w \o Append(q, msg) = Append(w \o q, msg)
  <2>1. <<msg>> \in Seq(Message)
    OBVIOUS
  <2> QED
    BY <1>1, <2>1, AppendIsConcat, ConcatAssociative
<1>3. ASSUME NEW x \in Seq(Message), x # << >> PROVE x = <<Head(x)>> \o Tail(x)
  <2>1. /\ Head(x) \in Message /\ Tail(x) \in Seq(Message)
        /\ Len(Tail(x)) = Len(x) - 1
        /\ \A i \in 1..Len(Tail(x)) : Tail(x)[i] = x[i + 1]
        /\ Len(x) \in Nat /\ Len(x) > 0
        /\ Head(x) = x[1]
    BY <1>3, HeadTailProperties, LenProperties, EmptySeq
  <2> DEFINE h == <<Head(x)>>
  <2>2. h \in Seq(Message) /\ Len(h) = 1 /\ h[1] = Head(x)
    BY <2>1
  <2> HIDE DEF h
  <2>3. /\ h \o Tail(x) \in Seq(Message)
        /\ Len(h \o Tail(x)) = Len(h) + Len(Tail(x))
        /\ \A i \in 1..(Len(h) + Len(Tail(x))) :
             (h \o Tail(x))[i] = IF i <= Len(h) THEN h[i] ELSE Tail(x)[i - Len(h)]
    <3>1. Tail(x) \in Seq(Message) /\ h \in Seq(Message)
      BY <2>1, <2>2
    <3> QED
      BY <3>1, ConcatProperties
  <2>4. /\ h \o Tail(x) \in Seq(Message)
        /\ Len(h \o Tail(x)) = Len(x)
        /\ \A i \in 1..Len(x) :
             (h \o Tail(x))[i] = IF i <= 1 THEN h[i] ELSE Tail(x)[i - 1]
    <3>1. Len(h) + Len(Tail(x)) = Len(x)
      BY <2>1, <2>2
    <3> QED
      BY <2>2, <2>3, <3>1
  <2>5. ASSUME NEW i \in 1..Len(x) PROVE x[i] = (h \o Tail(x))[i]
    <3>1. CASE i = 1
      BY <2>1, <2>2, <2>4, <3>1
    <3>2. CASE i # 1
      <4>1. i - 1 \in 1..Len(Tail(x)) /\ ~(i <= 1) /\ (i - 1) + 1 = i
        BY <2>1, <3>2
      <4> QED
        BY <2>1, <2>4, <4>1
    <3> QED
      BY <3>1, <3>2
  <2>6. x = h \o Tail(x)
    BY <2>4, <2>5, SeqEqual
  <2> QED
    BY <2>6 DEF h
<1>4. ASSUME q # << >> PROVE Append(w, Head(q)) \o Tail(q) = w \o q
  <2>1. /\ Head(q) \in Message /\ Tail(q) \in Seq(Message)
        /\ <<Head(q)>> \in Seq(Message)
    BY <1>4, HeadTailProperties
  <2>2. Append(w, Head(q)) = w \o <<Head(q)>>
    BY <2>1, AppendIsConcat
  <2>3. (w \o <<Head(q)>>) \o Tail(q) = w \o (<<Head(q)>> \o Tail(q))
    BY <2>1, ConcatAssociative
  <2> QED
    BY <1>3, <1>4, <2>2, <2>3
<1>5. ASSUME w # << >>
      PROVE  w \o q # << >> /\ Head(w \o q) = Head(w) /\ Tail(w \o q) = Tail(w) \o q
  <2> DEFINE both == w \o q
             left == Tail(w) \o q
  <2>1. w \o q # << >>
    BY <1>5, ConcatEqualIffEmpty
  <2>2. /\ Len(w) \in Nat /\ Len(w) > 0 /\ Len(q) \in Nat
        /\ Tail(w) \in Seq(Message) /\ Len(Tail(w)) = Len(w) - 1
        /\ \A i \in 1..(Len(w) - 1) : Tail(w)[i] = w[i + 1]
    BY <1>5, HeadTailProperties, LenProperties, EmptySeq
  <2>3. /\ both \in Seq(Message) /\ Len(both) = Len(w) + Len(q)
        /\ \A i \in 1..(Len(w) + Len(q)) :
             both[i] = IF i <= Len(w) THEN w[i] ELSE q[i - Len(w)]
    BY ConcatProperties
  <2>4. /\ left \in Seq(Message) /\ Len(left) = (Len(w) - 1) + Len(q)
        /\ \A i \in 1..((Len(w) - 1) + Len(q)) :
             left[i] = IF i <= Len(w) - 1 THEN Tail(w)[i] ELSE q[i - (Len(w) - 1)]
    BY <2>2, ConcatProperties
  <2> HIDE DEF both, left
  <2>5. /\ Tail(both) \in Seq(Message) /\ Len(Tail(both)) = Len(left)
        /\ \A i \in 1..Len(left) : Tail(both)[i] = both[i + 1]
        /\ Head(both) = both[1]
    <3>1. both # << >>
      BY <2>1 DEF both
    <3> QED
      BY <2>2, <2>3, <2>4, <3>1, HeadTailProperties
  <2>6. ASSUME NEW i \in 1..Len(left) PROVE Tail(both)[i] = left[i]
    <3>1. /\ i + 1 \in 1..(Len(w) + Len(q)) /\ i \in 1..((Len(w) - 1) + Len(q))
          /\ i <= Len(w) - 1 <=> i + 1 <= Len(w)
          /\ i <= Len(w) - 1 => i \in 1..(Len(w) - 1)
          /\ (i + 1) - Len(w) = i - (Len(w) - 1)
      BY <2>2, <2>4
    <3> QED
      BY <2>2, <2>3, <2>4, <2>5, <3>1
  <2>7. Tail(both) = left
    BY <2>4, <2>5, <2>6, SeqEqual
  <2>8. Head(both) = Head(w)
    BY <1>5, <2>2, <2>3, <2>5
  <2> QED
    BY <2>1, <2>7, <2>8 DEF both, left
<1> QED
  BY <1>1, <1>2, <1>4, <1>5

-----------------------------------------------------------------------------
(* The invariant.                                                          *)

Way == Hops \cup {NoRoute}

\* Every variable keeps its type; only connections of the agent with itself can
\* be cut.
TypesOK ==
  /\ up \subseteq Enabled /\ dirty \in BOOLEAN
  /\ kernel \in [Prefixes -> Way]
  /\ sock \in Seq(Message)
  /\ dump \subseteq Prefixes
  /\ overrun \in BOOLEAN
  /\ wire \in [TcpModules -> Seq(Message)]
  /\ cut \subseteq DOMAIN Peer
  /\ table \in [Sinks -> [Prefixes -> Way]]

\* The socket lives with the session of the kernel module.
SocketInv == NLA_KNLM \notin up => sock = << >> /\ dump = {}

\* Unless a fresh start is due, the kernel module comes up last, and until then
\* the peers know nothing.
OrderInv ==
  ~dirty => IF NLA_KNLM \in up THEN subscribers(NLA_KNLM) \subseteq up
            ELSE \A s \in Peers : table[s] = Empty /\ wire[s] = << >>

\* What is under way to s sets its route to p right, or the dump has yet to.
OnItsWay(s, p) ==
  \/ EndsWith(wire[s] \o sock, p, table[s][p], kernel[p])
  \/ p \in dump /\ EndsWith(wire[s] \o sock, p, table[s][p], NoRoute)

RoutesInv ==
  (~dirty /\ NLA_KNLM \in up /\ ~overrun) =>
    \A s \in Peers, p \in Prefixes : OnItsWay(s, p)

Inv == TypesOK /\ SocketInv /\ OrderInv /\ RoutesInv

\* The peers of the agent listen to the kernel, and to nobody else.
PeersListen == \A s \in Peers : NotifyMe[s] = {NLA_KNLM}

LEMMA PeerFacts ==
  ASSUME PeersListen, NEW s \in Peers
  PROVE  /\ s \in Enabled /\ s \in TcpModules /\ s \in Sinks /\ s \notin DOMAIN Peer
         /\ s # NLA_KNLM /\ s # NLA_PRPD_CLIENT
         /\ s \in subscribers(NLA_KNLM)
         /\ \A m : s \in listeners(m) <=> m = NLA_KNLM /\ s \in up
         /\ \A m \in DOMAIN Peer : Peer[m] # s
         /\ s \in Deps[NLA_KNLM]
<1>1. s \in Enabled /\ s \in TcpModules /\ s \in Sinks /\ s \notin DOMAIN Peer
  BY DEF Peers, Sinks
<1>2. s # NLA_KNLM /\ s # NLA_PRPD_CLIENT
  BY <1>1, ModulesAssumption DEF ModulesAssumption, TcpModules
<1>3. NotifyMe[s] = {NLA_KNLM} /\ NotifyMe[NLA_KNLM] = {}
  BY RoutesAssumption DEF PeersListen, RoutesAssumption
<1>4. s \in subscribers(NLA_KNLM) /\ \A m : s \in listeners(m) <=> m = NLA_KNLM /\ s \in up
  BY <1>1, <1>3 DEF subscribers, listeners
<1>5. \A m \in DOMAIN Peer : Peer[m] # s
  BY <1>1, RoutesAssumption DEF RoutesAssumption
<1>6. s \in Deps[NLA_KNLM]
  <2>1. NLA_KNLM \in Modules
    BY DEF Modules
  <2> QED
    BY <1>1, <1>3, <2>1 DEF Deps, Interdependent
<1> QED
  BY <1>1, <1>2, <1>4, <1>5, <1>6

LEMMA StepTypes == ASSUME TypesOK, [Next]_vars PROVE TypesOK'
<1> USE DEF TypesOK
<1>1. ASSUME NEW p \in Prefixes, NEW h \in Way, KernelChange(p, h) PROVE TypesOK'
  <2>1. [prefix |-> p, hop |-> h] \in Message
    BY DEF Message, Way
  <2>2. sock' \in Seq(Message)
    <3>1. Append(sock, [prefix |-> p, hop |-> h]) \in Seq(Message)
      BY <2>1, AppendProperties
    <3>2. sock' = sock \/ sock' = Append(sock, [prefix |-> p, hop |-> h])
      BY <1>1 DEF KernelChange
    <3> QED
      BY <3>1, <3>2
  <2> QED
    BY <1>1, <2>2 DEF KernelChange
<1>2. ASSUME NEW p \in dump, DumpStep(p) PROVE TypesOK'
  <2>1. [prefix |-> p, hop |-> kernel[p]] \in Message
    BY DEF Message, Way
  <2>2. sock' \in Seq(Message)
    BY <1>2, <2>1, AppendProperties DEF DumpStep
  <2> QED
    BY <1>2, <2>2 DEF DumpStep
<1>empty. Empty \in [Prefixes -> Way]
  BY DEF Empty, Way
<1>none. << >> \in Seq(Message)
  OBVIOUS
<1>3. ASSUME Purge PROVE TypesOK'
  BY <1>3, <1>empty DEF Purge
<1>4. ASSUME ChannelLost PROVE TypesOK'
  BY <1>4 DEF ChannelLost
<1>5. ASSUME NEW from, NEW msg \in Message, NEW w \in [TcpModules -> Seq(Message)],
             Dispatch(from, msg, w)
      PROVE  wire' \in [TcpModules -> Seq(Message)] /\ table' \in [Sinks -> [Prefixes -> Way]]
  <2>1. \A m \in TcpModules : Append(w[m], msg) \in Seq(Message)
    BY AppendProperties
  <2>2. ASSUME NEW t \in [Prefixes -> Way] PROVE prpdc_write(t, msg) \in [Prefixes -> Way]
    BY DEF prpdc_write, Message, Way
  <2>3. wire' \in [TcpModules -> Seq(Message)]
    BY <1>5, <2>1 DEF Dispatch
  <2>4. table' \in [Sinks -> [Prefixes -> Way]]
    BY <1>5, <2>2 DEF Dispatch
  <2> QED
    BY <2>3, <2>4
<1>6. ASSUME KnlmRead PROVE TypesOK'
  <2>1. Head(sock) \in Message /\ Tail(sock) \in Seq(Message)
    BY <1>6, HeadTailProperties DEF KnlmRead
  <2> QED
    BY <1>5, <1>6, <2>1 DEF KnlmRead
<1>7. ASSUME NEW m \in TcpModules, Read(m) PROVE TypesOK'
  <2>1. Peer[m] \in TcpModules
    BY <1>7, RoutesAssumption DEF Read, RoutesAssumption
  <2>2. Head(wire[Peer[m]]) \in Message /\ Tail(wire[Peer[m]]) \in Seq(Message)
    BY <1>7, <2>1, HeadTailProperties DEF Read
  <2>3. [wire EXCEPT ![Peer[m]] = Tail(@)] \in [TcpModules -> Seq(Message)]
    BY <2>2
  <2> QED
    BY <1>5, <1>7, <2>2, <2>3 DEF Read
<1>8. ASSUME NEW m \in TcpModules, PeerRead(m) PROVE TypesOK'
  <2>1. Head(wire[m]) \in Message /\ Tail(wire[m]) \in Seq(Message)
    BY <1>8, HeadTailProperties DEF PeerRead
  <2>2. Head(wire[m]).prefix \in Prefixes /\ Head(wire[m]).hop \in Way
    BY <2>1 DEF Message, Way
  <2>3. wire' \in [TcpModules -> Seq(Message)]
    BY <1>8, <2>1 DEF PeerRead
  <2>4. table' \in [Sinks -> [Prefixes -> Way]]
    BY <1>8, <2>2 DEF PeerRead
  <2> QED
    BY <1>8, <2>3, <2>4 DEF PeerRead
<1>9. ASSUME FreshStart PROVE TypesOK'
  <2>1. wire' \in [TcpModules -> Seq(Message)]
    BY <1>9, <1>none DEF FreshStart
  <2>2. table' \in [Sinks -> [Prefixes -> Way]]
    BY <1>9, <1>empty DEF FreshStart, forgotten
  <2> QED
    BY <1>9, <1>none, <2>1, <2>2 DEF FreshStart, Sessions!FreshStart
<1>10. ASSUME NEW m \in Enabled, BringUp(m) PROVE TypesOK'
  BY <1>10 DEF BringUp, Sessions!BringUp
<1>11. ASSUME NEW m \in Enabled, Drop(m) PROVE TypesOK'
  <2>1. ends(m) \ {m} \subseteq DOMAIN Peer
    BY RoutesAssumption DEF RoutesAssumption, ends
  <2>2. cut' \subseteq DOMAIN Peer
    BY <1>11, <2>1 DEF Drop
  <2>3. wire' \in [TcpModules -> Seq(Message)] /\ table' \in [Sinks -> [Prefixes -> Way]]
    <3>1. wire' \in [TcpModules -> Seq(Message)]
      BY <1>11, <1>none DEF Drop
    <3>2. table' \in [Sinks -> [Prefixes -> Way]]
      BY <1>11, <1>empty DEF Drop, forgotten
    <3> QED
      BY <3>1, <3>2
  <2>4. sock' \in Seq(Message) /\ dump' \subseteq Prefixes /\ overrun' \in BOOLEAN
    BY <1>11, <1>none DEF Drop
  <2> QED
    BY <1>11, <2>2, <2>3, <2>4 DEF Drop, Sessions!Drop
<1>12. CASE UNCHANGED vars
  BY <1>12 DEF vars
<1> QED
  BY <1>1, <1>2, <1>3, <1>4, <1>6, <1>7, <1>8, <1>9, <1>10, <1>11, <1>12
  DEF Next, Change, Dumping, Way

\* A peer gets what the dispatcher has from the kernel, and nothing else.
LEMMA PeerDispatch ==
  ASSUME TypesOK, PeersListen, NEW s \in Peers, NEW from, NEW msg, NEW w,
         Dispatch(from, msg, w)
  PROVE  /\ table'[s] = table[s]
         /\ wire'[s] = IF from = NLA_KNLM /\ s \in up THEN Append(w[s], msg) ELSE w[s]
<1>1. s \in TcpModules /\ s \in Sinks /\ s # NLA_PRPD_CLIENT /\ s \notin cut
  BY PeerFacts DEF TypesOK
<1>2. s \in listeners(from) <=> from = NLA_KNLM /\ s \in up
  BY PeerFacts
<1> QED
  BY <1>1, <1>2 DEF Dispatch

\* A message that is read from a connection of the agent with itself is not for
\* the peers.
LEMMA ReadPassesBy ==
  ASSUME TypesOK, PeersListen, NEW m \in TcpModules, Read(m), NEW s \in Peers
  PROVE  table'[s] = table[s] /\ wire'[s] = wire[s]
<1> DEFINE w == [wire EXCEPT ![Peer[m]] = Tail(@)]
<1>1. m # NLA_KNLM
  BY ModulesAssumption DEF ModulesAssumption, TcpModules
<1>2. s \in TcpModules /\ Peer[m] # s
  BY PeerFacts DEF Read
<1>3. w[s] = wire[s]
  BY <1>2 DEF TypesOK
<1>4. Dispatch(m, Head(wire[Peer[m]]), w)
  BY DEF Read
<1> HIDE DEF w
<1> QED
  BY <1>1, <1>3, <1>4, PeerDispatch

LEMMA StepSocket == ASSUME TypesOK, SocketInv, [Next]_vars PROVE SocketInv'
<1> USE DEF SocketInv
<1>1. ASSUME NEW p \in Prefixes, NEW h \in Way, KernelChange(p, h) PROVE SocketInv'
  BY <1>1 DEF KernelChange
<1>2. ASSUME NEW p \in dump, DumpStep(p) PROVE SocketInv'
  BY <1>2 DEF DumpStep
<1>3. CASE Purge \/ ChannelLost \/ KnlmRead \/ \E m \in TcpModules : Read(m) \/ PeerRead(m)
  BY <1>3 DEF Purge, ChannelLost, KnlmRead, Read, PeerRead
<1>4. CASE FreshStart
  BY <1>4 DEF FreshStart
<1>5. ASSUME NEW m \in Enabled, BringUp(m) PROVE SocketInv'
  BY <1>5 DEF BringUp, Sessions!BringUp, flash_requested
<1>6. ASSUME NEW m \in Enabled, Drop(m) PROVE SocketInv'
  BY <1>6 DEF Drop, Sessions!Drop
<1>7. CASE UNCHANGED vars
  BY <1>7 DEF vars
<1> QED
  BY <1>1, <1>2, <1>3, <1>4, <1>5, <1>6, <1>7 DEF Next, Change, Dumping, Way

LEMMA StepOrder ==
  ASSUME PeersListen, TypesOK, OrderInv, [Next]_vars PROVE OrderInv'
<1> USE DEF OrderInv
<1>1. ASSUME UNCHANGED <<up, dirty>>,
             NLA_KNLM \notin up /\ ~dirty =>
               \A s \in Peers : table'[s] = table[s] /\ wire'[s] = wire[s]
      PROVE  OrderInv'
  BY <1>1 DEF subscribers
<1>2. CASE Change \/ Dumping \/ ChannelLost
  BY <1>1, <1>2 DEF Change, KernelChange, Dumping, DumpStep, ChannelLost
<1>3. CASE Purge
  <2>1. \A s \in Peers : s # NLA_PRPD_CLIENT /\ s \in Sinks
    BY PeerFacts
  <2>2. \A s \in Peers : table'[s] = table[s]
    BY <1>3, <2>1 DEF Purge, TypesOK
  <2> QED
    BY <1>1, <1>3, <2>2 DEF Purge
<1>4. CASE KnlmRead
  BY <1>1, <1>4 DEF KnlmRead
<1>5. ASSUME NEW m \in TcpModules, Read(m) PROVE OrderInv'
  BY <1>1, <1>5, ReadPassesBy DEF Read
<1>6. ASSUME NEW m \in TcpModules, PeerRead(m) PROVE OrderInv'
  <2>1. ASSUME NLA_KNLM \notin up, ~dirty, NEW s \in Peers
        PROVE  table'[s] = table[s] /\ wire'[s] = wire[s]
    <3>1. s # m /\ s \in TcpModules /\ s \in Sinks
      BY <1>6, <2>1, PeerFacts DEF PeerRead
    <3> QED
      BY <1>6, <3>1 DEF PeerRead, TypesOK
  <2> QED
    BY <1>1, <1>6, <2>1 DEF PeerRead
<1>7. CASE FreshStart
  <2>1. \A s \in Peers : s \in Enabled /\ s \in Sinks /\ s \in TcpModules
    BY PeerFacts
  <2> QED
    BY <1>7, <2>1 DEF FreshStart, Sessions!FreshStart, forgotten
<1>8. ASSUME NEW m \in Enabled, BringUp(m) PROVE OrderInv'
  <2>1. CASE dirty
    BY <1>8, <2>1 DEF BringUp, Sessions!BringUp
  <2>2. CASE ~dirty /\ NLA_KNLM \in up
    BY <1>8, <2>2 DEF BringUp, Sessions!BringUp, subscribers
  <2>3. CASE ~dirty /\ NLA_KNLM \notin up /\ m # NLA_KNLM
    BY <1>8, <2>3 DEF BringUp, Sessions!BringUp
  <2>4. CASE ~dirty /\ m = NLA_KNLM
    <3>1. subscribers(NLA_KNLM) \subseteq Deps[NLA_KNLM]
      BY RoutesAssumption DEF RoutesAssumption, subscribers, Deps, Interdependent, Modules
    <3> QED
      BY <1>8, <2>4, <3>1 DEF BringUp, Sessions!BringUp, subscribers
  <2> QED
    BY <2>1, <2>2, <2>3, <2>4
<1>9. ASSUME NEW m \in Enabled, Drop(m) PROVE OrderInv'
  BY <1>9 DEF Drop, Sessions!Drop
<1>10. CASE UNCHANGED vars
  BY <1>1, <1>10 DEF vars
<1> QED
  BY <1>2, <1>3, <1>4, <1>5, <1>6, <1>7, <1>8, <1>9, <1>10 DEF Next

-----------------------------------------------------------------------------
(* What is under way.                                                      *)

LEMMA StepRoutes ==
  ASSUME PeersListen, Inv, [Next]_vars PROVE RoutesInv'
<1> USE DEF Inv
<1>1. ASSUME UNCHANGED <<up, dirty, kernel, sock, dump, overrun>>,
             \A s \in Peers : table'[s] = table[s] /\ wire'[s] = wire[s]
      PROVE  RoutesInv'
  BY <1>1 DEF RoutesInv, OnItsWay
<1>0. ASSUME NEW s \in Peers
      PROVE  /\ wire[s] \in Seq(Message) /\ wire[s] \o sock \in Seq(Message)
             /\ sock \in Seq(Message)
             /\ s \in TcpModules /\ s \in Sinks
  BY PeerFacts, TwoQueues DEF TypesOK
<1>2. ASSUME NEW q \in Prefixes, NEW h \in Way, KernelChange(q, h) PROVE RoutesInv'
  <2> SUFFICES ASSUME ~dirty, NLA_KNLM \in up, ~overrun, ~overrun',
                      NEW s \in Peers, NEW p \in Prefixes
               PROVE  OnItsWay(s, p)'
    BY <1>2 DEF RoutesInv, KernelChange
  <2> DEFINE msg == [prefix |-> q, hop |-> h]
  <2>1. msg \in Message
    BY DEF Message, Way
  <2>2. msg.prefix = q /\ msg.hop = h
    OBVIOUS
  <2> HIDE DEF msg
  <2>3. sock' = Append(sock, msg)
    BY <1>2 DEF KernelChange, msg
  <2>4. wire[s] \o sock' = Append(wire[s] \o sock, msg)
    BY <1>0, <2>1, <2>3, TwoQueues
  <2>5. UNCHANGED <<wire, table, dump>> /\ kernel' = [kernel EXCEPT ![q] = h]
    BY <1>2 DEF KernelChange
  <2>6. CASE p = q
    <3>1. EndsWith(wire[s] \o sock', p, table[s][p], h)
      BY <1>0, <2>1, <2>2, <2>4, <2>6, EndsWithAppend
    <3>2. kernel'[p] = h
      BY <2>5, <2>6 DEF TypesOK
    <3> QED
      BY <2>5, <3>1, <3>2 DEF OnItsWay
  <2>7. CASE p # q
    <3>1. OnItsWay(s, p)
      BY DEF RoutesInv
    <3>2. \A after : EndsWith(wire[s] \o sock, p, table[s][p], after)
                       => EndsWith(wire[s] \o sock', p, table[s][p], after)
      BY <1>0, <2>1, <2>2, <2>4, <2>7, EndsWithAppend
    <3>3. kernel'[p] = kernel[p]
      BY <2>5, <2>7 DEF TypesOK
    <3> QED
      BY <2>5, <3>1, <3>2, <3>3 DEF OnItsWay
  <2> QED
    BY <2>6, <2>7
<1>3. ASSUME NEW q \in dump, DumpStep(q) PROVE RoutesInv'
  <2> SUFFICES ASSUME ~dirty, NLA_KNLM \in up, ~overrun,
                      NEW s \in Peers, NEW p \in Prefixes
               PROVE  OnItsWay(s, p)'
    BY <1>3 DEF RoutesInv, DumpStep
  <2>1. OnItsWay(s, p)
    BY DEF RoutesInv
  <2>2. UNCHANGED <<wire, table, kernel>> /\ dump' = dump \ {q}
    BY <1>3 DEF DumpStep
  <2>3. CASE kernel[q] = NoRoute
    <3>1. sock' = sock
      BY <1>3, <2>3 DEF DumpStep
    <3> QED
      BY <2>1, <2>2, <2>3, <3>1 DEF OnItsWay
  <2>4. CASE kernel[q] # NoRoute
    <3> DEFINE msg == [prefix |-> q, hop |-> kernel[q]]
    <3>1. msg \in Message
      BY DEF Message, Way, TypesOK
    <3>2. msg.prefix = q /\ msg.hop = kernel[q]
      OBVIOUS
    <3> HIDE DEF msg
    <3>3. sock' = Append(sock, msg)
      BY <1>3, <2>4 DEF DumpStep, msg
    <3>4. wire[s] \o sock' = Append(wire[s] \o sock, msg)
      BY <1>0, <3>1, <3>3, TwoQueues
    <3>5. CASE p = q
      <4>1. EndsWith(wire[s] \o sock', p, table[s][p], kernel[p])
        BY <1>0, <3>1, <3>2, <3>4, <3>5, EndsWithAppend
      <4> QED
        BY <2>2, <4>1 DEF OnItsWay
    <3>6. CASE p # q
      <4>1. \A after : EndsWith(wire[s] \o sock, p, table[s][p], after)
                         => EndsWith(wire[s] \o sock', p, table[s][p], after)
        BY <1>0, <3>1, <3>2, <3>4, <3>6, EndsWithAppend
      <4> QED
        BY <2>1, <2>2, <3>6, <4>1 DEF OnItsWay
    <3> QED
      BY <3>5, <3>6
  <2> QED
    BY <2>3, <2>4
<1>4. CASE Purge
  <2>1. \A s \in Peers : s # NLA_PRPD_CLIENT
    BY PeerFacts
  <2>2. \A s \in Peers : table'[s] = table[s]
    BY <1>0, <1>4, <2>1 DEF Purge, TypesOK
  <2> QED
    BY <1>1, <1>4, <2>2 DEF Purge
<1>5. CASE ChannelLost
  BY <1>1, <1>5 DEF ChannelLost
<1>6. CASE KnlmRead
  <2> SUFFICES ASSUME ~dirty, NLA_KNLM \in up, ~overrun,
                      NEW s \in Peers, NEW p \in Prefixes
               PROVE  OnItsWay(s, p)'
    BY <1>6 DEF RoutesInv, KnlmRead
  <2>1. OnItsWay(s, p)
    BY DEF RoutesInv
  <2>2. s \in up
    BY PeerFacts DEF OrderInv
  <2>3. table'[s] = table[s] /\ wire'[s] = Append(wire[s], Head(sock))
    BY <1>6, <2>2, PeerDispatch DEF KnlmRead
  <2>4. wire'[s] \o sock' = wire[s] \o sock
    BY <1>0, <1>6, <2>3, TwoQueues DEF KnlmRead
  <2> QED
    BY <1>6, <2>1, <2>3, <2>4 DEF OnItsWay, KnlmRead
<1>7. ASSUME NEW m \in TcpModules, Read(m) PROVE RoutesInv'
  BY <1>1, <1>7, ReadPassesBy DEF Read
<1>8. ASSUME NEW m \in TcpModules, PeerRead(m) PROVE RoutesInv'
  <2> SUFFICES ASSUME ~dirty, NLA_KNLM \in up, ~overrun,
                      NEW s \in Peers, NEW p \in Prefixes
               PROVE  OnItsWay(s, p)'
    BY <1>8 DEF RoutesInv, PeerRead
  <2>1. OnItsWay(s, p) /\ UNCHANGED <<sock, dump, kernel>>
    BY <1>8 DEF RoutesInv, PeerRead
  <2>2. CASE s # m
    <3>1. table'[s] = table[s] /\ wire'[s] = wire[s]
      BY <1>0, <1>8, <2>2 DEF PeerRead, TypesOK
    <3> QED
      BY <2>1, <3>1 DEF OnItsWay
  <2>3. CASE s = m
    <3> DEFINE msg == Head(wire[s])
               both == wire[s] \o sock
    <3>1. wire[s] # << >>
      BY <1>8, <2>3 DEF PeerRead
    <3>2. both # << >> /\ Head(both) = msg /\ Tail(both) = Tail(wire[s]) \o sock
      BY <1>0, <3>1, TwoQueues
    <3>3. wire'[s] = Tail(wire[s])
      BY <1>0, <1>8, <2>3 DEF PeerRead, TypesOK
    <3>4. msg \in Message
      BY <1>0, <3>1, HeadTailProperties
    <3>5. table'[s][p] = IF msg.prefix = p THEN msg.hop ELSE table[s][p]
      <4>1. table[s] \in [Prefixes -> Way]
        BY <1>0 DEF TypesOK
      <4>2. table' = [table EXCEPT ![s][msg.prefix] = msg.hop]
        BY <1>8, <2>3 DEF PeerRead
      <4> QED
        BY <1>0, <4>1, <4>2 DEF TypesOK
    <3> HIDE DEF msg, both
    <3>6. both \in Seq(Message)
      BY <1>0 DEF both
    <3>7. ASSUME NEW after, EndsWith(both, p, table[s][p], after)
          PROVE  EndsWith(wire'[s] \o sock', p, table'[s][p], after)
      <4>1. EndsWith(Tail(both), p, IF Head(both).prefix = p THEN Head(both).hop
                                    ELSE table[s][p], after)
        BY <3>2, <3>6, <3>7, EndsWithTail
      <4> QED
        BY <2>1, <3>2, <3>3, <3>5, <4>1
    <3> QED
      BY <2>1, <3>7 DEF OnItsWay, both
  <2> QED
    BY <2>2, <2>3
<1>9. CASE FreshStart
  BY <1>9 DEF FreshStart, Sessions!FreshStart, RoutesInv
<1>10. ASSUME NEW m \in Enabled, BringUp(m) PROVE RoutesInv'
  <2> SUFFICES ASSUME ~dirty, NLA_KNLM \in up', ~overrun,
                      NEW s \in Peers, NEW p \in Prefixes
               PROVE  OnItsWay(s, p)'
    BY <1>10 DEF RoutesInv, BringUp, Sessions!BringUp
  <2>1. UNCHANGED <<kernel, sock, wire, table>> /\ (dump' = dump \/ dump' = Prefixes)
        /\ up' = up \cup {m} /\ m \notin up /\ Deps[m] \subseteq up
    BY <1>10 DEF BringUp, Sessions!BringUp
  <2>2. CASE NLA_KNLM \in up
    <3>1. OnItsWay(s, p)
      BY <2>2 DEF RoutesInv
    <3> QED
      BY <2>1, <3>1 DEF OnItsWay, TypesOK
  <2>3. CASE NLA_KNLM \notin up
    <3>1. m = NLA_KNLM
      BY <2>1, <2>3
    <3>2. sock = << >> /\ dump = {} /\ table[s] = Empty /\ wire[s] = << >>
      BY <2>3 DEF SocketInv, OrderInv
    <3>3. subscribers(NLA_KNLM) \subseteq Deps[NLA_KNLM]
      BY RoutesAssumption DEF RoutesAssumption, subscribers, Deps, Interdependent, Modules
    <3>4. s \in subscribers(NLA_KNLM)
      BY PeerFacts
    <3>5. flash_requested(m, up')
      BY <2>1, <3>1, <3>3, <3>4 DEF flash_requested
    <3>6. dump' = Prefixes
      BY <1>10, <3>2, <3>5 DEF BringUp
    <3>7. wire'[s] \o sock' = << >> /\ table'[s][p] = NoRoute
      BY <2>1, <3>2 DEF Empty
    <3>8. EndsWith(wire'[s] \o sock', p, table'[s][p], NoRoute)
      BY <3>7, EndsWithNothing
    <3> QED
      BY <3>6, <3>8 DEF OnItsWay
  <2> QED
    BY <2>2, <2>3
<1>11. ASSUME NEW m \in Enabled, Drop(m) PROVE RoutesInv'
  BY <1>11 DEF Drop, Sessions!Drop, RoutesInv
<1>12. CASE UNCHANGED vars
  BY <1>1, <1>12 DEF vars
<1> QED
  BY <1>2, <1>3, <1>4, <1>5, <1>6, <1>7, <1>8, <1>9, <1>10, <1>11, <1>12
  DEF Next, Change, Dumping, Way

-----------------------------------------------------------------------------
\* Peers that listen to the kernel end with its routes (PeersAgree of
\* NlaRoutes): the updates that nla_knlm.c passes on during a dump and the dump
\* itself cannot leave a route out, nor an old one behind, in whatever order
\* the connections came up.
THEOREM PeersEndWithKernel ==
  ASSUME \A s \in Peers : NotifyMe[s] = {NLA_KNLM}
  PROVE  Spec => []PeersAgree
<1>1. PeersListen
  BY DEF PeersListen
<1>2. Init => Inv
  <2> SUFFICES ASSUME Init PROVE Inv
    OBVIOUS
  <2>1. << >> \in Seq(Message) /\ Empty \in [Prefixes -> Way]
    BY DEF Empty, Way
  <2>2. up = {} /\ dirty = TRUE
    BY DEF Init, Sessions!LifeInit
  <2>3. TypesOK
    BY <2>1, <2>2 DEF Init, TypesOK
  <2> QED
    BY <2>2, <2>3 DEF Init, Inv, SocketInv, OrderInv, RoutesInv
<1>3. Inv /\ [Next]_vars => Inv'
  BY <1>1, StepTypes, StepSocket, StepOrder, StepRoutes DEF Inv
<1>4. Inv => PeersAgree
  <2> SUFFICES ASSUME Inv, Settled, NEW s \in Peers PROVE table[s] = kernel
    BY DEF PeersAgree, PeersHaveAll
  <2>1. NLA_KNLM \in up /\ ~dirty /\ ~overrun /\ dump = {}
    BY RoutesAssumption DEF RoutesAssumption, Settled
  <2>2. s \in TcpModules /\ s \in Sinks
    BY <1>1, PeerFacts
  <2>3. wire[s] \o sock = << >>
    BY <2>2 DEF Settled
  <2>4. ASSUME NEW p \in Prefixes PROVE table[s][p] = kernel[p]
    <3>1. EndsWith(wire[s] \o sock, p, table[s][p], kernel[p])
      BY <2>1 DEF Inv, RoutesInv, OnItsWay
    <3> QED
      BY <2>3, <3>1, EndsWithNothing
  <2>5. table[s] \in [Prefixes -> Way] /\ kernel \in [Prefixes -> Way]
    BY <2>2 DEF Inv, TypesOK
  <2> QED
    BY <2>4, <2>5
<1> QED
  BY <1>2, <1>3, <1>4, PTL DEF Spec

-----------------------------------------------------------------------------
(* The daemon's way.  It may lead through the agent's connections with     *)
(* itself, as in the demo of the README.                                   *)

\* Who dispatches after j connections, and who is dispatched to
src(j) == IF j = 0 THEN NLA_KNLM ELSE Peer[path[j]]
dst(j) == IF j = Len(path) THEN NLA_PRPD_CLIENT ELSE path[j + 1]

Stages == 0..Len(path)

\* PathToDaemon of NlaRoutes, in these terms
OnPath ==
  /\ NLA_PRPD_CLIENT \in Enabled
  /\ path \in Seq(DOMAIN Peer)
  /\ \A i, j \in 1..Len(path) : path[i] = path[j] => i = j
  /\ \A j \in Stages :
       /\ NotifyMe[dst(j)] = {src(j)}
       /\ dst(j) = src(j) \/ ~Interdependent(src(j), dst(j))

\* What waits before the dispatcher's step j
Queue(j) == IF j = 0 THEN sock ELSE wire[path[j]]

\* The last message of q for p brings a route.
Adds(q, p) == \E h \in Hops : EndsWith(q, p, NoRoute, h)
Silent(q, p) == \A i \in 1..Len(q) : q[i].prefix # p

LEMMA QueueGrows ==
  ASSUME NEW q \in Seq(Message), NEW msg \in Message, NEW p
  PROVE  /\ msg.prefix = p /\ msg.hop # NoRoute => Adds(Append(q, msg), p)
         /\ msg.prefix # p /\ Adds(q, p) => Adds(Append(q, msg), p)
         /\ msg.prefix # p /\ Silent(q, p) => Silent(Append(q, msg), p)
<1>1. msg.hop # NoRoute => msg.hop \in Hops
  BY DEF Message
<1>2. msg.prefix # p /\ Silent(q, p) => Silent(Append(q, msg), p)
  <2>1. /\ Len(q) \in Nat
        /\ Len(Append(q, msg)) = Len(q) + 1
        /\ \A i \in 1..Len(q) : Append(q, msg)[i] = q[i]
        /\ Append(q, msg)[Len(q) + 1] = msg
    BY AppendProperties, LenProperties
  <2>2. \A i \in 1..(Len(q) + 1) : i = Len(q) + 1 \/ i \in 1..Len(q)
    BY <2>1
  <2> QED
    BY <2>1, <2>2 DEF Silent
<1> QED
  BY <1>1, <1>2, EndsWithAppend DEF Adds

\* If the first message is the one that decides, nothing else is for its prefix.
LEMMA QueueShrinks ==
  ASSUME NEW q \in Seq(Message), q # << >>, NEW p
  PROVE  /\ Tail(q) \in Seq(Message) /\ Head(q) \in Message
         /\ Adds(q, p) => \/ Adds(Tail(q), p)
                          \/ /\ Head(q).prefix = p /\ Head(q).hop # NoRoute
                             /\ Silent(Tail(q), p)
         /\ Silent(q, p) => Head(q).prefix # p /\ Silent(Tail(q), p)
<1>1. /\ Len(q) \in Nat /\ Len(q) > 0
      /\ Tail(q) \in Seq(Message) /\ Head(q) \in Message
      /\ Len(Tail(q)) = Len(q) - 1
      /\ \A i \in 1..(Len(q) - 1) : Tail(q)[i] = q[i + 1]
      /\ Head(q) = q[1]
  BY HeadTailProperties, LenProperties, EmptySeq
<1>2. Silent(q, p) => Head(q).prefix # p /\ Silent(Tail(q), p)
  <2>1. 1 \in 1..Len(q) /\ \A i \in 1..(Len(q) - 1) : i + 1 \in 1..Len(q)
    BY <1>1
  <2> QED
    BY <1>1, <2>1 DEF Silent
<1>3. ASSUME NEW h \in Hops, EndsWith(q, p, NoRoute, h)
      PROVE  \/ Adds(Tail(q), p)
             \/ Head(q).prefix = p /\ Head(q).hop # NoRoute /\ Silent(Tail(q), p)
  <2>1. EndsWith(Tail(q), p, IF Head(q).prefix = p THEN Head(q).hop ELSE NoRoute, h)
    BY <1>3, EndsWithTail
  <2>2. h # NoRoute
    BY RoutesAssumption DEF RoutesAssumption
  <2> QED
    BY <2>1, <2>2 DEF EndsWith, Adds, Silent
<1> QED
  BY <1>1, <1>2, <1>3 DEF Adds

\* A route of the kernel that the dump has passed is in a queue before the
\* daemon, and no queue behind has a message that takes it back, or else the
\* daemon has it.
Known(p) ==
  \/ kernel[p] = NoRoute \/ p \in dump
  \/ \E j \in Stages :
       Adds(Queue(j), p) /\ \A i \in Stages : i < j => Silent(Queue(i), p)
  \/ /\ \A i \in Stages : Silent(Queue(i), p)
     /\ NLA_PRPD_CLIENT \in up /\ table[NLA_PRPD_CLIENT][p] # NoRoute

KnownInv ==
  (~dirty /\ NLA_KNLM \in up /\ ~overrun /\ ~broken) => \A p \in Prefixes : Known(p)

\* Until a fresh start is due no connection is cut, and whoever is up finds the
\* one up that it dispatches to.
WayInv ==
  ~dirty => cut = {} /\ \A j \in Stages : src(j) \in up => dst(j) \in up

ChannelInv == broken => NLA_PRPD_CLIENT \in up

DaemonInv == TypesOK /\ SocketInv /\ WayInv /\ ChannelInv /\ KnownInv

LEMMA PathFacts ==
  ASSUME OnPath
  PROVE  /\ Len(path) \in Nat /\ 0 \in Stages /\ Len(path) \in Stages
         /\ NLA_PRPD_CLIENT \in Sinks
         /\ \A j \in 1..Len(path) :
              /\ path[j] \in DOMAIN Peer /\ path[j] \in TcpModules
              /\ path[j] # NLA_PRPD_CLIENT /\ path[j] \notin Sinks
         /\ \A j \in Stages :
              /\ src(j) \in Modules /\ dst(j) \in Enabled
              /\ \A m : dst(j) \in listeners(m) <=> m = src(j) /\ dst(j) \in up
              /\ j # 0 => /\ path[j] \in DOMAIN Peer /\ src(j) = Peer[path[j]]
                           /\ Peer[src(j)] = path[j] /\ src(j) # NLA_KNLM
                           /\ path[j] = dst(j - 1) /\ j - 1 \in Stages
              /\ j # Len(path) => dst(j) = path[j + 1] /\ j + 1 \in Stages
              /\ dst(j) = src(j) \/ dst(j) \in Deps[src(j)]
<1>1. /\ Len(path) \in Nat
      /\ \A j \in 1..Len(path) : path[j] \in DOMAIN Peer /\ path[j] \in TcpModules
  <2>1. \A j \in 1..Len(path) : path[j] \in DOMAIN Peer
    BY ElementOfSeq DEF OnPath
  <2> QED
    BY <2>1, LenProperties, RoutesAssumption DEF RoutesAssumption
<1>2. 0 \in Stages /\ Len(path) \in Stages
  BY <1>1 DEF Stages
<1>3. \A m \in TcpModules : m # NLA_PRPD_CLIENT /\ m # NLA_KNLM
  BY ModulesAssumption DEF ModulesAssumption, TcpModules
<1>4. NLA_PRPD_CLIENT \in Sinks /\ NLA_PRPD_CLIENT \in Enabled
  BY DEF Sinks, OnPath
<1>5. \A j \in 1..Len(path) : path[j] \notin Sinks /\ path[j] # NLA_PRPD_CLIENT
  BY <1>1, <1>3 DEF Sinks, Peers
<1>6. ASSUME NEW j \in Stages
      PROVE  /\ src(j) \in Modules /\ dst(j) \in Enabled
             /\ \A m : dst(j) \in listeners(m) <=> m = src(j) /\ dst(j) \in up
             /\ j # 0 => /\ path[j] \in DOMAIN Peer /\ src(j) = Peer[path[j]]
                          /\ Peer[src(j)] = path[j] /\ src(j) # NLA_KNLM
                          /\ path[j] = dst(j - 1) /\ j - 1 \in Stages
             /\ j # Len(path) => dst(j) = path[j + 1] /\ j + 1 \in Stages
             /\ dst(j) = src(j) \/ dst(j) \in Deps[src(j)]
  <2>0. /\ j \in Nat
        /\ j # 0 => j \in 1..Len(path) /\ j - 1 \in Stages
                    /\ j - 1 # Len(path) /\ (j - 1) + 1 = j
        /\ j # Len(path) => j + 1 \in 1..Len(path) /\ j + 1 \in Stages
    BY <1>1 DEF Stages
  <2>1. j # 0 => path[j] \in DOMAIN Peer /\ src(j) = Peer[path[j]]
    <3> SUFFICES ASSUME j # 0 PROVE path[j] \in DOMAIN Peer /\ src(j) = Peer[path[j]]
      OBVIOUS
    <3>1. j \in 1..Len(path)
      BY <2>0
    <3> QED
      BY <1>1, <3>1 DEF src
  <2>2. j # 0 => /\ Peer[src(j)] = path[j] /\ src(j) \in TcpModules /\ src(j) # NLA_KNLM
    BY <1>3, <2>1, RoutesAssumption DEF RoutesAssumption
  <2>3. src(j) \in Modules
    <3>1. j = 0 => src(j) = NLA_KNLM
      BY DEF src
    <3> QED
      BY <2>2, <3>1 DEF Modules, TcpModules
  <2>4. j # 0 => path[j] = dst(j - 1) /\ j - 1 \in Stages
    <3> SUFFICES ASSUME j # 0 PROVE path[j] = dst(j - 1) /\ j - 1 \in Stages
      OBVIOUS
    <3>1. dst(j - 1) = path[(j - 1) + 1]
      BY <2>0 DEF dst
    <3> QED
      BY <2>0, <3>1
  <2>5. j # Len(path) => dst(j) = path[j + 1] /\ j + 1 \in 1..Len(path) /\ j + 1 \in Stages
    <3>1. j # Len(path) => dst(j) = path[j + 1]
      BY DEF dst
    <3> QED
      BY <2>0, <3>1
  <2>6. dst(j) \in Enabled
    <3>1. j = Len(path) => dst(j) = NLA_PRPD_CLIENT
      BY DEF dst
    <3> QED
      BY <1>1, <1>4, <2>5, <3>1, RoutesAssumption DEF RoutesAssumption
  <2>7. /\ NotifyMe[dst(j)] = {src(j)}
        /\ dst(j) = src(j) \/ ~Interdependent(src(j), dst(j))
    BY DEF OnPath
  <2>8. \A m : dst(j) \in listeners(m) <=> m = src(j) /\ dst(j) \in up
    BY <2>6, <2>7 DEF listeners
  <2>9. dst(j) = src(j) \/ dst(j) \in Deps[src(j)]
    BY <2>3, <2>6, <2>7 DEF Deps
  <2> QED
    BY <2>1, <2>2, <2>3, <2>4, <2>5, <2>6, <2>8, <2>9
<1> QED
  BY <1>1, <1>2, <1>4, <1>5, <1>6

\* No two stages have the same source or the same queue.
LEMMA StagesDiffer ==
  ASSUME OnPath, NEW i \in Stages, NEW j \in Stages
  PROVE  /\ src(i) = src(j) => i = j
         /\ i # 0 /\ j # 0 /\ path[i] = path[j] => i = j
<1>1. i # 0 /\ j # 0 /\ path[i] = path[j] => i = j
  <2>1. Len(path) \in Nat
    BY PathFacts
  <2>2. i # 0 /\ j # 0 => i \in 1..Len(path) /\ j \in 1..Len(path)
    BY <2>1 DEF Stages
  <2> QED
    BY <2>2 DEF OnPath
<1>2. /\ i # 0 => Peer[src(i)] = path[i] /\ src(i) # NLA_KNLM
      /\ j # 0 => Peer[src(j)] = path[j] /\ src(j) # NLA_KNLM
  BY PathFacts
<1>3. /\ i = 0 => src(i) = NLA_KNLM
      /\ j = 0 => src(j) = NLA_KNLM
  BY DEF src
<1> QED
  BY <1>1, <1>2, <1>3

LEMMA QueueTypes ==
  ASSUME OnPath, TypesOK, NEW j \in Stages
  PROVE  Queue(j) \in Seq(Message)
<1>1. j # 0 => path[j] \in TcpModules
  BY PathFacts, RoutesAssumption DEF RoutesAssumption
<1> QED
  BY <1>1 DEF Queue, TypesOK

\* One message more in the socket brings its own route,
LEMMA SockBrings ==
  ASSUME OnPath, TypesOK, NEW msg \in Message, sock' = Append(sock, msg),
         msg.hop # NoRoute
  PROVE  Known(msg.prefix)'
<1>1. 0 \in Stages /\ \A i \in Stages : ~(i < 0)
  BY PathFacts DEF Stages
<1>2. Adds(Append(sock, msg), msg.prefix)
  BY QueueGrows DEF TypesOK
<1>3. Adds(Queue(0)', msg.prefix)
  BY <1>2 DEF Queue
<1> QED
  BY <1>1, <1>3 DEF Known, Adds

\* and leaves the others where they are.
LEMMA SockGrows ==
  ASSUME OnPath, TypesOK, NEW msg \in Message, sock' = Append(sock, msg),
         UNCHANGED <<wire, table, up>>, NEW p \in Prefixes,
         msg.prefix # p, Known(p), kernel'[p] = kernel[p],
         p \notin dump \/ p \in dump'
  PROVE  Known(p)'
<1>1. /\ Queue(0) = sock /\ Queue(0)' = sock' /\ sock \in Seq(Message)
      /\ \A i \in Stages : i # 0 => Queue(i)' = Queue(i)
  BY DEF Queue, TypesOK
<1>2. \A i \in Stages : Silent(Queue(i), p) => Silent(Queue(i)', p)
  BY <1>1, QueueGrows
<1>3. \A i \in Stages : Adds(Queue(i), p) => Adds(Queue(i)', p)
  BY <1>1, QueueGrows
<1>4. CASE kernel[p] = NoRoute \/ p \in dump
  BY <1>4 DEF Known
<1>5. ASSUME NEW j \in Stages, Adds(Queue(j), p),
             \A i \in Stages : i < j => Silent(Queue(i), p)
      PROVE  Known(p)'
  <2>1. Adds(Queue(j)', p) /\ \A i \in Stages : i < j => Silent(Queue(i)', p)
    BY <1>2, <1>3, <1>5
  <2> QED
    BY <2>1 DEF Known, Adds, Silent
<1>6. CASE /\ \A i \in Stages : Silent(Queue(i), p)
           /\ NLA_PRPD_CLIENT \in up /\ table[NLA_PRPD_CLIENT][p] # NoRoute
  BY <1>2, <1>6 DEF Known, Silent
<1> QED
  BY <1>4, <1>5, <1>6 DEF Known

\* A message that goes from one queue to the next, or to the daemon, takes what
\* it says about its route along.
LEMMA MessageMoves ==
  ASSUME OnPath, TypesOK, NEW j \in Stages, Queue(j) # << >>,
         Queue(j)' = Tail(Queue(j)),
         \A i \in Stages : i # j /\ i # j + 1 => Queue(i)' = Queue(i),
         j # Len(path) => /\ Queue(j + 1)' = Append(Queue(j + 1), Head(Queue(j)))
                          /\ table'[NLA_PRPD_CLIENT] = table[NLA_PRPD_CLIENT],
         j = Len(path) => /\ table'[NLA_PRPD_CLIENT]
                               = prpdc_write(table[NLA_PRPD_CLIENT], Head(Queue(j)))
                          /\ NLA_PRPD_CLIENT \in up,
         UNCHANGED <<kernel, dump, up>>,
         NEW p \in Prefixes, Known(p)
  PROVE  Known(p)'
<1> DEFINE msg == Head(Queue(j))
<1>0. /\ Len(path) \in Nat /\ Stages \subseteq Nat
      /\ j # Len(path) => j + 1 \in Stages
      /\ \A i \in Stages : j = Len(path) => i # j + 1
  BY PathFacts DEF Stages
<1>1. /\ msg \in Message
      /\ Adds(Queue(j), p) => \/ Adds(Queue(j)', p)
                              \/ /\ msg.prefix = p /\ msg.hop # NoRoute
                                 /\ Silent(Queue(j)', p)
      /\ Silent(Queue(j), p) => msg.prefix # p /\ Silent(Queue(j)', p)
  BY QueueTypes, QueueShrinks
<1>2. ASSUME j # Len(path)
      PROVE  /\ msg.prefix = p /\ msg.hop # NoRoute => Adds(Queue(j + 1)', p)
             /\ msg.prefix # p /\ Adds(Queue(j + 1), p) => Adds(Queue(j + 1)', p)
             /\ msg.prefix # p /\ Silent(Queue(j + 1), p) => Silent(Queue(j + 1)', p)
  <2> DEFINE q == Queue(j + 1)
  <2>1. q \in Seq(Message) /\ Queue(j + 1)' = Append(q, msg)
    BY <1>0, <1>2, QueueTypes
  <2>2. msg \in Message
    BY <1>1
  <2> HIDE DEF q, msg
  <2>3. /\ msg.prefix = p /\ msg.hop # NoRoute => Adds(Append(q, msg), p)
        /\ msg.prefix # p /\ Adds(q, p) => Adds(Append(q, msg), p)
        /\ msg.prefix # p /\ Silent(q, p) => Silent(Append(q, msg), p)
    BY <2>1, <2>2, QueueGrows
  <2> QED
    BY <2>1, <2>3 DEF q
<1> HIDE DEF msg
<1>3. ASSUME NEW n \in Stages, Adds(Queue(n)', p),
             \A i \in Stages : i < n => Silent(Queue(i)', p)
      PROVE  Known(p)'
  BY <1>3 DEF Known, Adds, Silent
<1>4. ASSUME \A i \in Stages : Silent(Queue(i)', p),
             NLA_PRPD_CLIENT \in up, table'[NLA_PRPD_CLIENT][p] # NoRoute
      PROVE  Known(p)'
  BY <1>4 DEF Known, Silent
<1>5. CASE kernel[p] = NoRoute \/ p \in dump
  BY <1>5 DEF Known
<1>6. ASSUME NEW n \in Stages, Adds(Queue(n), p),
             \A i \in Stages : i < n => Silent(Queue(i), p)
      PROVE  Known(p)'
  <2>1. CASE n < j
    <3>1. \A i \in Stages : i <= n => i # j /\ i # j + 1
      BY <1>0, <2>1
    <3>2. Queue(n)' = Queue(n) /\ \A i \in Stages : i < n => Queue(i)' = Queue(i)
      BY <1>0, <3>1
    <3> QED
      BY <1>3, <1>6, <3>2
  <2>2. CASE n = j
    <3>1. \A i \in Stages : i < j => Silent(Queue(i)', p)
      <4>1. \A i \in Stages : i < j => i # j /\ i # j + 1
        BY <1>0
      <4> QED
        BY <1>6, <2>2, <4>1
    <3>2. CASE Adds(Queue(j)', p)
      BY <1>3, <3>1, <3>2
    <3>3. CASE msg.prefix = p /\ msg.hop # NoRoute /\ Silent(Queue(j)', p)
      <4>1. CASE j # Len(path)
        <5>1. \A i \in Stages : i < j + 1 => i = j \/ i < j
          BY <1>0
        <5>2. \A i \in Stages : i < j + 1 => Silent(Queue(i)', p)
          BY <3>1, <3>3, <5>1
        <5> QED
          BY <1>0, <1>2, <1>3, <3>3, <4>1, <5>2
      <4>2. CASE j = Len(path)
        <5>1. \A i \in Stages : i = j \/ i < j
          BY <1>0, <4>2 DEF Stages
        <5>2. \A i \in Stages : Silent(Queue(i)', p)
          BY <3>1, <3>3, <5>1
        <5>3. table'[NLA_PRPD_CLIENT][p] # NoRoute
          <6>1. table[NLA_PRPD_CLIENT] \in [Prefixes -> Way]
            BY PathFacts DEF TypesOK
          <6>2. table'[NLA_PRPD_CLIENT] = prpdc_write(table[NLA_PRPD_CLIENT], msg)
            BY <4>2 DEF msg
          <6> QED
            BY <3>3, <6>1, <6>2 DEF prpdc_write
        <5> QED
          BY <1>4, <4>2, <5>2, <5>3
      <4> QED
        BY <4>1, <4>2
    <3> QED
      BY <1>1, <1>6, <2>2, <3>2, <3>3
  <2>3. CASE n > j
    <3>1. msg.prefix # p /\ Silent(Queue(j)', p)
      BY <1>1, <1>6, <2>3
    <3>2. j # Len(path) /\ j + 1 <= n
      BY <1>0, <2>3 DEF Stages
    <3>3. \A i \in Stages : i < n => Silent(Queue(i)', p)
      BY <1>2, <1>6, <3>1, <3>2
    <3>4. Adds(Queue(n)', p)
      <4>1. n # j
        BY <1>0, <2>3
      <4> QED
        BY <1>2, <1>6, <3>1, <3>2, <4>1
    <3> QED
      BY <1>3, <3>3, <3>4
  <2> QED
    BY <1>0, <2>1, <2>2, <2>3
<1>7. CASE /\ \A i \in Stages : Silent(Queue(i), p)
           /\ NLA_PRPD_CLIENT \in up /\ table[NLA_PRPD_CLIENT][p] # NoRoute
  <2>1. msg.prefix # p /\ Silent(Queue(j)', p)
    BY <1>1, <1>7
  <2>2. \A i \in Stages : Silent(Queue(i)', p)
    BY <1>0, <1>2, <1>7, <2>1
  <2>3. table'[NLA_PRPD_CLIENT][p] # NoRoute
    <3>1. table[NLA_PRPD_CLIENT] \in [Prefixes -> Way]
      BY PathFacts DEF TypesOK
    <3>2. j = Len(path) => table'[NLA_PRPD_CLIENT] = prpdc_write(table[NLA_PRPD_CLIENT], msg)
      BY DEF msg
    <3>3. prpdc_write(table[NLA_PRPD_CLIENT], msg)[p] = table[NLA_PRPD_CLIENT][p]
      BY <2>1, <3>1 DEF prpdc_write
    <3> QED
      BY <1>7, <3>2, <3>3
  <2> QED
    BY <1>4, <1>7, <2>2, <2>3
<1> QED
  BY <1>5, <1>6, <1>7 DEF Known

\* What the dispatcher does to the queues on the way, and to the daemon
LEMMA WayDispatch ==
  ASSUME OnPath, TypesOK, cut = {},
         NEW from, NEW msg, NEW w \in [TcpModules -> Seq(Message)], Dispatch(from, msg, w)
  PROVE  /\ \A j \in Stages : j # Len(path) =>
              wire'[path[j + 1]] = IF from = src(j) /\ dst(j) \in up
                                   THEN Append(w[path[j + 1]], msg) ELSE w[path[j + 1]]
         /\ table'[NLA_PRPD_CLIENT] =
              IF from = src(Len(path)) /\ NLA_PRPD_CLIENT \in up /\ ~broken
              THEN prpdc_write(table[NLA_PRPD_CLIENT], msg) ELSE table[NLA_PRPD_CLIENT]
<1>1. ASSUME NEW j \in Stages, j # Len(path)
      PROVE  wire'[path[j + 1]] = IF from = src(j) /\ dst(j) \in up
                                  THEN Append(w[path[j + 1]], msg) ELSE w[path[j + 1]]
  <2>1. dst(j) = path[j + 1] /\ j + 1 \in 1..Len(path)
    BY <1>1, PathFacts DEF Stages
  <2>2. path[j + 1] \in TcpModules
    BY <2>1, PathFacts
  <2>3. path[j + 1] \in listeners(from) <=> from = src(j) /\ dst(j) \in up
    BY <2>1, PathFacts
  <2> QED
    BY <2>2, <2>3 DEF Dispatch
<1>2. table'[NLA_PRPD_CLIENT] =
        IF from = src(Len(path)) /\ NLA_PRPD_CLIENT \in up /\ ~broken
        THEN prpdc_write(table[NLA_PRPD_CLIENT], msg) ELSE table[NLA_PRPD_CLIENT]
  <2>1. NLA_PRPD_CLIENT \in Sinks /\ Len(path) \in Stages
    BY PathFacts
  <2>2. dst(Len(path)) = NLA_PRPD_CLIENT
    BY DEF dst
  <2>3. NLA_PRPD_CLIENT \in listeners(from) <=> from = src(Len(path)) /\ NLA_PRPD_CLIENT \in up
    BY <2>1, <2>2, PathFacts
  <2> QED
    BY <2>1, <2>3 DEF Dispatch
<1> QED
  BY <1>1, <1>2

\* A stage takes the first message of its queue, and nobody else's.
LEMMA StageReads ==
  ASSUME OnPath, TypesOK, WayInv, ~dirty, ~broken, NEW j \in Stages,
         Queue(j) # << >>, src(j) \in up,
         IF j = 0 THEN KnlmRead ELSE Read(src(j)),
         NEW p \in Prefixes, Known(p)
  PROVE  Known(p)'
<1> DEFINE w == IF j = 0 THEN wire ELSE [wire EXCEPT ![path[j]] = Tail(@)]
<1>1. cut = {} /\ dst(j) \in up
  BY DEF WayInv
<1>2. j # 0 => /\ path[j] \in TcpModules /\ Peer[src(j)] = path[j]
               /\ wire[path[j]] \in Seq(Message)
  BY PathFacts, RoutesAssumption DEF RoutesAssumption, TypesOK
<1>3. Queue(j) \in Seq(Message) /\ Tail(Queue(j)) \in Seq(Message)
  BY QueueTypes, HeadTailProperties
<1>4. /\ Dispatch(src(j), Head(Queue(j)), w)
      /\ sock' = IF j = 0 THEN Tail(sock) ELSE sock
      /\ UNCHANGED <<kernel, dump, up>>
  BY <1>2 DEF KnlmRead, Read, Queue, src
<1>5. w \in [TcpModules -> Seq(Message)]
  BY <1>3 DEF Queue, TypesOK
<1>6. ASSUME NEW i \in Stages, i # 0
      PROVE  /\ path[i] = path[(i - 1) + 1] /\ i - 1 \in Stages /\ i - 1 # Len(path)
             /\ path[i] \in TcpModules /\ (src(j) = src(i - 1) <=> j = i - 1)
             /\ Queue(i) = wire[path[i]] /\ Queue(i)' = wire'[path[i]]
             /\ w[path[i]] = IF i = j THEN Tail(Queue(j)) ELSE Queue(i)
  <2>1. i - 1 \in Stages /\ i \in 1..Len(path) /\ (i - 1) + 1 = i /\ i - 1 # Len(path)
    BY <1>6, PathFacts DEF Stages
  <2>2. path[i] \in TcpModules /\ (src(j) = src(i - 1) <=> j = i - 1)
    BY <2>1, PathFacts, StagesDiffer
  <2>3. Queue(i) = wire[path[i]] /\ Queue(i)' = wire'[path[i]]
    BY <1>6 DEF Queue
  <2>4. w[path[i]] = IF i = j THEN Tail(Queue(j)) ELSE Queue(i)
    <3>1. j # 0 /\ path[i] = path[j] => i = j
      BY <1>6, StagesDiffer
    <3> QED
      BY <1>2, <1>6, <2>2, <2>3, <3>1 DEF TypesOK
  <2> QED
    BY <2>1, <2>2, <2>3, <2>4
<1> HIDE DEF w
<1>7. ASSUME NEW i \in Stages, i # 0
      PROVE  Queue(i)' = IF j = i - 1 THEN Append(w[path[i]], Head(Queue(j))) ELSE w[path[i]]
  <2>1. wire'[path[(i - 1) + 1]] =
          IF src(j) = src(i - 1) /\ dst(i - 1) \in up
          THEN Append(w[path[(i - 1) + 1]], Head(Queue(j))) ELSE w[path[(i - 1) + 1]]
    BY <1>1, <1>4, <1>5, <1>6, <1>7, WayDispatch
  <2> QED
    BY <1>1, <1>6, <1>7, <2>1
<1>8. Queue(j)' = Tail(Queue(j))
  <2>1. CASE j = 0
    BY <1>4, <2>1 DEF Queue
  <2>2. CASE j # 0
    <3>1. j # j - 1
      BY DEF Stages
    <3> QED
      BY <1>6, <1>7, <2>2, <3>1
  <2> QED
    BY <2>1, <2>2
<1>9. ASSUME NEW i \in Stages, i # j, i # j + 1 PROVE Queue(i)' = Queue(i)
  <2>1. CASE i = 0
    BY <1>4, <1>9, <2>1 DEF Queue
  <2>2. CASE i # 0
    <3>1. j # i - 1
      BY <1>9 DEF Stages
    <3> QED
      BY <1>6, <1>7, <1>9, <2>2, <3>1
  <2> QED
    BY <2>1, <2>2
<1>10. src(j) = src(Len(path)) <=> j = Len(path)
  BY PathFacts, StagesDiffer
<1>11. table'[NLA_PRPD_CLIENT] =
         IF src(j) = src(Len(path)) /\ NLA_PRPD_CLIENT \in up /\ ~broken
         THEN prpdc_write(table[NLA_PRPD_CLIENT], Head(Queue(j))) ELSE table[NLA_PRPD_CLIENT]
  BY <1>1, <1>4, <1>5, WayDispatch
<1>12. j = Len(path) => NLA_PRPD_CLIENT \in up
  BY <1>1 DEF dst
<1>13. j # Len(path) => /\ Queue(j + 1)' = Append(Queue(j + 1), Head(Queue(j)))
                        /\ table'[NLA_PRPD_CLIENT] = table[NLA_PRPD_CLIENT]
  <2> SUFFICES ASSUME j # Len(path) PROVE Queue(j + 1)' = Append(Queue(j + 1), Head(Queue(j)))
    BY <1>10, <1>11
  <2>1. j + 1 \in Stages /\ j + 1 # 0 /\ j + 1 # j /\ j = (j + 1) - 1
    BY PathFacts DEF Stages
  <2> QED
    BY <1>6, <1>7, <2>1
<1>14. j = Len(path) => /\ table'[NLA_PRPD_CLIENT]
                              = prpdc_write(table[NLA_PRPD_CLIENT], Head(Queue(j)))
                        /\ NLA_PRPD_CLIENT \in up
  BY <1>10, <1>11, <1>12
<1> QED
  BY <1>4, <1>8, <1>9, <1>13, <1>14, MessageMoves

LEMMA StepWay ==
  ASSUME OnPath, WayInv, ChannelInv, [Next]_vars PROVE WayInv' /\ ChannelInv'
<1> USE DEF WayInv, ChannelInv
<1>1. CASE UNCHANGED <<up, dirty, cut, broken>>
  BY <1>1
<1>2. CASE Change \/ Dumping \/ Purge \/ KnlmRead \/ \E m \in TcpModules : Read(m) \/ PeerRead(m)
  BY <1>1, <1>2 DEF Change, KernelChange, Dumping, DumpStep, Purge, KnlmRead, Read, PeerRead
<1>3. CASE ChannelLost
  BY <1>3 DEF ChannelLost
<1>4. CASE FreshStart
  BY <1>4 DEF FreshStart, Sessions!FreshStart
<1>5. ASSUME NEW m \in Enabled, BringUp(m) PROVE WayInv' /\ ChannelInv'
  <2>1. /\ up' = up \cup {m} /\ dirty' = dirty /\ m \notin up
        /\ dirty \/ Deps[m] \subseteq up
        /\ broken' = (broken /\ m # NLA_PRPD_CLIENT)
        /\ cut' = IF m \in DOMAIN Peer /\ Peer[m] \in cut THEN cut \cup {m} ELSE cut
    BY <1>5 DEF BringUp, Sessions!BringUp
  <2>2. ASSUME ~dirty, NEW j \in Stages, src(j) \in up' PROVE dst(j) \in up'
    <3>1. dst(j) = src(j) \/ dst(j) \in Deps[src(j)]
      BY PathFacts
    <3> QED
      BY <2>1, <2>2, <3>1
  <2>3. WayInv'
    BY <2>1, <2>2
  <2> QED
    BY <2>1, <2>3
<1>6. ASSUME NEW m \in Enabled, Drop(m) PROVE WayInv' /\ ChannelInv'
  BY <1>6 DEF Drop, Sessions!Drop
<1>7. CASE UNCHANGED vars
  BY <1>1, <1>7 DEF vars
<1> QED
  BY <1>2, <1>3, <1>4, <1>5, <1>6, <1>7 DEF Next

LEMMA StepKnown ==
  ASSUME OnPath, DaemonInv, [Next]_vars PROVE KnownInv'
<1> USE DEF DaemonInv
<1> DEFINE Good == ~dirty /\ NLA_KNLM \in up /\ ~overrun /\ ~broken
<1>0. Good => \A p \in Prefixes : Known(p)
  BY DEF KnownInv
<1>1. ASSUME UNCHANGED <<up, kernel, sock, dump>>, Good' => Good,
             \A j \in Stages : j # 0 => wire'[path[j]] = wire[path[j]],
             Good => table'[NLA_PRPD_CLIENT] = table[NLA_PRPD_CLIENT]
      PROVE  KnownInv'
  <2>1. \A j \in Stages : Queue(j)' = Queue(j)
    BY <1>1 DEF Queue
  <2> SUFFICES ASSUME Good, NEW p \in Prefixes, Known(p) PROVE Known(p)'
    BY <1>0, <1>1 DEF KnownInv
  <2> QED
    BY <1>1, <2>1 DEF Known, Adds, Silent
<1>2. ASSUME NEW q \in Prefixes, NEW h \in Way, KernelChange(q, h) PROVE KnownInv'
  <2> SUFFICES ASSUME Good, Good', NEW p \in Prefixes PROVE Known(p)'
    BY <1>2 DEF KnownInv, KernelChange
  <2> DEFINE msg == [prefix |-> q, hop |-> h]
  <2>1. msg \in Message /\ msg.prefix = q /\ msg.hop = h
    BY DEF Message, Way
  <2>2. /\ sock' = Append(sock, msg) /\ UNCHANGED <<wire, table, up, dump>>
        /\ kernel' = [kernel EXCEPT ![q] = h]
    BY <1>2 DEF KernelChange
  <2> HIDE DEF msg
  <2>3. kernel'[q] = h /\ \A r \in Prefixes : r # q => kernel'[r] = kernel[r]
    BY <2>2 DEF TypesOK
  <2>4. CASE p # q
    BY <1>0, <2>1, <2>2, <2>3, <2>4, SockGrows
  <2>5. CASE p = q /\ h # NoRoute
    BY <2>1, <2>2, <2>5, SockBrings
  <2>6. CASE p = q /\ h = NoRoute
    BY <2>3, <2>6 DEF Known
  <2> QED
    BY <2>4, <2>5, <2>6
<1>3. ASSUME NEW q \in dump, DumpStep(q) PROVE KnownInv'
  <2> SUFFICES ASSUME Good, Good', NEW p \in Prefixes PROVE Known(p)'
    BY <1>3 DEF KnownInv, DumpStep
  <2>1. UNCHANGED <<wire, table, kernel, up>> /\ dump' = dump \ {q}
    BY <1>3 DEF DumpStep
  <2>2. Known(p)
    BY <1>0
  <2>3. CASE kernel[q] = NoRoute
    <3>1. sock' = sock
      BY <1>3, <2>3 DEF DumpStep
    <3>2. \A j \in Stages : Queue(j)' = Queue(j)
      BY <2>1, <3>1 DEF Queue
    <3>3. p \in dump => p \in dump' \/ kernel'[p] = NoRoute
      BY <2>1, <2>3
    <3> QED
      BY <2>1, <2>2, <3>2, <3>3 DEF Known, Adds, Silent
  <2>4. CASE kernel[q] # NoRoute
    <3> DEFINE msg == [prefix |-> q, hop |-> kernel[q]]
    <3>1. msg \in Message /\ msg.prefix = q /\ msg.hop = kernel[q]
      BY DEF Message, Way, TypesOK
    <3>2. sock' = Append(sock, msg)
      BY <1>3, <2>4 DEF DumpStep
    <3> HIDE DEF msg
    <3>3. CASE p = q
      BY <2>4, <3>1, <3>2, <3>3, SockBrings
    <3>4. CASE p # q
      <4>1. p \notin dump \/ p \in dump'
        BY <2>1, <3>4
      <4> QED
        BY <2>1, <2>2, <3>1, <3>2, <3>4, <4>1, SockGrows
    <3> QED
      BY <3>3, <3>4
  <2> QED
    BY <2>3, <2>4
<1>4. CASE Purge
  <2> SUFFICES ASSUME Good, NEW p \in Prefixes PROVE Known(p)'
    BY <1>4 DEF KnownInv, Purge
  <2>1. NLA_PRPD_CLIENT \notin up
    BY <1>4 DEF Purge
  <2>2. UNCHANGED <<up, kernel, sock, dump, wire>>
    BY <1>4 DEF Purge
  <2>3. \A j \in Stages : Queue(j)' = Queue(j)
    BY <2>2 DEF Queue
  <2> QED
    BY <1>0, <2>1, <2>2, <2>3 DEF Known, Adds, Silent
<1>5. CASE ChannelLost
  BY <1>5 DEF ChannelLost, KnownInv
<1>6. CASE KnlmRead
  <2> SUFFICES ASSUME Good, NEW p \in Prefixes PROVE Known(p)'
    BY <1>6 DEF KnownInv, KnlmRead
  <2>1. 0 \in Stages /\ src(0) = NLA_KNLM /\ Queue(0) = sock /\ sock # << >>
    BY <1>6, PathFacts DEF src, Queue, KnlmRead
  <2> QED
    BY <1>0, <1>6, <2>1, StageReads
<1>7. ASSUME NEW m \in TcpModules, Read(m) PROVE KnownInv'
  <2> SUFFICES ASSUME Good PROVE KnownInv'
    BY <1>7 DEF KnownInv, Read
  <2>1. CASE \E j \in Stages : j # 0 /\ src(j) = m
    <3> PICK j \in Stages : j # 0 /\ src(j) = m
      BY <2>1
    <3>1. Queue(j) # << >> /\ src(j) \in up /\ Read(src(j))
      <4>1. Peer[src(j)] = path[j]
        BY PathFacts
      <4> QED
        BY <1>7, <4>1 DEF Read, Queue
    <3>2. \A p \in Prefixes : Known(p)'
      BY <1>0, <3>1, StageReads
    <3> QED
      BY <3>2 DEF KnownInv
  <2>2. CASE \A j \in Stages : j # 0 => src(j) # m
    <3> DEFINE w == [wire EXCEPT ![Peer[m]] = Tail(@)]
    <3>1. m \in DOMAIN Peer /\ Peer[m] \in TcpModules /\ Peer[Peer[m]] = m /\ m # NLA_KNLM
      <4>1. m # NLA_KNLM
        BY ModulesAssumption DEF ModulesAssumption, TcpModules
      <4> QED
        BY <1>7, <4>1, RoutesAssumption DEF Read, RoutesAssumption
    <3>2. Tail(wire[Peer[m]]) \in Seq(Message)
      BY <1>7, <3>1, HeadTailProperties DEF Read, TypesOK
    <3>3. w \in [TcpModules -> Seq(Message)]
      BY <3>2 DEF TypesOK
    <3>4. \A j \in Stages : src(j) # m
      BY <2>2, <3>1 DEF src
    <3>5. \A j \in Stages : j # 0 =>
            /\ path[j] # Peer[m] /\ path[j] \in TcpModules
            /\ j - 1 \in Stages /\ j - 1 # Len(path) /\ path[(j - 1) + 1] = path[j]
      <4> SUFFICES ASSUME NEW j \in Stages, j # 0
                   PROVE  /\ path[j] # Peer[m] /\ path[j] \in TcpModules
                          /\ j - 1 \in Stages /\ j - 1 # Len(path) /\ path[(j - 1) + 1] = path[j]
        OBVIOUS
      <4>1. /\ path[j] \in DOMAIN Peer /\ src(j) = Peer[path[j]] /\ j - 1 \in Stages
        BY PathFacts
      <4>2. path[j] # Peer[m]
        BY <3>1, <3>4, <4>1
      <4>3. path[j] \in TcpModules
        BY <4>1, RoutesAssumption DEF RoutesAssumption
      <4>4. (j - 1) + 1 = j /\ j - 1 # Len(path)
        BY PathFacts DEF Stages
      <4> QED
        BY <4>1, <4>2, <4>3, <4>4
    <3>6. /\ Dispatch(m, Head(wire[Peer[m]]), w) /\ cut = {}
          /\ UNCHANGED <<up, dirty, kernel, sock, dump, overrun, broken>>
      BY <1>7 DEF Read, WayInv
    <3>7. \A j \in Stages : j # 0 => w[path[j]] = wire[path[j]]
      BY <3>5 DEF TypesOK
    <3> HIDE DEF w
    <3>8. \A j \in Stages : j # 0 => wire'[path[j]] = wire[path[j]]
      <4> SUFFICES ASSUME NEW j \in Stages, j # 0 PROVE wire'[path[j]] = wire[path[j]]
        OBVIOUS
      <4>1. m # src(j - 1) /\ j - 1 \in Stages /\ j - 1 # Len(path)
        BY <3>4, <3>5
      <4>2. wire'[path[(j - 1) + 1]] = w[path[(j - 1) + 1]]
        BY <3>3, <3>6, <4>1, WayDispatch
      <4> QED
        BY <3>5, <3>7, <4>2
    <3>9. table'[NLA_PRPD_CLIENT] = table[NLA_PRPD_CLIENT]
      <4>1. m # src(Len(path))
        BY <3>4, PathFacts
      <4> QED
        BY <3>3, <3>6, <4>1, WayDispatch
    <3> QED
      BY <1>1, <3>6, <3>8, <3>9
  <2> QED
    BY <2>1, <2>2
<1>8. ASSUME NEW m \in TcpModules, PeerRead(m) PROVE KnownInv'
  <2>1. m \notin DOMAIN Peer /\ m # NLA_PRPD_CLIENT
    BY <1>8, ModulesAssumption DEF PeerRead, Peers, ModulesAssumption, TcpModules
  <2>2. \A j \in Stages : j # 0 => path[j] # m /\ path[j] \in TcpModules
    BY <2>1, PathFacts, RoutesAssumption DEF RoutesAssumption
  <2>3. \A j \in Stages : j # 0 => wire'[path[j]] = wire[path[j]]
    BY <1>8, <2>2 DEF PeerRead, TypesOK
  <2>4. table'[NLA_PRPD_CLIENT] = table[NLA_PRPD_CLIENT]
    BY <1>8, <2>1, PathFacts DEF PeerRead, TypesOK
  <2> QED
    BY <1>1, <1>8, <2>3, <2>4 DEF PeerRead
<1>9. CASE FreshStart
  BY <1>9 DEF FreshStart, Sessions!FreshStart, KnownInv
<1>10. ASSUME NEW m \in Enabled, BringUp(m) PROVE KnownInv'
  <2> SUFFICES ASSUME Good', NEW p \in Prefixes PROVE Known(p)'
    BY DEF KnownInv
  <2>1. /\ UNCHANGED <<dirty, kernel, sock, overrun, wire, table>>
        /\ (dump' = dump \/ dump' = Prefixes)
        /\ up' = up \cup {m} /\ m \notin up /\ (dirty \/ Deps[m] \subseteq up)
        /\ broken' = (broken /\ m # NLA_PRPD_CLIENT)
    BY <1>10 DEF BringUp, Sessions!BringUp
  <2>2. \A j \in Stages : Queue(j)' = Queue(j)
    BY <2>1 DEF Queue
  <2>3. CASE NLA_KNLM \in up
    <3>1. Good
      BY <2>1, <2>3 DEF ChannelInv
    <3>2. Known(p)
      BY <1>0, <3>1
    <3> QED
      BY <2>1, <2>2, <3>2 DEF Known, Adds, Silent
  <2>4. CASE NLA_KNLM \notin up
    <3>1. m = NLA_KNLM /\ dump = {}
      BY <2>1, <2>4 DEF SocketInv
    <3>2. subscribers(NLA_KNLM) \subseteq Deps[NLA_KNLM]
      BY RoutesAssumption DEF RoutesAssumption, subscribers, Deps, Interdependent, Modules
    <3>3. dst(0) \in subscribers(NLA_KNLM)
      <4>1. 0 \in Stages /\ dst(0) \in Enabled
        BY PathFacts
      <4>2. NotifyMe[dst(0)] = {NLA_KNLM}
        BY <4>1 DEF OnPath, src
      <4> QED
        BY <4>1, <4>2 DEF subscribers
    <3>4. flash_requested(m, up')
      BY <2>1, <3>1, <3>2, <3>3 DEF flash_requested
    <3>5. dump' = Prefixes
      BY <1>10, <3>1, <3>4 DEF BringUp
    <3> QED
      BY <3>5 DEF Known
  <2> QED
    BY <2>3, <2>4
<1>11. ASSUME NEW m \in Enabled, Drop(m) PROVE KnownInv'
  BY <1>11 DEF Drop, Sessions!Drop, KnownInv
<1>12. CASE UNCHANGED vars
  BY <1>1, <1>12 DEF vars
<1> QED
  BY <1>2, <1>3, <1>4, <1>5, <1>6, <1>7, <1>8, <1>9, <1>10, <1>11, <1>12
  DEF Next, Change, Dumping, Way

-----------------------------------------------------------------------------
\* The daemon misses no route of the kernel (DaemonComplete of NlaRoutes), if
\* the messages have one way to it, of any length, over connections of the agent
\* with itself: not although it refuses to replace a route, keeps routes over a
\* reconnection, and purges them when it likes.  On that way a removal cannot
\* overtake the addition behind it, and the flash cannot come before the daemon.
THEOREM DaemonMissesNothing ==
  ASSUME PathToDaemon(path)
  PROVE  Spec => []DaemonComplete
<1>0. OnPath
  BY DEF PathToDaemon, OnPath, src, dst, Stages
<1>1. Init => DaemonInv
  <2> SUFFICES ASSUME Init PROVE DaemonInv
    OBVIOUS
  <2>1. << >> \in Seq(Message) /\ Empty \in [Prefixes -> Way]
    BY DEF Empty, Way
  <2>2. up = {} /\ dirty = TRUE
    BY DEF Init, Sessions!LifeInit
  <2>3. TypesOK
    BY <2>1, <2>2 DEF Init, TypesOK
  <2> QED
    BY <2>2, <2>3 DEF Init, DaemonInv, SocketInv, WayInv, ChannelInv, KnownInv
<1>2. DaemonInv /\ [Next]_vars => DaemonInv'
  BY <1>0, StepTypes, StepSocket, StepWay, StepKnown DEF DaemonInv
<1>3. DaemonInv => DaemonComplete
  <2> SUFFICES ASSUME DaemonInv, Settled, NEW p \in Prefixes, kernel[p] # NoRoute
               PROVE  table[NLA_PRPD_CLIENT][p] # NoRoute
    BY DEF DaemonComplete, DaemonHasAll
  <2>1. ~dirty /\ NLA_KNLM \in up /\ ~overrun /\ ~broken /\ dump = {}
    BY RoutesAssumption DEF RoutesAssumption, Settled
  <2>2. Known(p)
    BY <2>1 DEF DaemonInv, KnownInv
  <2>3. \A j \in Stages : Queue(j) = << >>
    <3>1. \A j \in Stages : j # 0 => path[j] \in TcpModules
      BY <1>0, PathFacts, RoutesAssumption DEF RoutesAssumption
    <3> QED
      BY <3>1 DEF Queue, Settled
  <2>4. ~Adds(<< >>, p)
    BY RoutesAssumption DEF RoutesAssumption, Adds, EndsWith
  <2> QED
    BY <2>1, <2>2, <2>3, <2>4 DEF Known
<1> QED
  BY <1>1, <1>2, <1>3, PTL DEF Spec

=============================================================================
