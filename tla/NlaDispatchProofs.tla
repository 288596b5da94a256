-------------------------- MODULE NlaDispatchProofs ---------------------------
(***************************************************************************)
(* Theorems about NlaDispatch, for every configuration, every policy and   *)
(* every message.                                                          *)
(***************************************************************************)
EXTENDS NlaDispatch, SequenceTheorems, TLAPS

\* The filters do what the configuration says.
LEMMA FiltersAccept ==
  ASSUME NEW p \in Policy, NEW msg
  PROVE  /\ accepts(p, msg) <=> Accepted(p, msg)
         /\ policy_evaluate(p, msg) # {} <=> Accepted(p, msg)
<1>1. ASSUME NEW values \in Seq(Nat), NEW field
      PROVE  match_filter(values, field) <=> (values # << >> => field \in ToSet(values))
  BY DEF match_filter, Contains, ToSet
<1>2. /\ p.filter_family \in Seq(Nat)
      /\ p.filter_table \in Seq(Nat)
      /\ p.filter_protocol \in Seq(Nat)
  BY DEF Policy
<1>3. accepts(p, msg) <=> Accepted(p, msg)
  BY <1>1, <1>2 DEF accepts, Accepted
<1> QED
  BY <1>3 DEF policy_evaluate

-----------------------------------------------------------------------------
(* The dispatcher meets the sessions of the lifecycle: whoever is up has   *)
(* its listeners up, unless a fresh start is pending.                      *)

SessionsInv ==
  /\ up \subseteq Enabled
  /\ Sessions!ServedFirst

EventInv ==
  \A e \in event :
    /\ e.from \in up
    /\ given = [i \in Modules |->
                  IF i \in listeners(e.from, up) /\ handed_on(i, e.from, up, e.msg)
                  THEN policy_evaluate(policy[i], e.msg) ELSE {}]

DispatchInv == policy \in [Modules -> Policies] /\ SessionsInv /\ EventInv

LEMMA StepDispatch == ASSUME DispatchInv, [Next]_dispatchVars PROVE DispatchInv'
<1> USE DEF DispatchInv
<1>1. CASE SessionChange
  <2>1. ASSUME NEW m \in Enabled, Sessions!BringUp(m) PROVE SessionsInv'
    BY <2>1 DEF SessionsInv, Sessions!ServedFirst, Sessions!BringUp
  <2>2. ASSUME NEW m \in Enabled, Sessions!Drop(m) PROVE SessionsInv'
    BY <2>2 DEF SessionsInv, Sessions!ServedFirst, Sessions!Drop
  <2>3. ASSUME Sessions!FreshStart PROVE SessionsInv'
    BY <2>3 DEF SessionsInv, Sessions!ServedFirst, Sessions!FreshStart
  <2>4. SessionsInv'
    BY <1>1, <2>1, <2>2, <2>3 DEF SessionChange, Sessions!LifeNext
  <2> QED
    BY <1>1, <2>4 DEF SessionChange, EventInv
<1>2. ASSUME NEW from \in Enabled, NEW msg \in Messages, Dispatch(from, msg)
      PROVE  DispatchInv'
  <2>1. SessionsInv' /\ policy' \in [Modules -> Policies]
    BY <1>2 DEF Dispatch, SessionsInv, Sessions!ServedFirst
  <2>2. EventInv'
    BY <1>2 DEF Dispatch, EventInv, listeners, handed_on
  <2> QED
    BY <2>1, <2>2
<1>3. CASE UNCHANGED dispatchVars
  BY <1>3 DEF dispatchVars, SessionsInv, Sessions!ServedFirst, EventInv, listeners, handed_on
<1> QED
  BY <1>1, <1>2, <1>3 DEF Next

LEMMA DispatchAlways == Spec => []DispatchInv
<1>1. Init => DispatchInv
  BY DEF Init, DispatchInv, SessionsInv, Sessions!ServedFirst, Sessions!LifeInit, EventInv
<1> QED
  BY <1>1, StepDispatch, PTL DEF Spec

\* Unless a fresh start is pending, a listener that the sender had to wait for
\* misses a message only to a refusal (LostOnlyToRefusal of NlaDispatch): none
\* is skipped by nla_infra_event_dispatcher as "module still not up".
THEOREM MessagesAreLostOnlyToRefusals == Spec => []LostOnlyToRefusal
<1>1. ASSUME DispatchInv PROVE LostOnlyToRefusal
  <2> SUFFICES ASSUME ~dirty, NEW e \in event, NEW i \in Enabled,
                      e.from \in NotifyMe[i], ~Interdependent(e.from, i), given[i] = {}
               PROVE  \E j \in listeners(e.from, up) :
                        Number[j] <= Number[i] /\ ~Accepted(policy[j], e.msg)
    BY DEF LostOnlyToRefusal
  <2>0. i \in Modules /\ e.from \in Modules
    BY <1>1, ConfigAssumption DEF ConfigAssumption, DispatchInv, SessionsInv, EventInv
  <2>1. i \in listeners(e.from, up)
    <3>1. i \in Deps[e.from]
      BY <2>0 DEF Deps
    <3>2. Deps[e.from] \subseteq up
      BY <1>1 DEF DispatchInv, SessionsInv, EventInv, Sessions!ServedFirst
    <3> QED
      BY <3>1, <3>2 DEF listeners
  <2>2. ASSUME NEW j \in listeners(e.from, up), policy_evaluate(policy[j], e.msg) = {}
        PROVE  ~Accepted(policy[j], e.msg)
    <3>1. policy[j] \in Policy
      BY <1>1, <2>2, ConfigAssumption, PoliciesAssumption
      DEF ConfigAssumption, PoliciesAssumption, DispatchInv, listeners
    <3> QED
      BY <2>2, <3>1, FiltersAccept
  <2>3. CASE handed_on(i, e.from, up, e.msg)
    <3>1. given[i] = policy_evaluate(policy[i], e.msg)
      BY <1>1, <2>0, <2>1, <2>3 DEF DispatchInv, EventInv
    <3>2. Number[i] <= Number[i]
      BY <2>0, NumberAssumption DEF NumberAssumption
    <3> QED
      BY <2>1, <2>2, <3>1, <3>2
  <2>4. CASE ~handed_on(i, e.from, up, e.msg)
    BY <2>2, <2>4 DEF handed_on
  <2> QED
    BY <2>3, <2>4
<1>2. DispatchInv => LostOnlyToRefusal
  BY <1>1
<1> QED
  BY <1>2, DispatchAlways, PTL

-----------------------------------------------------------------------------
(* Attributes and their sizes.                                             *)

plus_size(n, a) == n + a.size
Sizes == INSTANCE NlaFold WITH op <- plus_size

LEMMA SizesFold ==
  ASSUME NEW attrs
  PROVE  FullLen(attrs) = Sizes!Fold(HeaderLen, attrs)
BY DEF FullLen, Sizes!Fold, Sizes!FoldLeft, Sizes!MapThenFoldSet, Sizes!Max,
       FoldLeft, MapThenFoldSet, Max, plus_size

LEMMA FullLenAppend ==
  /\ FullLen(<< >>) = HeaderLen
  /\ \A s \in Seq(Attribute), a \in Attribute : FullLen(Append(s, a)) = FullLen(s) + a.size
<1>1. FullLen(<< >>) = HeaderLen
  BY SizesFold, Sizes!FoldEmpty
<1>2. ASSUME NEW s \in Seq(Attribute), NEW a \in Attribute
      PROVE  FullLen(Append(s, a)) = FullLen(s) + a.size
  BY SizesFold, Sizes!FoldAppend DEF plus_size
<1> QED
  BY <1>1, <1>2

LEMMA FullLenConcat ==
  ASSUME NEW s \in Seq(Attribute), NEW t \in Seq(Attribute)
  PROVE  /\ FullLen(s) \in Nat
         /\ FullLen(s \o t) = FullLen(s) + FullLen(t) - HeaderLen
<1> DEFINE P == {u \in Seq(Attribute) : FullLen(u) \in Nat}
           Q == {u \in Seq(Attribute) : FullLen(s \o u) = FullLen(s) + FullLen(u) - HeaderLen}
<1>0. \A a \in Attribute : a.size \in Nat
  BY DEF Attribute
<1>1. << >> \in P
  BY FullLenAppend, HeaderAssumption DEF HeaderAssumption
<1>2. ASSUME NEW u \in Seq(Attribute), NEW a \in Attribute, u \in P PROVE Append(u, a) \in P
  BY <1>0, <1>2, FullLenAppend, AppendProperties
<1>3. Seq(Attribute) \subseteq P
  <2> HIDE DEF P
  <2> QED
    BY <1>1, <1>2, Sizes!SeqInduction
<1>4. \A u \in Seq(Attribute) : FullLen(u) \in Nat
  BY <1>3
<1> HIDE DEF P
<1>5. << >> \in Q
  <2>1. << >> \in Seq(Attribute) /\ s \o << >> = s
    BY ConcatEmptySeq
  <2> QED
    BY <1>4, <2>1, FullLenAppend, HeaderAssumption DEF HeaderAssumption
<1>6. ASSUME NEW u \in Seq(Attribute), NEW a \in Attribute, u \in Q PROVE Append(u, a) \in Q
  <2>1. /\ s \o u \in Seq(Attribute) /\ s \o Append(u, a) = Append(s \o u, a)
        /\ Append(u, a) \in Seq(Attribute)
    BY Sizes!ConcatAppend, AppendProperties
  <2>2. /\ FullLen(Append(s \o u, a)) = FullLen(s \o u) + a.size
        /\ FullLen(Append(u, a)) = FullLen(u) + a.size
        /\ FullLen(s \o u) = FullLen(s) + FullLen(u) - HeaderLen
    BY <1>6, <2>1, FullLenAppend
  <2>3. a.size \in Nat /\ FullLen(s) \in Nat /\ FullLen(u) \in Nat /\ HeaderLen \in Nat
    BY <1>0, <1>4, HeaderAssumption DEF HeaderAssumption
  <2>4. FullLen(s \o Append(u, a)) = (FullLen(s) + FullLen(u) - HeaderLen) + a.size
    BY <2>1, <2>2
  <2>5. (FullLen(s) + FullLen(u) - HeaderLen) + a.size = FullLen(s) + (FullLen(u) + a.size) - HeaderLen
    BY <2>3
  <2>6. FullLen(s \o Append(u, a)) = FullLen(s) + FullLen(Append(u, a)) - HeaderLen
    BY <2>2, <2>4, <2>5
  <2> QED
    BY <2>1, <2>6
<1>7. Seq(Attribute) \subseteq Q
  <2> HIDE DEF Q
  <2> QED
    BY <1>5, <1>6, Sizes!SeqInduction
<1> QED
  BY <1>4, <1>7

-----------------------------------------------------------------------------
(* What is left when attributes are stripped.                              *)

kept(a, types) == IF a.type \in types THEN << >> ELSE <<a>>

unstripped(types, a) == kept(a, types)
Kept == INSTANCE NlaFold WITH op <- unstripped

LEMMA StrippedAppend ==
  ASSUME NEW types
  PROVE  /\ Stripped(<< >>, types) = << >>
         /\ \A s \in Seq(Attribute) : Stripped(s, types) \in Seq(Attribute)
         /\ \A s \in Seq(Attribute), a \in Attribute :
              Stripped(Append(s, a), types) = Stripped(s, types) \o kept(a, types)
<1>1. \A s : Stripped(s, types) = Kept!Mapped(types, s)
  BY DEF Stripped, kept, unstripped, Kept!Mapped, FlattenSeq, Kept!FlattenSeq
<1>2. \A a \in Attribute : unstripped(types, a) \in Seq(Attribute)
  BY DEF kept, unstripped
<1>3. /\ Kept!Mapped(types, << >>) = << >>
      /\ \A s \in Seq(Attribute) : Kept!Mapped(types, s) \in Seq(Attribute)
      /\ \A s \in Seq(Attribute), a \in Attribute :
           Kept!Mapped(types, Append(s, a)) = Kept!Mapped(types, s) \o unstripped(types, a)
  BY <1>2, Kept!MappedAppend
<1> QED
  BY <1>1, <1>3 DEF unstripped

LEMMA KeptFacts ==
  ASSUME NEW a \in Attribute, NEW types
  PROVE  /\ kept(a, types) \in Seq(Attribute)
         /\ \A more : Stripped(kept(a, types), more) = kept(a, types \cup more)
<1>1. kept(a, types) \in Seq(Attribute)
  BY DEF kept
<1>2. ASSUME NEW more, a.type \in types
      PROVE  Stripped(kept(a, types), more) = kept(a, types \cup more)
  BY <1>2, StrippedAppend DEF kept
<1>3. ASSUME NEW more, a.type \notin types
      PROVE  Stripped(kept(a, types), more) = kept(a, types \cup more)
  <2>1. kept(a, types) = Append(<< >>, a) /\ << >> \in Seq(Attribute)
    BY <1>3 DEF kept
  <2>2. Stripped(Append(<< >>, a), more) = << >> \o kept(a, more)
    BY <2>1, StrippedAppend
  <2>3. kept(a, more) \in Seq(Attribute) /\ kept(a, more) = kept(a, types \cup more)
    BY <1>3 DEF kept
  <2> QED
    BY <2>1, <2>2, <2>3, ConcatEmptySeq
<1> QED
  BY <1>1, <1>2, <1>3

LEMMA StrippedConcat ==
  ASSUME NEW types, NEW s \in Seq(Attribute), NEW t \in Seq(Attribute)
  PROVE  Stripped(s \o t, types) = Stripped(s, types) \o Stripped(t, types)
<1> DEFINE P == {u \in Seq(Attribute) :
                   Stripped(s \o u, types) = Stripped(s, types) \o Stripped(u, types)}
<1>0. Stripped(s, types) \in Seq(Attribute)
  BY StrippedAppend
<1>1. << >> \in P
  <2>1. << >> \in Seq(Attribute) /\ s \o << >> = s
    BY ConcatEmptySeq
  <2>2. Stripped(s, types) \o << >> = Stripped(s, types)
    BY <1>0, ConcatEmptySeq
  <2> QED
    BY <2>1, <2>2, StrippedAppend
<1>2. ASSUME NEW u \in Seq(Attribute), NEW a \in Attribute, u \in P PROVE Append(u, a) \in P
  <2>1. /\ s \o u \in Seq(Attribute) /\ s \o Append(u, a) = Append(s \o u, a)
        /\ Append(u, a) \in Seq(Attribute)
    BY Sizes!ConcatAppend, AppendProperties
  <2>2. /\ Stripped(Append(s \o u, a), types) = Stripped(s \o u, types) \o kept(a, types)
        /\ Stripped(Append(u, a), types) = Stripped(u, types) \o kept(a, types)
        /\ Stripped(s \o u, types) = Stripped(s, types) \o Stripped(u, types)
    BY <1>2, <2>1, StrippedAppend
  <2>3. /\ Stripped(u, types) \in Seq(Attribute)
        /\ kept(a, types) \in Seq(Attribute)
    BY StrippedAppend, KeptFacts
  <2>4. (Stripped(s, types) \o Stripped(u, types)) \o kept(a, types)
          = Stripped(s, types) \o (Stripped(u, types) \o kept(a, types))
    <3> DEFINE x == Stripped(s, types)
               y == Stripped(u, types)
               z == kept(a, types)
    <3>1. x \in Seq(Attribute) /\ y \in Seq(Attribute) /\ z \in Seq(Attribute)
      BY <1>0, <2>3
    <3> HIDE DEF P, x, y, z
    <3>2. (x \o y) \o z = x \o (y \o z)
      BY <3>1, ConcatAssociative, SMTT(30)
    <3> QED
      BY <3>2 DEF x, y, z
  <2> QED
    BY <2>1, <2>2, <2>4
<1> HIDE DEF P
<1>3. t \in P
  BY <1>1, <1>2, Sizes!SeqInduction
<1> QED
  BY <1>3 DEF P

\* To strip some types and then others is to strip all of them.
LEMMA StrippedTwice ==
  ASSUME NEW types, NEW more, NEW s \in Seq(Attribute)
  PROVE  Stripped(Stripped(s, types), more) = Stripped(s, types \cup more)
<1> DEFINE P == {u \in Seq(Attribute) :
                   Stripped(Stripped(u, types), more) = Stripped(u, types \cup more)}
<1>1. << >> \in P
  BY StrippedAppend
<1>2. ASSUME NEW u \in Seq(Attribute), NEW a \in Attribute, u \in P PROVE Append(u, a) \in P
  <2>1. /\ Stripped(u, types) \in Seq(Attribute) /\ kept(a, types) \in Seq(Attribute)
        /\ Append(u, a) \in Seq(Attribute)
    BY StrippedAppend, KeptFacts, AppendProperties
  <2>2. Stripped(Append(u, a), types) = Stripped(u, types) \o kept(a, types)
    BY StrippedAppend
  <2>3. Stripped(Stripped(u, types) \o kept(a, types), more)
          = Stripped(Stripped(u, types), more) \o Stripped(kept(a, types), more)
    BY <2>1, StrippedConcat
  <2>4. Stripped(kept(a, types), more) = kept(a, types \cup more)
    BY KeptFacts
  <2>5. Stripped(Append(u, a), types \cup more)
          = Stripped(u, types \cup more) \o kept(a, types \cup more)
    BY StrippedAppend
  <2> QED
    BY <1>2, <2>1, <2>2, <2>3, <2>4, <2>5
<1> HIDE DEF P
<1>3. s \in P
  BY <1>1, <1>2, Sizes!SeqInduction
<1> QED
  BY <1>3 DEF P

\* Where nothing is to strip, everything is left.
LEMMA StrippedNone ==
  ASSUME NEW types, NEW s \in Seq(Attribute),
         \A i \in 1..Len(s) : s[i].type \notin types
  PROVE  Stripped(s, types) = s
<1> DEFINE P == {u \in Seq(Attribute) :
                   (\A i \in 1..Len(u) : u[i].type \notin types) => Stripped(u, types) = u}
<1>1. << >> \in P
  BY StrippedAppend
<1>2. ASSUME NEW u \in Seq(Attribute), NEW a \in Attribute, u \in P PROVE Append(u, a) \in P
  <2> DEFINE t == Append(u, a)
  <2>1. /\ t \in Seq(Attribute) /\ Len(t) = Len(u) + 1 /\ t[Len(u) + 1] = a
        /\ \A i \in 1..Len(u) : t[i] = u[i]
        /\ t = u \o <<a>> /\ Len(u) \in Nat
    BY AppendProperties, AppendIsConcat, LenProperties
  <2> SUFFICES ASSUME \A i \in 1..Len(t) : t[i].type \notin types PROVE Stripped(t, types) = t
    BY <2>1
  <2> HIDE DEF t
  <2>2. Len(u) + 1 \in 1..(Len(u) + 1) /\ \A i \in 1..Len(u) : i \in 1..(Len(u) + 1)
    BY <2>1
  <2>3. kept(a, types) = <<a>>
    BY <2>1, <2>2 DEF kept
  <2>4. Stripped(u, types) = u
    BY <1>2, <2>1, <2>2
  <2>5. Stripped(t, types) = Stripped(u, types) \o kept(a, types)
    BY StrippedAppend DEF t
  <2> QED
    BY <2>1, <2>3, <2>4, <2>5
<1> HIDE DEF P
<1>3. s \in P
  BY <1>1, <1>2, Sizes!SeqInduction
<1> QED
  BY <1>3 DEF P

\* One attribute of a type to strip can be cut out before.
LEMMA CutOut ==
  ASSUME NEW s \in Seq(Attribute), NEW k \in 1..Len(s)
  PROVE  /\ RemoveAt(s, k) \in Seq(Attribute)
         /\ Len(RemoveAt(s, k)) = Len(s) - 1
         /\ FullLen(RemoveAt(s, k)) = FullLen(s) - s[k].size
         /\ \A types : s[k].type \in types => Stripped(RemoveAt(s, k), types) = Stripped(s, types)
<1> DEFINE a == SubSeq(s, 1, k - 1)
           b == <<s[k]>>
           c == SubSeq(s, k + 1, Len(s))
<1>0. Len(s) \in Nat /\ k \in Nat /\ \A i \in 1..Len(s) : s[i] \in Attribute
  BY LenProperties, ElementOfSeq
<1>1. /\ a \in Seq(Attribute) /\ Len(a) = k - 1
      /\ c \in Seq(Attribute) /\ Len(c) = Len(s) - k
  <2>1. a \in Seq(Attribute) /\ Len(a) = k - 1
    <3>1. 1 \in Int /\ k - 1 \in Int /\ \A i \in 1..(k - 1) : s[i] \in Attribute
      BY <1>0
    <3>2. /\ SubSeq(s, 1, k - 1) \in Seq(Attribute)
          /\ Len(SubSeq(s, 1, k - 1)) = IF 1 <= k - 1 THEN (k - 1) - 1 + 1 ELSE 0
      BY <3>1, SubSeqProperties
    <3> QED
      BY <1>0, <3>2
  <2>2. c \in Seq(Attribute) /\ Len(c) = Len(s) - k
    <3>1. k + 1 \in Int /\ Len(s) \in Int /\ \A i \in (k + 1)..Len(s) : s[i] \in Attribute
      BY <1>0
    <3>2. /\ SubSeq(s, k + 1, Len(s)) \in Seq(Attribute)
          /\ Len(SubSeq(s, k + 1, Len(s))) = IF k + 1 <= Len(s) THEN Len(s) - (k + 1) + 1 ELSE 0
      BY <3>1, SubSeqProperties
    <3> QED
      BY <1>0, <3>2
  <2> QED
    BY <2>1, <2>2
<1>2. b \in Seq(Attribute) /\ s[k].size \in Nat
  BY <1>0 DEF Attribute
<1>3. s = a \o (b \o c)
  <2>1. /\ 1 \in 1..(Len(s) + 1) /\ k - 1 \in (1 - 1)..Len(s) /\ Len(s) \in (k - 1)..Len(s)
        /\ Len(s) \in k..Len(s) /\ (k - 1) + 1 = k
    BY <1>0
  <2>2. SubSeq(s, 1, k - 1) \o SubSeq(s, (k - 1) + 1, Len(s)) = SubSeq(s, 1, Len(s))
    BY <2>1, ConcatAdjacentSubSeq
  <2>3. SubSeq(s, k, Len(s)) = <<s[k]>> \o SubSeq(s, k + 1, Len(s))
    BY <2>1, SubSeqRecursiveFirst
  <2> QED
    BY <2>1, <2>2, <2>3, SubSeqFull
<1>4. RemoveAt(s, k) = a \o c
  BY DEF RemoveAt
<1> HIDE DEF a, b, c
<1>5. /\ a \o c \in Seq(Attribute) /\ Len(a \o c) = Len(a) + Len(c)
      /\ b \o c \in Seq(Attribute)
  BY <1>1, <1>2, ConcatProperties
<1>6. Len(a \o c) = Len(s) - 1
  BY <1>0, <1>1, <1>5
<1>7. FullLen(a \o c) = FullLen(s) - s[k].size
  <2>1. FullLen(b) = HeaderLen + s[k].size
    <3>1. b = Append(<< >>, s[k]) /\ << >> \in Seq(Attribute)
      BY DEF b
    <3> QED
      BY <1>0, <3>1, FullLenAppend
  <2>2. /\ FullLen(a \o c) = FullLen(a) + FullLen(c) - HeaderLen
        /\ FullLen(b \o c) = FullLen(b) + FullLen(c) - HeaderLen
        /\ FullLen(a \o (b \o c)) = FullLen(a) + FullLen(b \o c) - HeaderLen
        /\ FullLen(a) \in Nat /\ FullLen(c) \in Nat
    BY <1>1, <1>2, <1>5, FullLenConcat
  <2>3. HeaderLen \in Nat
    BY HeaderAssumption DEF HeaderAssumption
  <2>4. FullLen(s) = FullLen(a \o (b \o c))
    BY <1>3
  <2> QED
    BY <1>2, <2>1, <2>2, <2>3, <2>4
<1>8. ASSUME NEW types, s[k].type \in types
      PROVE  Stripped(a \o c, types) = Stripped(s, types)
  <2>1. Stripped(b, types) = << >>
    <3>1. b = Append(<< >>, s[k]) /\ << >> \in Seq(Attribute)
      BY DEF b
    <3>2. Stripped(Append(<< >>, s[k]), types) = << >> \o << >>
      <4>1. kept(s[k], types) = << >>
        BY <1>8 DEF kept
      <4>2. Stripped(Append(<< >>, s[k]), types) = Stripped(<< >>, types) \o kept(s[k], types)
        BY <1>0, <3>1, StrippedAppend
      <4> QED
        BY <4>1, <4>2, StrippedAppend
    <3> QED
      BY <3>1, <3>2, ConcatEmptySeq
  <2>2. /\ Stripped(a \o c, types) = Stripped(a, types) \o Stripped(c, types)
        /\ Stripped(b \o c, types) = Stripped(b, types) \o Stripped(c, types)
        /\ Stripped(s, types) = Stripped(a, types) \o Stripped(b \o c, types)
    BY <1>1, <1>2, <1>3, <1>5, StrippedConcat
  <2>3. << >> \o Stripped(c, types) = Stripped(c, types)
    BY <1>1, StrippedAppend, ConcatEmptySeq
  <2> QED
    BY <2>1, <2>2, <2>3
<1> QED
  BY <1>4, <1>5, <1>6, <1>7, <1>8

-----------------------------------------------------------------------------
(* The loops of nla_policy.c.                                              *)

WellFormed(msg) == msg \in Message /\ msg.len = FullLen(msg.attrs)

Without(attrs, t) == \A i \in 1..Len(attrs) : attrs[i].type # t

\* One round cuts out an attribute of the type, if there is one.
LEMMA StripFirstFacts ==
  ASSUME NEW msg, WellFormed(msg), NEW t
  PROVE  /\ WellFormed(strip_first(msg, t))
         /\ strip_first(msg, t).protocol = msg.protocol
         /\ Stripped(strip_first(msg, t).attrs, {t}) = Stripped(msg.attrs, {t})
         /\ \/ strip_first(msg, t) = msg /\ Without(msg.attrs, t)
            \/ Len(strip_first(msg, t).attrs) = Len(msg.attrs) - 1
<1> DEFINE I == {i \in 1..Len(msg.attrs) : msg.attrs[i].type = t}
           k == IF I # {} THEN Min(I) ELSE 0
<1>0. /\ msg \in Message /\ msg.len = FullLen(msg.attrs)
      /\ msg.attrs \in Seq(Attribute) /\ Len(msg.attrs) \in Nat
  BY LenProperties DEF WellFormed, Message
<1>1. strip_first(msg, t) =
        IF k = 0 THEN msg
        ELSE [msg EXCEPT !.attrs = RemoveAt(@, k), !.len = @ - msg.attrs[k].size]
  BY DEF strip_first, SelectInSeq
<1>2. I # {} => Min(I) \in I
  <2> SUFFICES ASSUME I # {} PROVE Min(I) \in I
    OBVIOUS
  <2>1. I \in SUBSET Nat
    BY <1>0
  <2> HIDE DEF I
  <2>2. \E x \in I : \A y \in I : x <= y
    BY <2>1, Sizes!LeastOfSome
  <2> QED
    BY <2>2 DEF Min
<1>3. CASE k = 0
  <2>1. I = {}
    BY <1>0, <1>2, <1>3
  <2> QED
    BY <1>1, <1>3, <2>1 DEF Without, WellFormed, I
<1>4. CASE k # 0
  <2>1. k \in 1..Len(msg.attrs) /\ msg.attrs[k].type = t
    BY <1>2, <1>4
  <2> DEFINE cut == RemoveAt(msg.attrs, k)
             out == [msg EXCEPT !.attrs = RemoveAt(@, k), !.len = @ - msg.attrs[k].size]
  <2> HIDE DEF k
  <2>2. /\ cut \in Seq(Attribute) /\ Len(cut) = Len(msg.attrs) - 1
        /\ FullLen(cut) = FullLen(msg.attrs) - msg.attrs[k].size
        /\ Stripped(cut, {t}) = Stripped(msg.attrs, {t})
    BY <1>0, <2>1, CutOut
  <2>3. FullLen(cut) \in Nat
    BY <2>2, FullLenConcat
  <2> HIDE DEF cut
  <2>4. /\ out \in Message /\ out.attrs = cut /\ out.protocol = msg.protocol
        /\ out.len = FullLen(cut)
    BY <1>0, <2>2, <2>3 DEF Message, cut
  <2>5. strip_first(msg, t) = out
    BY <1>1, <1>4
  <2> HIDE DEF out
  <2> QED
    BY <2>2, <2>4, <2>5 DEF WellFormed
<1> QED
  BY <1>3, <1>4

Firsts == INSTANCE NlaFold WITH op <- strip_first

\* All rounds together cut out every attribute of the type, and no other.
LEMMA StripAttrFacts ==
  ASSUME NEW msg, WellFormed(msg), NEW t
  PROVE  /\ WellFormed(strip_attr(msg, t))
         /\ strip_attr(msg, t).protocol = msg.protocol
         /\ strip_attr(msg, t).attrs = Stripped(msg.attrs, {t})
<1> DEFINE n == Len(msg.attrs)
           f == CHOOSE g : Firsts!Rounds(n, msg, t, g)
<1>0. n \in Nat /\ msg.attrs \in Seq(Attribute)
  BY LenProperties DEF WellFormed, Message
<1>1. strip_attr(msg, t) = f[n]
  BY DEF strip_attr, Firsts!Rounds
<1> HIDE DEF n
<1>2. Firsts!Rounds(n, msg, t, f)
  BY <1>0, Firsts!RoundsExist
<1> HIDE DEF f
<1>3. f[0] = msg /\ \A k \in Nat : k < n => f[k + 1] = strip_first(f[k], t)
  <2>1. 0 \in 0..n /\ \A k \in Nat : k < n => k + 1 \in 0..n /\ k + 1 # 0 /\ (k + 1) - 1 = k
    BY <1>0
  <2> QED
    BY <1>2, <2>1 DEF Firsts!Rounds
<1> DEFINE Ok == {k \in Nat : k <= n =>
                    /\ WellFormed(f[k]) /\ f[k].protocol = msg.protocol
                    /\ Stripped(f[k].attrs, {t}) = Stripped(msg.attrs, {t})
                    /\ Without(f[k].attrs, t) \/ Len(f[k].attrs) = n - k}
<1>4. 0 \in Ok
  BY <1>0, <1>3 DEF n
<1>5. ASSUME NEW k \in Nat, k \in Ok PROVE k + 1 \in Ok
  <2> SUFFICES ASSUME k + 1 <= n
               PROVE  /\ WellFormed(f[k + 1]) /\ f[k + 1].protocol = msg.protocol
                      /\ Stripped(f[k + 1].attrs, {t}) = Stripped(msg.attrs, {t})
                      /\ Without(f[k + 1].attrs, t) \/ Len(f[k + 1].attrs) = n - (k + 1)
    OBVIOUS
  <2>1. k < n /\ k <= n
    BY <1>0
  <2>2. /\ WellFormed(f[k]) /\ f[k].protocol = msg.protocol
        /\ Stripped(f[k].attrs, {t}) = Stripped(msg.attrs, {t})
        /\ Without(f[k].attrs, t) \/ Len(f[k].attrs) = n - k
    BY <1>5, <2>1
  <2>3. f[k + 1] = strip_first(f[k], t)
    BY <1>3, <2>1
  <2>4. /\ WellFormed(f[k + 1]) /\ f[k + 1].protocol = f[k].protocol
        /\ Stripped(f[k + 1].attrs, {t}) = Stripped(f[k].attrs, {t})
        /\ \/ f[k + 1] = f[k] /\ Without(f[k].attrs, t)
           \/ Len(f[k + 1].attrs) = Len(f[k].attrs) - 1
    <3> DEFINE old == f[k]
               new == f[k + 1]
    <3>1. WellFormed(old) /\ new = strip_first(old, t)
      BY <2>2, <2>3
    <3> HIDE DEF old, new
    <3>2. /\ WellFormed(new) /\ new.protocol = old.protocol
          /\ Stripped(new.attrs, {t}) = Stripped(old.attrs, {t})
          /\ \/ new = old /\ Without(old.attrs, t)
             \/ Len(new.attrs) = Len(old.attrs) - 1
      BY <3>1, StripFirstFacts
    <3> QED
      BY <3>2 DEF old, new
  <2>5. Without(f[k + 1].attrs, t) \/ Len(f[k + 1].attrs) = n - (k + 1)
    <3>1. CASE f[k + 1] = f[k] /\ Without(f[k].attrs, t)
      BY <3>1
    <3>2. CASE Without(f[k].attrs, t) /\ f[k + 1] # f[k]
      <4>1. ~(\E i \in 1..Len(f[k].attrs) : f[k].attrs[i].type = t)
        BY <3>2 DEF Without
      <4>2. f[k + 1] = f[k]
        BY <2>3, <4>1 DEF strip_first, SelectInSeq
      <4> QED
        BY <3>2, <4>2
    <3>3. CASE Len(f[k].attrs) = n - k /\ Len(f[k + 1].attrs) = Len(f[k].attrs) - 1
      BY <1>0, <3>3
    <3> QED
      BY <2>2, <2>4, <3>1, <3>2, <3>3
  <2> QED
    BY <2>2, <2>4, <2>5
<1>6. n \in Ok
  <2> HIDE DEF Ok
  <2> QED
    BY <1>0, <1>4, <1>5, Firsts!Induction
<1>7. /\ WellFormed(f[n]) /\ f[n].protocol = msg.protocol
      /\ Stripped(f[n].attrs, {t}) = Stripped(msg.attrs, {t})
      /\ Without(f[n].attrs, t) \/ Len(f[n].attrs) = n - n
  <2>1. n <= n
    BY <1>0
  <2> QED
    BY <1>6, <2>1
<1>8. f[n].attrs \in Seq(Attribute) /\ Without(f[n].attrs, t)
  BY <1>0, <1>7 DEF Without, WellFormed, Message
<1>9. Stripped(f[n].attrs, {t}) = f[n].attrs
  <2>1. \A i \in 1..Len(f[n].attrs) : f[n].attrs[i].type \notin {t}
    BY <1>8 DEF Without
  <2> QED
    BY <1>8, <2>1, StrippedNone
<1> QED
  BY <1>1, <1>7, <1>9

Strips == INSTANCE NlaFold WITH op <- strip_attr

\* One type after the other, all of them are stripped.
LEMMA StripAllFacts ==
  ASSUME NEW msg, WellFormed(msg), NEW types \in Seq(Nat)
  PROVE  LET out == FoldLeft(strip_attr, msg, types)
         IN /\ WellFormed(out) /\ out.protocol = msg.protocol
            /\ out.attrs = Stripped(msg.attrs, ToSet(types))
<1> DEFINE P == {u \in Seq(Nat) :
                   /\ WellFormed(Strips!Fold(msg, u))
                   /\ Strips!Fold(msg, u).protocol = msg.protocol
                   /\ Strips!Fold(msg, u).attrs = Stripped(msg.attrs, ToSet(u))}
<1>0. msg.attrs \in Seq(Attribute)
  BY DEF WellFormed, Message
<1>1. << >> \in P
  <2>1. ToSet(<< >>) = {} /\ << >> \in Seq(Nat)
    BY DEF ToSet
  <2>2. Strips!Fold(msg, << >>) = msg
    BY Strips!FoldEmpty
  <2>3. Stripped(msg.attrs, {}) = msg.attrs
    BY <1>0, StrippedNone
  <2> QED
    BY <2>1, <2>2, <2>3
<1>2. ASSUME NEW u \in Seq(Nat), NEW t \in Nat, u \in P PROVE Append(u, t) \in P
  <2> DEFINE out == Strips!Fold(msg, u)
             more == Strips!Fold(msg, Append(u, t))
  <2>1. /\ WellFormed(out) /\ out.protocol = msg.protocol
        /\ out.attrs = Stripped(msg.attrs, ToSet(u))
    BY <1>2
  <2>2. more = strip_attr(out, t)
    BY Strips!FoldAppend
  <2>3. Append(u, t) \in Seq(Nat) /\ ToSet(Append(u, t)) = ToSet(u) \cup {t}
    <3>1. \A q : ToSet(q) = Strips!ToSet(q)
      BY DEF ToSet, Strips!ToSet
    <3>2. Strips!ToSet(Append(u, t)) = Strips!ToSet(u) \cup {t}
      BY Strips!ToSetAppend
    <3> QED
      BY <3>1, <3>2, AppendProperties
  <2> HIDE DEF out, more, P
  <2>4. /\ WellFormed(more) /\ more.protocol = out.protocol
        /\ more.attrs = Stripped(out.attrs, {t})
    BY <2>1, <2>2, StripAttrFacts
  <2>5. more.attrs = Stripped(msg.attrs, ToSet(u) \cup {t})
    <3> DEFINE gone == ToSet(u)
               last == {t}
    <3> HIDE DEF gone, last
    <3>1. Stripped(Stripped(msg.attrs, gone), last) = Stripped(msg.attrs, gone \cup last)
      BY <1>0, StrippedTwice
    <3> QED
      BY <2>1, <2>4, <3>1 DEF gone, last
  <2> QED
    BY <2>1, <2>3, <2>4, <2>5 DEF P, more
<1>3. types \in P
  <2> HIDE DEF P
  <2> QED
    BY <1>1, <1>2, Strips!SeqInduction
<1>4. FoldLeft(strip_attr, msg, types) = Strips!Fold(msg, types)
  BY DEF Strips!Fold, Strips!FoldLeft, Strips!MapThenFoldSet, Strips!Max,
         FoldLeft, MapThenFoldSet, Max
<1> QED
  BY <1>3, <1>4

\* What nla_policy_evaluate hands out is the view that the policy describes.
LEMMA PolicyView ==
  ASSUME NEW p \in Policy, \A i \in 1..Len(p.set_protocol) : p.set_protocol[i] < 256,
         NEW msg, WellFormed(msg), NEW out \in policy_evaluate(p, msg)
  PROVE  /\ Accepted(p, msg)
         /\ out.attrs = Stripped(msg.attrs, ToSet(p.strip_rtattr))
         /\ out.len = FullLen(out.attrs)
         /\ p.set_protocol # << >> => out.protocol = Last(p.set_protocol)
<1> DEFINE proto == after_set(after_set(msg.protocol, p.set_table), p.set_protocol)
           set == [msg EXCEPT !.protocol = proto]
<1>0. /\ p.set_table \in Seq(Nat) /\ p.set_protocol \in Seq(Nat)
      /\ p.strip_rtattr \in Seq(Nat)
  BY DEF Policy
<1>1. out = FoldLeft(strip_attr, set, p.strip_rtattr) /\ Accepted(p, msg)
  BY FiltersAccept DEF policy_evaluate
<1>2. ASSUME NEW values \in Seq(Nat), values # << >>
      PROVE  /\ Last(values) \in Nat /\ Len(values) \in 1..Len(values)
             /\ \A field : after_set(field, values) = Last(values) % 256
  <2>1. Len(values) \in 1..Len(values)
    BY <1>2, EmptySeq, LenProperties
  <2> QED
    BY <1>2, <2>1, ElementOfSeq DEF Last, after_set
<1>3. proto \in Nat
  <2>1. ASSUME NEW values \in Seq(Nat), NEW field \in Nat PROVE after_set(field, values) \in Nat
    <3>1. CASE values = << >>
      BY <3>1 DEF after_set
    <3>2. CASE values # << >>
      <4>1. Last(values) % 256 \in Nat
        BY <1>2, <3>2
      <4> QED
        BY <1>2, <3>2, <4>1
    <3> QED
      BY <3>1, <3>2
  <2>2. msg.protocol \in Nat
    BY DEF WellFormed, Message
  <2> QED
    BY <1>0, <2>1, <2>2
<1>4. p.set_protocol # << >> => proto = Last(p.set_protocol)
  <2> SUFFICES ASSUME p.set_protocol # << >> PROVE proto = Last(p.set_protocol)
    OBVIOUS
  <2>1. /\ proto = Last(p.set_protocol) % 256 /\ Last(p.set_protocol) \in Nat
        /\ Len(p.set_protocol) \in 1..Len(p.set_protocol)
    BY <1>0, <1>2
  <2>2. Last(p.set_protocol) < 256
    BY <2>1 DEF Last
  <2> QED
    BY <2>1, <2>2
<1> HIDE DEF proto
<1>5. WellFormed(set) /\ set.protocol = proto /\ set.attrs = msg.attrs
  BY <1>3 DEF WellFormed, Message
<1> HIDE DEF set
<1>6. /\ WellFormed(out) /\ out.protocol = set.protocol
      /\ out.attrs = Stripped(set.attrs, ToSet(p.strip_rtattr))
  BY <1>0, <1>1, <1>5, StripAllFacts
<1> QED
  BY <1>1, <1>4, <1>5, <1>6 DEF WellFormed

\* What a listener is given is its own view of the message (OwnView of
\* NlaDispatch), for every policy and every message: the rounds of
\* nla_policy_strip_attr leave no attribute of the types to strip, cut out no
\* other, and keep the lengths right, whatever the other listeners were given.
\* Values to set must fit into rtm_protocol, an unsigned char.
THEOREM ListenersHaveTheirView ==
  ASSUME \A p \in Policies : \A i \in 1..Len(p.set_protocol) : p.set_protocol[i] < 256
  PROVE  Spec => []OwnView
<1> DEFINE EventsRead == \A e \in event : e.msg \in Messages
<1>1. Init => EventsRead
  BY DEF Init
<1>2. EventsRead /\ [Next]_dispatchVars => EventsRead'
  <2> SUFFICES ASSUME EventsRead, [Next]_dispatchVars PROVE EventsRead'
    OBVIOUS
  <2>1. CASE SessionChange
    BY <2>1 DEF SessionChange
  <2>2. ASSUME NEW from \in Enabled, NEW msg \in Messages, Dispatch(from, msg) PROVE EventsRead'
    BY <2>2 DEF Dispatch
  <2>3. CASE UNCHANGED dispatchVars
    BY <2>3 DEF dispatchVars
  <2> QED
    BY <2>1, <2>2, <2>3 DEF Next
<1>3. EventsRead /\ DispatchInv => OwnView
  <2> SUFFICES ASSUME EventsRead, DispatchInv,
                      NEW e \in event, NEW m \in Modules, NEW out \in given[m]
               PROVE  /\ Accepted(policy[m], e.msg)
                      /\ out.attrs = Stripped(e.msg.attrs, ToSet(policy[m].strip_rtattr))
                      /\ out.len = FullLen(out.attrs)
                      /\ policy[m].set_protocol # << >> =>
                           out.protocol = Last(policy[m].set_protocol)
    BY DEF OwnView
  <2>1. policy[m] \in Policy /\ policy[m] \in Policies
    BY PoliciesAssumption DEF DispatchInv, PoliciesAssumption
  <2>2. out \in policy_evaluate(policy[m], e.msg)
    BY DEF DispatchInv, EventInv
  <2>3. WellFormed(e.msg)
    BY MessagesAssumption DEF MessagesAssumption, WellFormed
  <2> QED
    BY <2>1, <2>2, <2>3, PolicyView
<1> QED
  BY <1>1, <1>2, <1>3, DispatchAlways, PTL DEF Spec

=============================================================================
