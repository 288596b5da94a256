--------------------------- MODULE NlaConfigProofs ----------------------------
(***************************************************************************)
(* Theorems about NlaConfig, for every set of files and of module names.   *)
(***************************************************************************)
EXTENDS NlaConfig, SequenceTheorems, TLAPS

Keys   == {"module", "notify-events-from"} \cup SettingKeys \cup PolicyKeys
Values == STRING \ Keys
Plain  == Values \cup {Nest, "policy", "notify-me", "nlagent-modules"}
Words  == Keys \cup Plain

PlainBlocks == [module : Values, settings : Seq(SettingKeys \X Values),
                policy : Seq(PolicyKeys \X Values), notify : Seq(Values)]

LEMMA KeysAndValues ==
  /\ SettingKeys \subseteq Keys /\ PolicyKeys \subseteq Keys
  /\ "module" \in Keys /\ "notify-events-from" \in Keys
  /\ Nest \in Plain /\ "policy" \in Plain /\ "notify-me" \in Plain /\ "nlagent-modules" \in Plain
  /\ Values \subseteq Plain /\ Keys \subseteq Words /\ Plain \subseteq Words
  /\ \A k \in Plain : k \notin Keys
BY DEF Keys, Values, Plain, Words, SettingKeys, PolicyKeys, Nest

LEMMA KeysAreDistinct ==
  /\ "module" # "notify-events-from"
  /\ \A k \in SettingKeys : k \notin PolicyKeys \cup {"module", "notify-events-from"}
  /\ \A k \in PolicyKeys : k \notin SettingKeys \cup {"module", "notify-events-from"}
BY DEF SettingKeys, PolicyKeys

-----------------------------------------------------------------------------
(* The nodes, each with the one behind it.  Only behind a key does that    *)
(* matter, so that the pairs of a file are those of its parts.             *)

Tracks(ns, ps) ==
  /\ ns \in Seq(Words)
  /\ ps \in Seq(Words \X Words)
  /\ Len(ps) = Len(ns)
  /\ \A i \in 1..Len(ns) :
       /\ ps[i][1] = ns[i]
       /\ ns[i] \in Keys => i + 1 \in 1..Len(ns) /\ ps[i][2] = ns[i + 1]

LEMMA TracksConcat ==
  ASSUME NEW a, NEW p, NEW b, NEW q, Tracks(a, p), Tracks(b, q)
  PROVE  Tracks(a \o b, p \o q)
<1> DEFINE c == a \o b
           r == p \o q
           m == Len(a)
           n == Len(b)
<1>1. /\ a \in Seq(Words) /\ b \in Seq(Words)
      /\ p \in Seq(Words \X Words) /\ q \in Seq(Words \X Words)
      /\ Len(p) = m /\ Len(q) = n /\ m \in Nat /\ n \in Nat
  BY LenProperties DEF Tracks
<1>2. /\ c \in Seq(Words) /\ Len(c) = m + n
      /\ \A i \in 1..(m + n) : c[i] = IF i <= m THEN a[i] ELSE b[i - m]
  BY <1>1, ConcatProperties
<1>3. /\ r \in Seq(Words \X Words) /\ Len(r) = m + n
      /\ \A i \in 1..(m + n) : r[i] = IF i <= m THEN p[i] ELSE q[i - m]
  <2> DEFINE W == Words \X Words
  <2>1. p \in Seq(W) /\ q \in Seq(W)
    BY <1>1
  <2> HIDE DEF W
  <2>2. /\ p \o q \in Seq(W) /\ Len(p \o q) = Len(p) + Len(q)
        /\ \A i \in 1..(Len(p) + Len(q)) : (p \o q)[i] = IF i <= Len(p) THEN p[i] ELSE q[i - Len(p)]
    BY <2>1, ConcatProperties
  <2> QED
    BY <1>1, <2>2 DEF W
<1>4. /\ \A i \in 1..m : /\ p[i][1] = a[i]
                         /\ a[i] \in Keys => i + 1 \in 1..m /\ p[i][2] = a[i + 1]
      /\ \A i \in 1..n : /\ q[i][1] = b[i]
                         /\ b[i] \in Keys => i + 1 \in 1..n /\ q[i][2] = b[i + 1]
  BY DEF Tracks
<1> HIDE DEF c, r, m, n
<1>5. ASSUME NEW i \in 1..(m + n)
      PROVE  /\ r[i][1] = c[i]
             /\ c[i] \in Keys => i + 1 \in 1..(m + n) /\ r[i][2] = c[i + 1]
  <2>1. CASE i <= m
    <3>1. i \in 1..m /\ c[i] = a[i] /\ r[i] = p[i]
      BY <1>1, <1>2, <1>3, <2>1
    <3>2. i + 1 \in 1..m => i + 1 \in 1..(m + n) /\ c[i + 1] = a[i + 1]
      BY <1>1, <1>2
    <3> QED
      BY <1>4, <3>1, <3>2
  <2>2. CASE i > m
    <3> DEFINE j == i - m
    <3>1. j \in 1..n /\ c[i] = b[j] /\ r[i] = q[j]
      BY <1>1, <1>2, <1>3, <2>2
    <3>2. j + 1 \in 1..n => i + 1 \in 1..(m + n) /\ c[i + 1] = b[j + 1]
      BY <1>1, <1>2, <2>2
    <3> HIDE DEF j
    <3> QED
      BY <1>4, <3>1, <3>2
  <2> QED
    BY <1>1, <2>1, <2>2
<1> QED
  BY <1>2, <1>3, <1>5 DEF Tracks, c, r, m, n

\* A node that stands for itself, and a key with its value
Alone(k) == <<<<k, k>>>>
Pair(k, v) == <<<<k, v>>, <<v, v>>>>

LEMMA TracksLeaves ==
  /\ Tracks(<< >>, << >>)
  /\ \A k \in Plain : Tracks(<<k>>, Alone(k))
  /\ \A k \in Words, v \in Plain : Tracks(<<k, v>>, Pair(k, v))
<1>1. Tracks(<< >>, << >>)
  BY DEF Tracks
<1>2. ASSUME NEW k \in Plain PROVE Tracks(<<k>>, Alone(k))
  <2> DEFINE ns == <<k>>
             ps == Alone(k)
  <2>1. ns \in Seq(Words) /\ Len(ns) = 1 /\ ns[1] = k
    BY KeysAndValues
  <2>2. ps \in Seq(Words \X Words) /\ Len(ps) = 1 /\ ps[1][1] = k
    BY KeysAndValues DEF Alone
  <2> HIDE DEF ns, ps
  <2>3. \A i \in 1..1 : i = 1
    OBVIOUS
  <2>4. Tracks(ns, ps)
    BY <2>1, <2>2, <2>3, KeysAndValues DEF Tracks
  <2> QED
    BY <2>4 DEF ns, ps
<1>3. ASSUME NEW k \in Words, NEW v \in Plain PROVE Tracks(<<k, v>>, Pair(k, v))
  <2> DEFINE ns == <<k, v>>
             ps == Pair(k, v)
  <2>1. ns \in Seq(Words) /\ Len(ns) = 2 /\ ns[1] = k /\ ns[2] = v
    BY KeysAndValues
  <2>2. /\ ps \in Seq(Words \X Words) /\ Len(ps) = 2
        /\ ps[1][1] = k /\ ps[1][2] = v /\ ps[2][1] = v
    BY KeysAndValues DEF Pair
  <2>3. v \notin Keys
    BY KeysAndValues
  <2> HIDE DEF ns, ps
  <2>4. /\ ps[1][1] = ns[1] /\ (ns[1] \in Keys => 1 + 1 \in 1..2 /\ ps[1][2] = ns[1 + 1])
        /\ ps[2][1] = ns[2] /\ ns[2] \notin Keys
    BY <2>1, <2>2, <2>3
  <2>5. \A i \in 1..2 : i = 1 \/ i = 2
    OBVIOUS
  <2>6. Tracks(ns, ps)
    BY <2>1, <2>2, <2>4, <2>5 DEF Tracks
  <2> QED
    BY <2>6 DEF ns, ps
<1> QED
  BY <1>1, <1>2, <1>3

\* The entries of a block: settings, policies, and modules to listen to
EntryType(kind) == CASE kind = "setting" -> SettingKeys \X Values
                     [] kind = "policy"  -> PolicyKeys \X Values
                     [] kind = "notify"  -> Values

entry_nodes(kind, e) == CASE kind = "setting" -> e
                          [] kind = "policy"  -> <<Nest>> \o e
                          [] kind = "notify"  -> <<Nest>> \o Entry("notify-events-from", e)
entry_pairs(kind, e) == CASE kind = "setting" -> Pair(e[1], e[2])
                          [] kind = "policy"  -> Alone(Nest) \o Pair(e[1], e[2])
                          [] kind = "notify"  -> Alone(Nest) \o Pair("notify-events-from", e)

EntryNodes == INSTANCE NlaFold WITH op <- entry_nodes
EntryPairs == INSTANCE NlaFold WITH op <- entry_pairs

LEMMA TracksEntry ==
  ASSUME NEW kind \in {"setting", "policy", "notify"}, NEW e \in EntryType(kind)
  PROVE  Tracks(entry_nodes(kind, e), entry_pairs(kind, e))
<1>1. Tracks(<<Nest>>, Alone(Nest))
  BY TracksLeaves, KeysAndValues
<1>2. CASE kind = "setting"
  <2>1. e[1] \in Words /\ e[2] \in Plain /\ e = <<e[1], e[2]>>
    BY <1>2, KeysAndValues DEF EntryType
  <2> QED
    BY <1>2, <2>1, TracksLeaves DEF entry_nodes, entry_pairs
<1>3. CASE kind = "policy"
  <2>1. e[1] \in Words /\ e[2] \in Plain /\ e = <<e[1], e[2]>>
    BY <1>3, KeysAndValues DEF EntryType
  <2>2. Tracks(e, Pair(e[1], e[2]))
    BY <2>1, TracksLeaves
  <2>3. Tracks(<<Nest>> \o e, Alone(Nest) \o Pair(e[1], e[2]))
    BY <1>1, <2>2, TracksConcat
  <2> QED
    BY <1>3, <2>3 DEF entry_nodes, entry_pairs
<1>4. CASE kind = "notify"
  <2>1. "notify-events-from" \in Words /\ e \in Plain
    BY <1>4, KeysAndValues DEF EntryType
  <2>2. Tracks(Entry("notify-events-from", e), Pair("notify-events-from", e))
    BY <2>1, TracksLeaves DEF Entry
  <2>3. Tracks(<<Nest>> \o Entry("notify-events-from", e), Alone(Nest) \o Pair("notify-events-from", e))
    BY <1>1, <2>2, TracksConcat
  <2> QED
    BY <1>4, <2>3 DEF entry_nodes, entry_pairs
<1> QED
  BY <1>2, <1>3, <1>4

LEMMA TracksEntries ==
  ASSUME NEW kind \in {"setting", "policy", "notify"}, NEW es \in Seq(EntryType(kind))
  PROVE  Tracks(EntryNodes!Mapped(kind, es), EntryPairs!Mapped(kind, es))
<1> DEFINE T == EntryType(kind)
           P == {u \in Seq(T) : Tracks(EntryNodes!Mapped(kind, u), EntryPairs!Mapped(kind, u))}
<1>1. \A e \in T : /\ Tracks(entry_nodes(kind, e), entry_pairs(kind, e))
                   /\ entry_nodes(kind, e) \in Seq(Words)
                   /\ entry_pairs(kind, e) \in Seq(Words \X Words)
  BY TracksEntry DEF Tracks
<1> HIDE DEF T
<1>2. /\ EntryNodes!Mapped(kind, << >>) = << >>
      /\ \A s \in Seq(T), x \in T : EntryNodes!Mapped(kind, Append(s, x))
                                      = EntryNodes!Mapped(kind, s) \o entry_nodes(kind, x)
  BY <1>1, EntryNodes!MappedAppend
<1>3. /\ EntryPairs!Mapped(kind, << >>) = << >>
      /\ \A s \in Seq(T), x \in T : EntryPairs!Mapped(kind, Append(s, x))
                                      = EntryPairs!Mapped(kind, s) \o entry_pairs(kind, x)
  <2> DEFINE W == Words \X Words
  <2>1. \A e \in T : entry_pairs(kind, e) \in Seq(W)
    BY <1>1
  <2> HIDE DEF W
  <2> QED
    BY <2>1, EntryPairs!MappedAppend
<1>4. << >> \in P
  BY <1>2, <1>3, TracksLeaves
<1>5. ASSUME NEW u \in Seq(T), NEW x \in T, u \in P PROVE Append(u, x) \in P
  <2>1. Tracks(EntryNodes!Mapped(kind, u) \o entry_nodes(kind, x),
               EntryPairs!Mapped(kind, u) \o entry_pairs(kind, x))
    BY <1>1, <1>5, TracksConcat
  <2>2. Append(u, x) \in Seq(T)
    BY AppendProperties
  <2> QED
    BY <1>2, <1>3, <2>1, <2>2
<1> HIDE DEF P
<1>6. es \in P
  BY <1>4, <1>5, EntryNodes!SeqInduction DEF T
<1> QED
  BY <1>6 DEF P

\* The blocks of a file
list_pairs(key, kind, es) ==
  IF es = << >> THEN << >> ELSE Pair(key, Nest) \o EntryPairs!Mapped(kind, es)

block_nodes(x, b) == ModuleNodes(b)
block_pairs(x, b) ==
  Alone(Nest) \o Pair("module", b.module) \o EntryPairs!Mapped("setting", b.settings)
  \o list_pairs("policy", "policy", b.policy) \o list_pairs("notify-me", "notify", b.notify)

BlockNodes == INSTANCE NlaFold WITH op <- block_nodes
BlockPairs == INSTANCE NlaFold WITH op <- block_pairs

LEMMA TracksList ==
  ASSUME NEW kind \in {"policy", "notify"}, NEW es \in Seq(EntryType(kind)), NEW key \in Plain
  PROVE  Tracks(List(key, [k \in DOMAIN es |-> entry_nodes(kind, es[k])]), list_pairs(key, kind, es))
<1> DEFINE ns == [k \in DOMAIN es |-> entry_nodes(kind, es[k])]
<1>1. FlattenSeq(ns) = EntryNodes!Mapped(kind, es)
  BY DEF EntryNodes!Mapped, FlattenSeq, EntryNodes!FlattenSeq
<1>2. DOMAIN es = 1..Len(es) /\ Len(es) \in Nat /\ (es = << >> <=> Len(es) = 0)
  BY LenProperties, EmptySeq
<1>3. ns = << >> <=> es = << >>
  <2>1. ns = << >> => es = << >>
    <3>1. DOMAIN ns = 1..Len(es)
      BY <1>2
    <3>2. DOMAIN << >> = {}
      OBVIOUS
    <3>3. Len(es) # 0 => 1 \in 1..Len(es)
      BY <1>2
    <3> HIDE DEF ns
    <3> QED
      BY <1>2, <3>1, <3>2, <3>3
  <2>2. es = << >> => ns = << >>
    OBVIOUS
  <2> QED
    BY <2>1, <2>2
<1> HIDE DEF ns
<1>4. ASSUME es = << >> PROVE Tracks(List(key, ns), list_pairs(key, kind, es))
  BY <1>3, <1>4, TracksLeaves DEF List, list_pairs
<1>5. ASSUME es # << >> PROVE Tracks(List(key, ns), list_pairs(key, kind, es))
  <2>1. Tracks(<<key, Nest>>, Pair(key, Nest))
    BY KeysAndValues, TracksLeaves
  <2>2. Tracks(EntryNodes!Mapped(kind, es), EntryPairs!Mapped(kind, es))
    BY TracksEntries
  <2>3. Tracks(<<key, Nest>> \o FlattenSeq(ns), Pair(key, Nest) \o EntryPairs!Mapped(kind, es))
    BY <1>1, <2>1, <2>2, TracksConcat
  <2> QED
    BY <1>3, <1>5, <2>3 DEF List, list_pairs
<1> QED
  BY <1>4, <1>5 DEF ns

LEMMA TracksBlock ==
  ASSUME NEW b \in PlainBlocks
  PROVE  Tracks(block_nodes({}, b), block_pairs({}, b))
<1>1. /\ b.module \in Values
      /\ b.settings \in Seq(EntryType("setting"))
      /\ b.policy \in Seq(EntryType("policy"))
      /\ b.notify \in Seq(EntryType("notify"))
  BY DEF PlainBlocks, EntryType
<1> DEFINE sn == EntryNodes!Mapped("setting", b.settings)
           sp == EntryPairs!Mapped("setting", b.settings)
           pn == List("policy", [k \in DOMAIN b.policy |-> <<Nest>> \o b.policy[k]])
           pp == list_pairs("policy", "policy", b.policy)
           nn == List("notify-me", [k \in DOMAIN b.notify |->
                                      <<Nest>> \o Entry("notify-events-from", b.notify[k])])
           np == list_pairs("notify-me", "notify", b.notify)
           mn == Entry("module", b.module)
           mp == Pair("module", b.module)
<1>2. Tracks(<<Nest>>, Alone(Nest)) /\ Tracks(mn, mp)
  BY <1>1, TracksLeaves, KeysAndValues DEF Entry
<1>3. Tracks(sn, sp)
  BY <1>1, TracksEntries
<1>4. FlattenSeq(b.settings) = sn
  <2>1. b.settings = [k \in DOMAIN b.settings |-> b.settings[k]]
    BY <1>1
  <2>2. [k \in DOMAIN b.settings |-> entry_nodes("setting", b.settings[k])]
          = [k \in DOMAIN b.settings |-> b.settings[k]]
    BY DEF entry_nodes
  <2>3. FlattenSeq([k \in DOMAIN b.settings |-> entry_nodes("setting", b.settings[k])]) = sn
    BY DEF EntryNodes!Mapped, FlattenSeq, EntryNodes!FlattenSeq
  <2> QED
    BY <2>1, <2>2, <2>3
<1>5. Tracks(pn, pp)
  <2>1. [k \in DOMAIN b.policy |-> entry_nodes("policy", b.policy[k])]
          = [k \in DOMAIN b.policy |-> <<Nest>> \o b.policy[k]]
    BY DEF entry_nodes
  <2> QED
    BY <1>1, <2>1, TracksList, KeysAndValues
<1>6. Tracks(nn, np)
  <2>1. [k \in DOMAIN b.notify |-> entry_nodes("notify", b.notify[k])]
          = [k \in DOMAIN b.notify |-> <<Nest>> \o Entry("notify-events-from", b.notify[k])]
    BY DEF entry_nodes
  <2> QED
    BY <1>1, <2>1, TracksList, KeysAndValues
<1>7. /\ block_nodes({}, b) = <<Nest>> \o mn \o sn \o pn \o nn
      /\ block_pairs({}, b) = Alone(Nest) \o mp \o sp \o pp \o np
  BY <1>4 DEF block_nodes, block_pairs, ModuleNodes
<1> HIDE DEF sn, sp, pn, pp, nn, np, mn, mp
<1>8. Tracks(<<Nest>> \o mn, Alone(Nest) \o mp)
  BY <1>2, TracksConcat
<1>9. Tracks(<<Nest>> \o mn \o sn, Alone(Nest) \o mp \o sp)
  BY <1>3, <1>8, TracksConcat
<1>10. Tracks(<<Nest>> \o mn \o sn \o pn, Alone(Nest) \o mp \o sp \o pp)
  BY <1>5, <1>9, TracksConcat
<1>11. Tracks(<<Nest>> \o mn \o sn \o pn \o nn, Alone(Nest) \o mp \o sp \o pp \o np)
  BY <1>6, <1>10, TracksConcat
<1> QED
  BY <1>7, <1>11

\* The pairs of a file
file_pairs(f) == Alone(Nest) \o Pair("nlagent-modules", Nest) \o BlockPairs!Mapped({}, f)

LEMMA TracksFile ==
  ASSUME NEW f \in Seq(PlainBlocks)
  PROVE  Tracks(Nodes(f), file_pairs(f))
<1> DEFINE P == {u \in Seq(PlainBlocks) : Tracks(BlockNodes!Mapped({}, u), BlockPairs!Mapped({}, u))}
<1>1. \A b \in PlainBlocks : /\ Tracks(block_nodes({}, b), block_pairs({}, b))
                             /\ block_nodes({}, b) \in Seq(Words)
                             /\ block_pairs({}, b) \in Seq(Words \X Words)
  BY TracksBlock DEF Tracks
<1>2. /\ BlockNodes!Mapped({}, << >>) = << >>
      /\ \A s \in Seq(PlainBlocks), x \in PlainBlocks :
           BlockNodes!Mapped({}, Append(s, x)) = BlockNodes!Mapped({}, s) \o block_nodes({}, x)
  BY <1>1, BlockNodes!MappedAppend
<1>3. /\ BlockPairs!Mapped({}, << >>) = << >>
      /\ \A s \in Seq(PlainBlocks), x \in PlainBlocks :
           BlockPairs!Mapped({}, Append(s, x)) = BlockPairs!Mapped({}, s) \o block_pairs({}, x)
  <2> DEFINE W == Words \X Words
  <2>1. \A b \in PlainBlocks : block_pairs({}, b) \in Seq(W)
    BY <1>1
  <2> HIDE DEF W
  <2> QED
    BY <2>1, BlockPairs!MappedAppend
<1>4. << >> \in P
  BY <1>2, <1>3, TracksLeaves
<1>5. ASSUME NEW u \in Seq(PlainBlocks), NEW x \in PlainBlocks, u \in P PROVE Append(u, x) \in P
  <2>1. Tracks(BlockNodes!Mapped({}, u) \o block_nodes({}, x),
               BlockPairs!Mapped({}, u) \o block_pairs({}, x))
    BY <1>1, <1>5, TracksConcat
  <2>2. Append(u, x) \in Seq(PlainBlocks)
    BY AppendProperties
  <2> QED
    BY <1>2, <1>3, <2>1, <2>2
<1> HIDE DEF P
<1>6. f \in P
  BY <1>4, <1>5, BlockNodes!SeqInduction
<1>7. FlattenSeq([j \in DOMAIN f |-> ModuleNodes(f[j])]) = BlockNodes!Mapped({}, f)
  BY DEF BlockNodes!Mapped, FlattenSeq, BlockNodes!FlattenSeq, block_nodes
<1>8. Tracks(<<Nest>> \o Entry("nlagent-modules", Nest), Alone(Nest) \o Pair("nlagent-modules", Nest))
  <2>1. /\ Tracks(<<Nest>>, Alone(Nest))
        /\ Tracks(Entry("nlagent-modules", Nest), Pair("nlagent-modules", Nest))
    BY TracksLeaves, KeysAndValues DEF Entry
  <2> QED
    BY <2>1, TracksConcat
<1>9. Tracks(BlockNodes!Mapped({}, f), BlockPairs!Mapped({}, f))
  BY <1>6 DEF P
<1> QED
  BY <1>7, <1>8, <1>9, TracksConcat DEF Nodes, file_pairs

-----------------------------------------------------------------------------
(* What the entries make of a module's configuration, one after the other. *)

Number == {Strtol[v] : v \in Values}
Config == [enable : BOOLEAN, addr : Values \cup {"NULL"}, port : Number \cup {-1, 0},
           policy : [PolicyKeys -> Seq(Number)], notify_me : SUBSET Names]

\* module_id, config, and ret before the end
Reader == [id : Names, config : [Names -> Config], ret : {"reading"}]

\* The module that entries are for gets configuration c.
at(s, c) == [s EXCEPT !.config = [s.config EXCEPT ![s.id] = c]]

current(s) == s.config[s.id]

\* What the loop of nla_read_config does with a node and the one behind it
read_node(s, p) ==
  IF s.ret = "failed" THEN s
  ELSE IF p[1] = "module"
    THEN IF p[2] \in Names THEN at([s EXCEPT !.id = p[2]], Initialised) ELSE [s EXCEPT !.ret = "failed"]
  ELSE IF p[1] = "notify-events-from"
    THEN IF p[2] \in Names
         THEN at(s, [current(s) EXCEPT !.notify_me = @ \cup {p[2]}])
         ELSE [s EXCEPT !.ret = "failed"]
  ELSE IF p[1] \in SettingKeys THEN at(s, set_setting(current(s), p[1], p[2]))
  ELSE IF p[1] \in PolicyKeys THEN at(s, set_policy(current(s), p[1], p[2]))
  ELSE s

Reads == INSTANCE NlaFold WITH op <- read_node

LEMMA AtFacts ==
  ASSUME NEW s \in Reader
  PROVE  /\ current(s) \in Config
         /\ at(s, current(s)) = s
         /\ \A c \in Config : /\ at(s, c) \in Reader
                              /\ current(at(s, c)) = c
                              /\ \A d : at(at(s, c), d) = at(s, d)
<1>1. s.id \in Names /\ s.config \in [Names -> Config] /\ s.ret = "reading"
  BY DEF Reader
<1>2. at(s, current(s)) = s
  <2>1. [s.config EXCEPT ![s.id] = s.config[s.id]] = s.config
    BY <1>1
  <2>2. [s EXCEPT !.config = s.config] = s
    BY DEF Reader
  <2> QED
    BY <2>1, <2>2 DEF at, current
<1>3. ASSUME NEW c \in Config
      PROVE  /\ at(s, c) \in Reader
             /\ current(at(s, c)) = c
             /\ \A d : at(at(s, c), d) = at(s, d)
  <2> DEFINE g == [s.config EXCEPT ![s.id] = c]
  <2>1. g \in [Names -> Config] /\ g[s.id] = c
    BY <1>1
  <2>2. \A d : [g EXCEPT ![s.id] = d] = [s.config EXCEPT ![s.id] = d]
    BY <1>1
  <2> HIDE DEF g
  <2>3. at(s, c) \in Reader /\ at(s, c).config = g /\ at(s, c).id = s.id
    BY <1>1, <2>1 DEF at, Reader, g
  <2>4. \A d : at(at(s, c), d) = [at(s, c) EXCEPT !.config = [g EXCEPT ![s.id] = d]]
    BY <2>3 DEF at
  <2>5. \A h : [at(s, c) EXCEPT !.config = h] = [s EXCEPT !.config = h]
    BY DEF at, Reader
  <2>6. current(at(s, c)) = c
    BY <2>1, <2>3 DEF current
  <2>7. ASSUME NEW d PROVE at(at(s, c), d) = at(s, d)
    <3>1. at(at(s, c), d) = [s EXCEPT !.config = [s.config EXCEPT ![s.id] = d]]
      BY <2>2, <2>4, <2>5
    <3> QED
      BY <3>1 DEF at
  <2> QED
    BY <2>3, <2>6, <2>7
<1> QED
  BY <1>1, <1>2, <1>3 DEF current

LEMMA ReadsLeaves ==
  ASSUME NEW s
  PROVE  /\ Reads!Fold(s, << >>) = s
         /\ \A k \in Plain : Reads!Fold(s, Alone(k)) = s
         /\ \A k \in Words, v \in Plain : Reads!Fold(s, Pair(k, v)) = read_node(s, <<k, v>>)
<1> DEFINE W == Words \X Words
<1>1. \A t : \A k \in Plain : read_node(t, <<k, k>>) = t
  BY KeysAndValues DEF read_node
<1>2. \A k, v \in Words : <<k, v>> \in W
  OBVIOUS
<1>3. \A k \in Plain : k \in Words
  BY KeysAndValues
<1> HIDE DEF W
<1>4. ASSUME NEW x \in W PROVE Reads!Fold(s, Append(<< >>, x)) = read_node(s, x)
  <2>1. << >> \in Seq(W)
    OBVIOUS
  <2>2. Reads!Fold(s, Append(<< >>, x)) = read_node(Reads!Fold(s, << >>), x)
    BY <2>1, Reads!FoldAppend
  <2> QED
    BY <2>2, Reads!FoldEmpty
<1>5. ASSUME NEW x \in W, NEW y \in W
      PROVE  Reads!Fold(s, Append(Append(<< >>, x), y)) = read_node(read_node(s, x), y)
  <2> DEFINE one == Append(<< >>, x)
  <2>1. one \in Seq(W) /\ Reads!Fold(s, one) = read_node(s, x)
    BY <1>4
  <2> HIDE DEF one
  <2>2. Reads!Fold(s, Append(one, y)) = read_node(Reads!Fold(s, one), y)
    BY <2>1, Reads!FoldAppend
  <2> QED
    BY <2>1, <2>2 DEF one
<1>6. ASSUME NEW k \in Plain PROVE Reads!Fold(s, Alone(k)) = s
  <2>1. Alone(k) = Append(<< >>, <<k, k>>)
    BY DEF Alone
  <2> QED
    BY <1>1, <1>2, <1>3, <1>4, <2>1
<1>7. ASSUME NEW k \in Words, NEW v \in Plain
      PROVE  Reads!Fold(s, Pair(k, v)) = read_node(s, <<k, v>>)
  <2>1. Pair(k, v) = Append(Append(<< >>, <<k, v>>), <<v, v>>)
    BY DEF Pair
  <2>2. Reads!Fold(s, Pair(k, v)) = read_node(read_node(s, <<k, v>>), <<v, v>>)
    BY <1>2, <1>3, <1>5, <2>1
  <2> QED
    BY <1>1, <2>2
<1> QED
  BY <1>6, <1>7, Reads!FoldEmpty

\* A reader that has failed stays as it is.
LEMMA FailureIsFinal ==
  ASSUME NEW s, s.ret = "failed", NEW W, NEW ps \in Seq(W)
  PROVE  Reads!Fold(s, ps) = s
<1> DEFINE P == {u \in Seq(W) : Reads!Fold(s, u) = s}
<1>1. << >> \in P
  BY Reads!FoldEmpty
<1>2. ASSUME NEW u \in Seq(W), NEW x \in W, u \in P PROVE Append(u, x) \in P
  <2>1. Reads!Fold(s, Append(u, x)) = read_node(s, x) /\ Append(u, x) \in Seq(W)
    BY <1>2, Reads!FoldAppend, AppendProperties
  <2>2. read_node(s, x) = s
    BY DEF read_node
  <2> QED
    BY <2>1, <2>2
<1> HIDE DEF P
<1>3. ps \in P
  BY <1>1, <1>2, Reads!SeqInduction
<1> QED
  BY <1>3 DEF P

\* Of the pairs of an entry, the one with its key counts.
entry_read(kind, e) == IF kind = "notify" THEN <<"notify-events-from", e>> ELSE <<e[1], e[2]>>

LEMMA EntryRead ==
  ASSUME NEW s, NEW kind \in {"setting", "policy", "notify"}
  PROVE  /\ Reads!Fold(s, EntryPairs!Mapped(kind, << >>)) = s
         /\ \A es \in Seq(EntryType(kind)), e \in EntryType(kind) :
              Reads!Fold(s, EntryPairs!Mapped(kind, Append(es, e)))
                = read_node(Reads!Fold(s, EntryPairs!Mapped(kind, es)), entry_read(kind, e))
<1> DEFINE T == EntryType(kind)
           W == Words \X Words
<1>1. \A e \in T : entry_pairs(kind, e) \in Seq(W)
  BY TracksEntry DEF Tracks
<1>2. ASSUME NEW t, NEW e \in T
      PROVE  Reads!Fold(t, entry_pairs(kind, e)) = read_node(t, entry_read(kind, e))
  <2>1. CASE kind = "setting"
    <3>1. e[1] \in Words /\ e[2] \in Plain
      BY <2>1, KeysAndValues DEF EntryType
    <3> QED
      BY <2>1, <3>1, ReadsLeaves DEF entry_pairs, entry_read
  <2>2. CASE kind \in {"policy", "notify"}
    <3> DEFINE k == IF kind = "policy" THEN e[1] ELSE "notify-events-from"
               v == IF kind = "policy" THEN e[2] ELSE e
    <3>1. k \in Words /\ v \in Plain /\ Nest \in Plain /\ Nest \in Words /\ v \in Words
      BY <2>2, KeysAndValues DEF EntryType
    <3>2. entry_pairs(kind, e) = Alone(Nest) \o Pair(k, v) /\ entry_read(kind, e) = <<k, v>>
      BY <2>2 DEF entry_pairs, entry_read
    <3> HIDE DEF k, v
    <3>3. Alone(Nest) \in Seq(W) /\ Pair(k, v) \in Seq(W)
      BY <3>1 DEF Alone, Pair
    <3> HIDE DEF W
    <3>4. Reads!Fold(t, Alone(Nest) \o Pair(k, v)) = Reads!Fold(Reads!Fold(t, Alone(Nest)), Pair(k, v))
      BY <3>3, Reads!FoldConcat
    <3>5. Reads!Fold(t, Alone(Nest)) = t
      BY <3>1, ReadsLeaves
    <3>6. Reads!Fold(t, Pair(k, v)) = read_node(t, <<k, v>>)
      BY <3>1, ReadsLeaves
    <3> QED
      BY <3>2, <3>4, <3>5, <3>6
  <2> QED
    BY <2>1, <2>2
<1> HIDE DEF T, W
<1>3. /\ EntryPairs!Mapped(kind, << >>) = << >>
      /\ \A es \in Seq(T) : EntryPairs!Mapped(kind, es) \in Seq(W)
      /\ \A es \in Seq(T), e \in T : EntryPairs!Mapped(kind, Append(es, e))
                                       = EntryPairs!Mapped(kind, es) \o entry_pairs(kind, e)
  BY <1>1, EntryPairs!MappedAppend
<1>4. ASSUME NEW es \in Seq(T), NEW e \in T
      PROVE  Reads!Fold(s, EntryPairs!Mapped(kind, Append(es, e)))
               = read_node(Reads!Fold(s, EntryPairs!Mapped(kind, es)), entry_read(kind, e))
  <2> DEFINE before == EntryPairs!Mapped(kind, es)
             more == entry_pairs(kind, e)
  <2>1. /\ before \in Seq(W) /\ more \in Seq(W)
        /\ EntryPairs!Mapped(kind, Append(es, e)) = before \o more
    BY <1>1, <1>3
  <2>2. Reads!Fold(Reads!Fold(s, before), more) = read_node(Reads!Fold(s, before), entry_read(kind, e))
    BY <1>2
  <2> HIDE DEF before, more
  <2>3. Reads!Fold(s, before \o more) = Reads!Fold(Reads!Fold(s, before), more)
    BY <2>1, Reads!FoldConcat
  <2> QED
    BY <2>1, <2>2, <2>3 DEF before
<1> QED
  BY <1>3, <1>4, Reads!FoldEmpty DEF T

\* The values of a key, and their numbers
value_of(key, e) == IF e[1] = key THEN <<e[2]>> ELSE << >>
KeyValues == INSTANCE NlaFold WITH op <- value_of

LEMMA ValuesAppend ==
  ASSUME NEW key, NEW T, \A e \in T : e[2] \in Values
  PROVE  /\ ValuesOf(<< >>, key) = << >>
         /\ \A es \in Seq(T) : ValuesOf(es, key) \in Seq(Values)
         /\ \A es \in Seq(T), e \in T :
              ValuesOf(Append(es, e), key)
                = IF e[1] = key THEN Append(ValuesOf(es, key), e[2]) ELSE ValuesOf(es, key)
<1>1. \A es : ValuesOf(es, key) = KeyValues!Mapped(key, es)
  BY DEF ValuesOf, KeyValues!Mapped, FlattenSeq, KeyValues!FlattenSeq, value_of
<1>2. \A e \in T : value_of(key, e) \in Seq(Values)
  BY DEF value_of
<1>3. /\ ValuesOf(<< >>, key) = << >>
      /\ \A es \in Seq(T) : ValuesOf(es, key) \in Seq(Values)
      /\ \A es \in Seq(T), e \in T : ValuesOf(Append(es, e), key) = ValuesOf(es, key) \o value_of(key, e)
  <2>1. /\ KeyValues!Mapped(key, << >>) = << >>
        /\ \A es \in Seq(T) : KeyValues!Mapped(key, es) \in Seq(Values)
        /\ \A es \in Seq(T), e \in T : KeyValues!Mapped(key, Append(es, e))
                                         = KeyValues!Mapped(key, es) \o value_of(key, e)
    BY <1>2, KeyValues!MappedAppend
  <2> QED
    BY <1>1, <2>1
<1>4. ASSUME NEW es \in Seq(T), NEW e \in T
      PROVE  ValuesOf(es, key) \o value_of(key, e)
               = IF e[1] = key THEN Append(ValuesOf(es, key), e[2]) ELSE ValuesOf(es, key)
  <2> DEFINE vs == ValuesOf(es, key)
             v == e[2]
  <2>1. vs \in Seq(Values) /\ v \in Values
    BY <1>3
  <2> HIDE DEF vs, v
  <2>2. vs \o <<v>> = Append(vs, v) /\ vs \o << >> = vs
    BY <2>1, AppendIsConcat, ConcatEmptySeq
  <2> QED
    BY <2>2 DEF value_of, vs, v
<1> QED
  BY <1>3, <1>4

LEMMA NumbersAppend ==
  /\ Numbers(<< >>) = << >>
  /\ \A vs \in Seq(Values) : Numbers(vs) \in Seq(Number) /\ Len(Numbers(vs)) = Len(vs)
  /\ \A vs \in Seq(Values), v \in Values : Numbers(Append(vs, v)) = Append(Numbers(vs), Strtol[v])
<1>1. Numbers(<< >>) = << >>
  BY DEF Numbers
<1>2. ASSUME NEW vs \in Seq(Values)
      PROVE  /\ Numbers(vs) \in Seq(Number) /\ Len(Numbers(vs)) = Len(vs)
             /\ \A i \in 1..Len(vs) : Numbers(vs)[i] = Strtol[vs[i]]
  <2>1. DOMAIN vs = 1..Len(vs) /\ Len(vs) \in Nat /\ \A i \in 1..Len(vs) : vs[i] \in Values
    BY LenProperties, ElementOfSeq
  <2>2. Numbers(vs) = [k \in 1..Len(vs) |-> Strtol[vs[k]]]
    BY <2>1 DEF Numbers
  <2>3. \A i \in 1..Len(vs) : Strtol[vs[i]] \in Number
    BY <2>1 DEF Number
  <2> QED
    BY <2>1, <2>2, <2>3
<1>3. ASSUME NEW vs \in Seq(Values), NEW v \in Values
      PROVE  Numbers(Append(vs, v)) = Append(Numbers(vs), Strtol[v])
  <2> DEFINE long == Append(vs, v)
             old == Numbers(vs)
             new == Numbers(long)
             n == Len(vs)
             app == Append(old, Strtol[v])
  <2>1. /\ long \in Seq(Values) /\ Len(long) = n + 1 /\ long[n + 1] = v /\ n \in Nat
        /\ \A i \in 1..n : long[i] = vs[i]
    BY AppendProperties, LenProperties
  <2>2. /\ old \in Seq(Number) /\ Len(old) = n /\ Strtol[v] \in Number
        /\ \A i \in 1..n : old[i] = Strtol[vs[i]]
    BY <1>2 DEF Number
  <2> HIDE DEF long
  <2>3. /\ new \in Seq(Number) /\ Len(new) = n + 1
        /\ \A i \in 1..(n + 1) : new[i] = Strtol[long[i]]
    BY <1>2, <2>1
  <2> HIDE DEF old, new, n
  <2>4. /\ app \in Seq(Number) /\ Len(app) = n + 1 /\ app[n + 1] = Strtol[v]
        /\ \A i \in 1..n : app[i] = old[i]
    BY <2>2, AppendProperties
  <2> HIDE DEF app
  <2>5. \A i \in 1..(n + 1) : i = n + 1 \/ i \in 1..n
    BY <2>1
  <2>6. \A i \in 1..(n + 1) : new[i] = app[i]
    BY <2>1, <2>2, <2>3, <2>4, <2>5
  <2>7. new = app
    BY <2>3, <2>4, <2>6, SeqEqual
  <2> QED
    BY <2>7 DEF new, app, old, long
<1> QED
  BY <1>1, <1>2, <1>3

-----------------------------------------------------------------------------
(* The entries of one kind together.                                       *)

with_settings(c, es) ==
  LET port == ValuesOf(es, "server-port")
  IN [c EXCEPT !.addr = LastOf(ValuesOf(es, "server-address"), c.addr),
               !.port = IF port = << >> THEN c.port ELSE Strtol[Last(port)]]

LEMMA LastOfAppend ==
  ASSUME NEW vs \in Seq(Values), NEW v \in Values, NEW default
  PROVE  /\ LastOf(Append(vs, v), default) = v
         /\ Append(vs, v) # << >> /\ Last(Append(vs, v)) = v
         /\ LastOf(vs, default) \in Values \cup {default}
         /\ vs # << >> => Last(vs) \in Values
<1>1. /\ Append(vs, v) \in Seq(Values) /\ Append(vs, v) # << >>
      /\ Len(Append(vs, v)) = Len(vs) + 1 /\ Append(vs, v)[Len(vs) + 1] = v
  BY AppendProperties
<1>2. vs # << >> => vs[Len(vs)] \in Values
  <2>1. Len(vs) \in Nat /\ (vs # << >> => Len(vs) # 0)
    BY LenProperties, EmptySeq
  <2>2. vs # << >> => Len(vs) \in 1..Len(vs)
    BY <2>1
  <2> QED
    BY <2>2, ElementOfSeq
<1> QED
  BY <1>1, <1>2 DEF LastOf, Last

LEMMA SettingStep ==
  ASSUME NEW c \in Config, NEW es \in Seq(SettingKeys \X Values)
  PROVE  /\ with_settings(c, << >>) = c
         /\ with_settings(c, es) \in Config
         /\ \A e \in SettingKeys \X Values :
              set_setting(with_settings(c, es), e[1], e[2]) = with_settings(c, Append(es, e))
<1> DEFINE addr == ValuesOf(es, "server-address")
           port == ValuesOf(es, "server-port")
<1>1. addr \in Seq(Values) /\ port \in Seq(Values)
  BY ValuesAppend
<1>2. with_settings(c, << >>) = c
  <2>1. ValuesOf(<< >>, "server-address") = << >> /\ ValuesOf(<< >>, "server-port") = << >>
    BY ValuesAppend
  <2> QED
    BY <2>1 DEF with_settings, LastOf, Config
<1>3. with_settings(c, es) \in Config
  <2>1. LastOf(addr, c.addr) \in Values \cup {"NULL"}
    <3>1. c.addr \in Values \cup {"NULL"}
      BY DEF Config
    <3>2. addr # << >> => Last(addr) \in Values
      BY <1>1, LastOfAppend
    <3> QED
      BY <3>1, <3>2 DEF LastOf
  <2>2. port # << >> => Strtol[Last(port)] \in Number
    BY <1>1, LastOfAppend DEF Number
  <2> HIDE DEF addr, port
  <2>3. with_settings(c, es)
          = [c EXCEPT !.addr = LastOf(addr, c.addr),
                      !.port = IF port = << >> THEN c.port ELSE Strtol[Last(port)]]
    BY DEF with_settings, addr, port
  <2> QED
    BY <2>1, <2>2, <2>3 DEF Config
<1>4. ASSUME NEW e \in SettingKeys \X Values
      PROVE  set_setting(with_settings(c, es), e[1], e[2]) = with_settings(c, Append(es, e))
  <2> DEFINE k == e[1]
             v == e[2]
             addrs == ValuesOf(Append(es, e), "server-address")
             ports == ValuesOf(Append(es, e), "server-port")
  <2>1. k \in SettingKeys /\ v \in Values
    OBVIOUS
  <2>2. /\ addrs = IF k = "server-address" THEN Append(addr, v) ELSE addr
        /\ ports = IF k = "server-port" THEN Append(port, v) ELSE port
    <3> DEFINE T == SettingKeys \X Values
    <3>1. es \in Seq(T) /\ e \in T /\ \A x \in T : x[2] \in Values
      OBVIOUS
    <3> HIDE DEF T
    <3>2. /\ addrs = IF e[1] = "server-address" THEN Append(addr, e[2]) ELSE addr
          /\ ports = IF e[1] = "server-port" THEN Append(port, e[2]) ELSE port
      BY <3>1, ValuesAppend
    <3> QED
      BY <3>2
  <2>3. /\ with_settings(c, es)
             = [c EXCEPT !.addr = LastOf(addr, c.addr),
                         !.port = IF port = << >> THEN c.port ELSE Strtol[Last(port)]]
        /\ with_settings(c, Append(es, e))
             = [c EXCEPT !.addr = LastOf(addrs, c.addr),
                         !.port = IF ports = << >> THEN c.port ELSE Strtol[Last(ports)]]
    BY DEF with_settings
  <2> HIDE DEF k, v, addr, port, addrs, ports
  <2>4. \A a, b, x : /\ [[c EXCEPT !.addr = a, !.port = b] EXCEPT !.addr = x]
                          = [c EXCEPT !.addr = x, !.port = b]
                     /\ [[c EXCEPT !.addr = a, !.port = b] EXCEPT !.port = x]
                          = [c EXCEPT !.addr = a, !.port = x]
    BY DEF Config
  <2>5. CASE k = "server-address"
    <3>1. LastOf(addrs, c.addr) = v /\ ports = port
      BY <1>1, <2>1, <2>2, <2>5, LastOfAppend
    <3>2. set_setting(with_settings(c, es), k, v) = [with_settings(c, es) EXCEPT !.addr = v]
      BY <2>5 DEF set_setting
    <3> QED
      BY <2>3, <2>4, <3>1, <3>2 DEF k, v
  <2>6. CASE k = "server-port"
    <3>1. addrs = addr /\ ports # << >> /\ Last(ports) = v
      BY <1>1, <2>1, <2>2, <2>6, LastOfAppend
    <3>2. set_setting(with_settings(c, es), k, v) = [with_settings(c, es) EXCEPT !.port = Strtol[v]]
      BY <2>6 DEF set_setting
    <3> QED
      BY <2>3, <2>4, <3>1, <3>2 DEF k, v
  <2> QED
    BY <2>1, <2>5, <2>6 DEF SettingKeys, k, v
<1> QED
  BY <1>2, <1>3, <1>4

LEMMA SettingsRead ==
  ASSUME NEW s \in Reader, NEW es \in Seq(SettingKeys \X Values)
  PROVE  /\ with_settings(current(s), es) \in Config
         /\ Reads!Fold(s, EntryPairs!Mapped("setting", es)) = at(s, with_settings(current(s), es))
<1> DEFINE T == SettingKeys \X Values
           c == current(s)
           P == {u \in Seq(T) : Reads!Fold(s, EntryPairs!Mapped("setting", u)) = at(s, with_settings(c, u))}
<1>0. EntryType("setting") = T
  BY DEF EntryType
<1>1. c \in Config /\ at(s, c) = s
  BY AtFacts
<1> HIDE DEF c
<1>2. << >> \in P
  <2>1. Reads!Fold(s, EntryPairs!Mapped("setting", << >>)) = s
    BY EntryRead
  <2>2. with_settings(c, << >>) = c
    <3>1. << >> \in Seq(T)
      OBVIOUS
    <3> QED
      BY <1>1, <3>1, SettingStep
  <2> QED
    BY <1>1, <2>1, <2>2
<1>3. ASSUME NEW u \in Seq(T), NEW e \in T, u \in P PROVE Append(u, e) \in P
  <2> DEFINE d == with_settings(c, u)
  <2>1. d \in Config /\ set_setting(d, e[1], e[2]) = with_settings(c, Append(u, e))
    BY <1>1, SettingStep
  <2>2. at(s, d) \in Reader /\ current(at(s, d)) = d /\ \A x : at(at(s, d), x) = at(s, x)
    BY <2>1, AtFacts
  <2>3. Reads!Fold(s, EntryPairs!Mapped("setting", Append(u, e))) = read_node(at(s, d), <<e[1], e[2]>>)
    <3>1. Reads!Fold(s, EntryPairs!Mapped("setting", Append(u, e)))
            = read_node(Reads!Fold(s, EntryPairs!Mapped("setting", u)), entry_read("setting", e))
      <4> HIDE DEF T
      <4>1. u \in Seq(EntryType("setting")) /\ e \in EntryType("setting")
        BY <1>0, <1>3
      <4> QED
        BY <4>1, EntryRead
    <3> QED
      BY <1>3, <3>1 DEF entry_read
  <2>4. e[1] \in SettingKeys /\ Append(u, e) \in Seq(T)
    BY AppendProperties
  <2> HIDE DEF d, P
  <2>5. at(s, d).ret # "failed"
    BY <2>2 DEF Reader
  <2>6. read_node(at(s, d), <<e[1], e[2]>>) = at(at(s, d), set_setting(d, e[1], e[2]))
    BY <2>2, <2>4, <2>5, KeysAreDistinct DEF read_node
  <2> QED
    BY <2>1, <2>2, <2>3, <2>4, <2>6 DEF P
<1> HIDE DEF P, T
<1>4. es \in P
  <2>1. es \in Seq(T)
    BY DEF T
  <2> QED
    BY <1>2, <1>3, <2>1, Reads!SeqInduction
<1> QED
  BY <1>1, <1>4, SettingStep DEF P, c

\* What there is room for
limited(ns) ==
  IF Len(ns) <= NLA_POLICY_ENTRIES_MAX THEN ns ELSE SubSeq(ns, 1, NLA_POLICY_ENTRIES_MAX)

LEMMA LimitedAppend ==
  ASSUME NEW ns \in Seq(Number), NEW x \in Number
  PROVE  /\ limited(ns) \in Seq(Number)
         /\ limited(Append(ns, x)) = IF Len(limited(ns)) < NLA_POLICY_ENTRIES_MAX
                                     THEN Append(limited(ns), x) ELSE limited(ns)
<1> DEFINE max == NLA_POLICY_ENTRIES_MAX
           more == Append(ns, x)
           n == Len(ns)
<1>1. max \in Nat \ {0} /\ n \in Nat
  BY FilesAssumption, LenProperties DEF FilesAssumption
<1>2. /\ more \in Seq(Number) /\ Len(more) = n + 1
      /\ \A i \in 1..n : more[i] = ns[i]
  BY AppendProperties
<1>3. CASE n < max
  BY <1>1, <1>2, <1>3 DEF limited
<1>4. CASE n >= max
  <2> DEFINE short == SubSeq(ns, 1, max)
             shorter == SubSeq(more, 1, max)
  <2>1. /\ short \in Seq(Number) /\ Len(short) = max
        /\ \A i \in 1..max : short[i] = ns[i]
    BY <1>1, <1>4, SubSeqProperties
  <2>2. /\ shorter \in Seq(Number) /\ Len(shorter) = max
        /\ \A i \in 1..max : shorter[i] = more[i]
    <3> HIDE DEF more
    <3> QED
      BY <1>1, <1>2, <1>4, SubSeqProperties
  <2>3. \A i \in 1..max : i \in 1..n
    BY <1>1, <1>4
  <2> HIDE DEF short, shorter, more, max, n
  <2>4. shorter = short
    BY <1>2, <2>1, <2>2, <2>3, SeqEqual
  <2>5. limited(more) = shorter
    BY <1>1, <1>2, <1>4 DEF limited, shorter, max
  <2>6. limited(ns) = short
    <3>1. CASE n = max
      <4>1. short = ns
        BY <2>1, <3>1, SeqEqual DEF n
      <4> QED
        BY <1>1, <3>1, <4>1 DEF limited, max, n
    <3>2. CASE n > max
      BY <1>1, <3>2 DEF limited, short, max, n
    <3> QED
      BY <1>1, <1>4, <3>1, <3>2
  <2> QED
    BY <1>1, <2>1, <2>4, <2>5, <2>6 DEF more, max
<1> QED
  BY <1>1, <1>3, <1>4

with_policy(c, es) ==
  [c EXCEPT !.policy = [k \in PolicyKeys |-> limited(Numbers(ValuesOf(es, k)))]]

LEMMA PolicyStep ==
  ASSUME NEW c \in Config, NEW es \in Seq(PolicyKeys \X Values)
  PROVE  /\ c.policy = NoPolicies => with_policy(c, << >>) = c
         /\ with_policy(c, es) \in Config
         /\ \A e \in PolicyKeys \X Values :
              set_policy(with_policy(c, es), e[1], e[2]) = with_policy(c, Append(es, e))
<1> DEFINE T == PolicyKeys \X Values
           lim(u, k) == limited(Numbers(ValuesOf(u, k)))
<1>0. /\ es \in Seq(T)
      /\ \A e \in T : e[1] \in PolicyKeys /\ e[2] \in Values
  OBVIOUS
<1>1. NLA_POLICY_ENTRIES_MAX \in Nat \ {0}
  BY FilesAssumption DEF FilesAssumption
<1>2. c.policy = NoPolicies => with_policy(c, << >>) = c
  <2>1. \A k : ValuesOf(<< >>, k) = << >>
    <3>1. \A e \in {} : e[2] \in Values
      OBVIOUS
    <3> QED
      BY <3>1, ValuesAppend
  <2>2. Len(<< >>) = 0
    OBVIOUS
  <2>3. \A k : lim(<< >>, k) = << >>
    BY <1>1, <2>1, <2>2, NumbersAppend DEF limited
  <2>4. with_policy(c, << >>) = [c EXCEPT !.policy = NoPolicies]
    BY <2>3 DEF with_policy, NoPolicies
  <2> QED
    BY <2>4 DEF Config
<1> HIDE DEF T
<1>3. ASSUME NEW k PROVE ValuesOf(es, k) \in Seq(Values) /\ lim(es, k) \in Seq(Number)
  <2>1. ValuesOf(es, k) \in Seq(Values)
    BY <1>0, ValuesAppend
  <2>2. Numbers(ValuesOf(es, k)) \in Seq(Number)
    BY <2>1, NumbersAppend
  <2>3. limited(Numbers(ValuesOf(es, k))) \in Seq(Number)
    <3> DEFINE ns == Numbers(ValuesOf(es, k))
    <3>1. ns \in Seq(Number) /\ Len(ns) \in Nat
      BY <2>2, LenProperties
    <3> HIDE DEF ns
    <3>2. Len(ns) > NLA_POLICY_ENTRIES_MAX => SubSeq(ns, 1, NLA_POLICY_ENTRIES_MAX) \in Seq(Number)
      BY <1>1, <3>1, SubSeqProperties
    <3> QED
      BY <1>1, <3>1, <3>2 DEF limited, ns
  <2> QED
    BY <2>1, <2>3
<1>4. with_policy(c, es) \in Config
  BY <1>3 DEF with_policy, Config
<1>5. ASSUME NEW e \in T
      PROVE  set_policy(with_policy(c, es), e[1], e[2]) = with_policy(c, Append(es, e))
  <2> DEFINE key == e[1]
             x == Strtol[e[2]]
             more == Append(es, e)
             before == [k \in PolicyKeys |-> lim(es, k)]
             after == [k \in PolicyKeys |-> lim(more, k)]
  <2>1. key \in PolicyKeys /\ e[2] \in Values /\ x \in Number
    BY <1>0 DEF Number
  <2>2. \A k : ValuesOf(more, k) = IF key = k THEN Append(ValuesOf(es, k), e[2]) ELSE ValuesOf(es, k)
    BY <1>0, ValuesAppend
  <2>3. Numbers(ValuesOf(more, key)) = Append(Numbers(ValuesOf(es, key)), x)
    BY <1>3, <2>1, <2>2, NumbersAppend
  <2>4. lim(more, key) = IF Len(lim(es, key)) < NLA_POLICY_ENTRIES_MAX
                         THEN Append(lim(es, key), x) ELSE lim(es, key)
    <3>1. Numbers(ValuesOf(es, key)) \in Seq(Number)
      BY <1>3, NumbersAppend
    <3> QED
      BY <2>1, <2>3, <3>1, LimitedAppend
  <2>5. \A k : k # key => lim(more, k) = lim(es, k)
    BY <2>2
  <2> HIDE DEF key, x, more, lim
  <2>6. after = IF Len(before[key]) < NLA_POLICY_ENTRIES_MAX
                THEN [before EXCEPT ![key] = Append(before[key], x)] ELSE before
    <3>1. before[key] = lim(es, key)
      BY <2>1
    <3>2. CASE Len(before[key]) < NLA_POLICY_ENTRIES_MAX
      BY <2>4, <2>5, <3>1, <3>2
    <3>3. CASE ~(Len(before[key]) < NLA_POLICY_ENTRIES_MAX)
      BY <2>4, <2>5, <3>1, <3>3
    <3> QED
      BY <3>2, <3>3
  <2>7. /\ with_policy(c, es) = [c EXCEPT !.policy = before]
        /\ with_policy(c, more) = [c EXCEPT !.policy = after]
    BY DEF with_policy, lim
  <2> HIDE DEF before, after
  <2>8. \A p, q : [[c EXCEPT !.policy = p] EXCEPT !.policy = q] = [c EXCEPT !.policy = q]
    BY DEF Config
  <2>9. with_policy(c, es).policy = before
    BY <2>7 DEF Config
  <2>10. set_policy(with_policy(c, es), key, e[2])
           = IF Len(before[key]) < NLA_POLICY_ENTRIES_MAX
             THEN [with_policy(c, es) EXCEPT !.policy = [before EXCEPT ![key] = Append(before[key], x)]]
             ELSE with_policy(c, es)
    BY <2>9 DEF set_policy, x
  <2> QED
    BY <2>6, <2>7, <2>8, <2>10 DEF key, more
<1> QED
  BY <1>2, <1>4, <1>5 DEF T

LEMMA PolicyRead ==
  ASSUME NEW s \in Reader, NEW es \in Seq(PolicyKeys \X Values), current(s).policy = NoPolicies
  PROVE  /\ with_policy(current(s), es) \in Config
         /\ Reads!Fold(s, EntryPairs!Mapped("policy", es)) = at(s, with_policy(current(s), es))
<1> DEFINE T == PolicyKeys \X Values
           c == current(s)
           P == {u \in Seq(T) : Reads!Fold(s, EntryPairs!Mapped("policy", u)) = at(s, with_policy(c, u))}
<1>0. EntryType("policy") = T
  BY DEF EntryType
<1>1. c \in Config /\ at(s, c) = s /\ c.policy = NoPolicies
  BY AtFacts
<1> HIDE DEF c
<1>2. << >> \in P
  <2>1. Reads!Fold(s, EntryPairs!Mapped("policy", << >>)) = s
    BY EntryRead
  <2>2. with_policy(c, << >>) = c
    <3>1. << >> \in Seq(T)
      OBVIOUS
    <3> QED
      BY <1>1, <3>1, PolicyStep
  <2> QED
    BY <1>1, <2>1, <2>2
<1>3. ASSUME NEW u \in Seq(T), NEW e \in T, u \in P PROVE Append(u, e) \in P
  <2> DEFINE d == with_policy(c, u)
  <2>1. d \in Config /\ set_policy(d, e[1], e[2]) = with_policy(c, Append(u, e))
    BY <1>1, PolicyStep
  <2>2. at(s, d) \in Reader /\ current(at(s, d)) = d /\ \A x : at(at(s, d), x) = at(s, x)
    BY <2>1, AtFacts
  <2>3. Reads!Fold(s, EntryPairs!Mapped("policy", Append(u, e))) = read_node(at(s, d), <<e[1], e[2]>>)
    <3>1. Reads!Fold(s, EntryPairs!Mapped("policy", Append(u, e)))
            = read_node(Reads!Fold(s, EntryPairs!Mapped("policy", u)), entry_read("policy", e))
      <4> HIDE DEF T
      <4>1. u \in Seq(EntryType("policy")) /\ e \in EntryType("policy")
        BY <1>0, <1>3
      <4> QED
        BY <4>1, EntryRead
    <3> QED
      BY <1>3, <3>1 DEF entry_read
  <2>4. e[1] \in PolicyKeys /\ Append(u, e) \in Seq(T)
    BY AppendProperties
  <2> HIDE DEF d, P
  <2>5. at(s, d).ret # "failed"
    BY <2>2 DEF Reader
  <2>6. read_node(at(s, d), <<e[1], e[2]>>) = at(at(s, d), set_policy(d, e[1], e[2]))
    BY <2>2, <2>4, <2>5, KeysAreDistinct DEF read_node
  <2> QED
    BY <2>1, <2>2, <2>3, <2>4, <2>6 DEF P
<1> HIDE DEF P, T
<1>4. es \in P
  <2>1. es \in Seq(T)
    BY DEF T
  <2> QED
    BY <1>2, <1>3, <2>1, Reads!SeqInduction
<1> QED
  BY <1>1, <1>4, PolicyStep DEF P, c

with_notify(c, names) == [c EXCEPT !.notify_me = c.notify_me \cup ToSet(names)]

\* The first name of no module stops the reader.
LEMMA NotifyRead ==
  ASSUME NEW s \in Reader, NEW names \in Seq(Values)
  PROVE  LET r == Reads!Fold(s, EntryPairs!Mapped("notify", names))
         IN IF ToSet(names) \subseteq Names
            THEN with_notify(current(s), names) \in Config /\ r = at(s, with_notify(current(s), names))
            ELSE r.ret = "failed"
<1> DEFINE c == current(s)
           r(u) == Reads!Fold(s, EntryPairs!Mapped("notify", u))
           P == {u \in Seq(Values) : IF ToSet(u) \subseteq Names
                                     THEN r(u) = at(s, with_notify(c, u))
                                     ELSE r(u).ret = "failed"}
<1>0. EntryType("notify") = Values
  BY DEF EntryType
<1>1. c \in Config /\ at(s, c) = s
  BY AtFacts
<1>2. \A u : ToSet(u) \subseteq Names => with_notify(c, u) \in Config
  BY <1>1 DEF with_notify, Config
<1> HIDE DEF c
<1>3. << >> \in P
  <2>1. r(<< >>) = s
    BY EntryRead
  <2>2. ToSet(<< >>) = {}
    BY DEF ToSet
  <2>3. with_notify(c, << >>) = c
    BY <1>1, <2>2 DEF with_notify, Config
  <2> QED
    BY <1>1, <2>1, <2>2, <2>3
<1>4. ASSUME NEW u \in Seq(Values), NEW e \in Values, u \in P PROVE Append(u, e) \in P
  <2> DEFINE d == with_notify(c, u)
             more == Append(u, e)
  <2>1. r(more) = read_node(r(u), <<"notify-events-from", e>>)
    <3>1. u \in Seq(EntryType("notify")) /\ e \in EntryType("notify")
      BY <1>0
    <3>2. r(more) = read_node(r(u), entry_read("notify", e))
      BY <3>1, EntryRead
    <3> QED
      BY <3>2 DEF entry_read
  <2>2. more \in Seq(Values) /\ ToSet(more) = ToSet(u) \cup {e}
    <3>1. \A q : ToSet(q) = Reads!ToSet(q)
      BY DEF ToSet, Reads!ToSet
    <3>2. Reads!ToSet(Append(u, e)) = Reads!ToSet(u) \cup {e}
      BY Reads!ToSetAppend
    <3> QED
      BY <3>1, <3>2, AppendProperties
  <2>3. IF ToSet(u) \subseteq Names THEN r(u) = at(s, d) ELSE r(u).ret = "failed"
    BY <1>4
  <2> HIDE DEF r, more
  <2>4. CASE ~(ToSet(u) \subseteq Names)
    <3>1. r(more) = r(u) /\ r(u).ret = "failed"
      BY <2>1, <2>3, <2>4 DEF read_node
    <3> QED
      BY <2>2, <2>4, <3>1 DEF more
  <2>5. CASE ToSet(u) \subseteq Names
    <3>1. d \in Config /\ r(u) = at(s, d)
      BY <1>2, <2>3, <2>5
    <3>2. at(s, d) \in Reader /\ current(at(s, d)) = d /\ \A x : at(at(s, d), x) = at(s, x)
      BY <3>1, AtFacts
    <3>3. at(s, d).ret # "failed"
      BY <3>2 DEF Reader
    <3>4. CASE e \notin Names
      <4>1. r(more) = [at(s, d) EXCEPT !.ret = "failed"]
        BY <2>1, <3>1, <3>3, <3>4, KeysAreDistinct DEF read_node
      <4>2. r(more).ret = "failed"
        BY <3>2, <4>1 DEF Reader
      <4> QED
        BY <2>2, <3>4, <4>2 DEF more
    <3>5. CASE e \in Names
      <4>1. r(more) = at(at(s, d), [d EXCEPT !.notify_me = d.notify_me \cup {e}])
        BY <2>1, <3>1, <3>2, <3>3, <3>5, KeysAreDistinct DEF read_node
      <4>2. [d EXCEPT !.notify_me = d.notify_me \cup {e}] = with_notify(c, more)
        <5>1. d.notify_me \cup {e} = c.notify_me \cup ToSet(more)
          BY <1>1, <2>2 DEF with_notify, Config
        <5>2. \A x, y : [[c EXCEPT !.notify_me = x] EXCEPT !.notify_me = y] = [c EXCEPT !.notify_me = y]
          BY <1>1 DEF Config
        <5> QED
          BY <5>1, <5>2 DEF with_notify
      <4>3. r(more) = at(s, with_notify(c, more))
        BY <3>2, <4>1, <4>2
      <4> QED
        BY <2>2, <2>5, <3>5, <4>3 DEF more
    <3> QED
      BY <3>4, <3>5
  <2> QED
    BY <2>4, <2>5
<1> HIDE DEF P
<1>5. names \in P
  BY <1>3, <1>4, Reads!SeqInduction
<1> QED
  BY <1>2, <1>5 DEF P, c

-----------------------------------------------------------------------------
(* A block, and the blocks of a file.                                      *)

LEMMA ListRead ==
  ASSUME NEW t, NEW kind \in {"policy", "notify"}, NEW es \in Seq(EntryType(kind)), NEW key \in Plain
  PROVE  Reads!Fold(t, list_pairs(key, kind, es)) = Reads!Fold(t, EntryPairs!Mapped(kind, es))
<1>1. CASE es = << >>
  BY <1>1, EntryRead, Reads!FoldEmpty DEF list_pairs
<1>2. CASE es # << >>
  <2> DEFINE W == Words \X Words
             open == Pair(key, Nest)
             ps == EntryPairs!Mapped(kind, es)
  <2>1. open \in Seq(W)
    BY KeysAndValues DEF Pair
  <2>2. ps \in Seq(W)
    BY TracksEntries DEF Tracks
  <2>3. Reads!Fold(t, open) = read_node(t, <<key, Nest>>)
    <3>1. key \in Words /\ Nest \in Plain
      BY KeysAndValues
    <3> QED
      BY <3>1, ReadsLeaves
  <2>4. read_node(t, <<key, Nest>>) = t
    BY KeysAndValues DEF read_node
  <2>5. list_pairs(key, kind, es) = open \o ps
    BY <1>2 DEF list_pairs
  <2> HIDE DEF W, open, ps
  <2>6. Reads!Fold(t, open \o ps) = Reads!Fold(Reads!Fold(t, open), ps)
    BY <2>1, <2>2, Reads!FoldConcat
  <2> QED
    BY <2>3, <2>4, <2>5, <2>6 DEF ps
<1> QED
  BY <1>1, <1>2

LEMMA AllNamedMeans ==
  ASSUME NEW b \in PlainBlocks
  PROVE  AllNamed(b) <=> b.module \in Names /\ ToSet(b.notify) \subseteq Names
<1> DEFINE one == <<b.module>>
           s == b.notify
           n == Len(s)
           both == one \o s
<1>1. one \in Seq(Values) /\ Len(one) = 1 /\ one[1] = b.module /\ s \in Seq(Values) /\ n \in Nat
  BY LenProperties DEF PlainBlocks
<1>2. /\ both \in Seq(Values) /\ Len(both) = 1 + n
      /\ \A i \in 1..(1 + n) : both[i] = IF i <= 1 THEN one[i] ELSE s[i - 1]
  <2> HIDE DEF one
  <2> QED
    BY <1>1, ConcatProperties
<1> HIDE DEF one, s, n, both
<1>3. both[1] = b.module /\ \A i \in 1..n : i + 1 \in 1..(1 + n) /\ both[i + 1] = s[i]
  BY <1>1, <1>2
<1>4. \A i \in 1..(1 + n) : i = 1 \/ (i - 1 \in 1..n /\ both[i] = s[i - 1])
  BY <1>1, <1>2
<1>5. DOMAIN both = 1..(1 + n) /\ DOMAIN s = 1..n /\ 1 \in 1..(1 + n)
  BY <1>1, <1>2, LenProperties DEF n
<1>6. ToSet(both) = {b.module} \cup ToSet(s)
  BY <1>3, <1>4, <1>5 DEF ToSet
<1> QED
  BY <1>6 DEF AllNamed, both, one, s

LEMMA BlockRead ==
  ASSUME NEW s \in Reader, NEW b \in PlainBlocks
  PROVE  LET r == Reads!Fold(s, block_pairs({}, b))
             t == [s EXCEPT !.id = b.module]
         IN IF AllNamed(b)
            THEN t \in Reader /\ BlockSays(b) \in Config /\ r = at(t, BlockSays(b))
            ELSE r.ret = "failed"
<1> DEFINE W == Words \X Words
           pm == Pair("module", b.module)
           ps == EntryPairs!Mapped("setting", b.settings)
           pp == list_pairs("policy", "policy", b.policy)
           pn == list_pairs("notify-me", "notify", b.notify)
           s1 == Reads!Fold(s, Alone(Nest) \o pm)
           s2 == Reads!Fold(s1, ps)
           s3 == Reads!Fold(s2, pp)
           r == Reads!Fold(s, block_pairs({}, b))
           t == [s EXCEPT !.id = b.module]
<1>1. /\ b.module \in Values
      /\ b.settings \in Seq(SettingKeys \X Values) /\ b.settings \in Seq(EntryType("setting"))
      /\ b.policy \in Seq(PolicyKeys \X Values) /\ b.policy \in Seq(EntryType("policy"))
      /\ b.notify \in Seq(Values) /\ b.notify \in Seq(EntryType("notify"))
  BY DEF PlainBlocks, EntryType
<1>2. Alone(Nest) \in Seq(W) /\ pm \in Seq(W)
  BY <1>1, KeysAndValues DEF Alone, Pair
<1>3. ps \in Seq(W)
  BY <1>1, TracksEntries DEF Tracks
<1>4. pp \in Seq(W) /\ pn \in Seq(W)
  <2>1. "policy" \in Plain /\ "notify-me" \in Plain
    BY KeysAndValues
  <2> QED
    BY <1>1, <2>1, TracksList DEF Tracks
<1>5. block_pairs({}, b) = Alone(Nest) \o pm \o ps \o pp \o pn
  BY DEF block_pairs
<1>6. s1 = read_node(s, <<"module", b.module>>)
  <2> HIDE DEF W
  <2>1. s1 = Reads!Fold(Reads!Fold(s, Alone(Nest)), pm)
    <3> HIDE DEF pm
    <3> QED
      BY <1>2, Reads!FoldConcat
  <2>2. Nest \in Plain /\ "module" \in Words /\ b.module \in Plain
    BY <1>1, KeysAndValues
  <2>3. Reads!Fold(s, Alone(Nest)) = s
    BY <2>2, ReadsLeaves
  <2>4. Reads!Fold(s, pm) = read_node(s, <<"module", b.module>>)
    BY <2>2, ReadsLeaves
  <2> QED
    BY <2>1, <2>3, <2>4
<1> HIDE DEF W, pm, ps, pp, pn
<1>7. r = Reads!Fold(s3, pn)
  <2> DEFINE a1 == Alone(Nest) \o pm
             a2 == a1 \o ps
             a3 == a2 \o pp
  <2>1. a1 \in Seq(W)
    BY <1>2, ConcatProperties
  <2> HIDE DEF a1
  <2>2. a2 \in Seq(W)
    BY <1>3, <2>1, ConcatProperties
  <2> HIDE DEF a2
  <2>3. a3 \in Seq(W)
    BY <1>4, <2>2, ConcatProperties
  <2> HIDE DEF a3
  <2>4. Reads!Fold(s, a2) = Reads!Fold(Reads!Fold(s, a1), ps)
    BY <1>3, <2>1, Reads!FoldConcat DEF a2
  <2>5. Reads!Fold(s, a3) = Reads!Fold(Reads!Fold(s, a2), pp)
    BY <1>4, <2>2, Reads!FoldConcat DEF a3
  <2>6. Reads!Fold(s, a3 \o pn) = Reads!Fold(Reads!Fold(s, a3), pn)
    BY <1>4, <2>3, Reads!FoldConcat
  <2> QED
    BY <1>5, <2>4, <2>5, <2>6 DEF a1, a2, a3
<1>8. s.ret # "failed" /\ s.id \in Names /\ s.config \in [Names -> Config]
  BY DEF Reader
<1>9. ASSUME b.module \notin Names PROVE r.ret = "failed"
  <2>1. s1.ret = "failed"
    <3>1. s1 = [s EXCEPT !.ret = "failed"]
      BY <1>6, <1>8, <1>9 DEF read_node
    <3> QED
      BY <3>1 DEF Reader
  <2> HIDE DEF s1, r
  <2>2. s2 = s1
    BY <1>3, <2>1, FailureIsFinal
  <2> HIDE DEF s2
  <2>3. s3 = s2
    BY <1>4, <2>1, <2>2, FailureIsFinal
  <2> HIDE DEF s3
  <2>4. r = s3
    BY <1>4, <1>7, <2>1, <2>2, <2>3, FailureIsFinal
  <2> QED
    BY <2>1, <2>2, <2>3, <2>4
<1>10. ASSUME b.module \in Names
       PROVE  /\ t \in Reader
              /\ IF ToSet(b.notify) \subseteq Names
                 THEN BlockSays(b) \in Config /\ r = at(t, BlockSays(b))
                 ELSE r.ret = "failed"
  <2> DEFINE c1 == Initialised
             c2 == with_settings(c1, b.settings)
             c3 == with_policy(c2, b.policy)
             c4 == with_notify(c3, b.notify)
  <2>1. c1 \in Config /\ c1.policy = NoPolicies
    BY DEF Initialised, NoPolicies, Config
  <2>2. t \in Reader
    BY <1>10 DEF Reader
  <2>3. s1 = at(t, c1)
    BY <1>6, <1>8, <1>10 DEF read_node
  <2> HIDE DEF s1, c1, t
  <2>4. \A c \in Config : at(t, c) \in Reader /\ current(at(t, c)) = c /\ \A d : at(at(t, c), d) = at(t, d)
    BY <2>2, AtFacts
  <2>5. c2 \in Config /\ s2 = at(t, c2)
    <3>1. s1 \in Reader /\ current(s1) = c1
      BY <2>1, <2>3, <2>4
    <3>2. c2 \in Config /\ s2 = at(s1, c2)
      BY <1>1, <3>1, SettingsRead DEF ps
    <3> QED
      BY <2>1, <2>3, <2>4, <3>2
  <2>6. c2.policy = NoPolicies
    BY <2>1 DEF with_settings, Config
  <2> HIDE DEF s2, c2
  <2>7. c3 \in Config /\ s3 = at(t, c3)
    <3>1. s2 \in Reader /\ current(s2) = c2
      BY <2>4, <2>5
    <3>2. c3 \in Config /\ Reads!Fold(s2, EntryPairs!Mapped("policy", b.policy)) = at(s2, c3)
      BY <1>1, <2>6, <3>1, PolicyRead
    <3>3. s3 = Reads!Fold(s2, EntryPairs!Mapped("policy", b.policy))
      BY <1>1, KeysAndValues, ListRead DEF pp
    <3> QED
      BY <2>4, <2>5, <3>2, <3>3
  <2> HIDE DEF s3, c3
  <2>8. IF ToSet(b.notify) \subseteq Names THEN c4 \in Config /\ r = at(t, c4) ELSE r.ret = "failed"
    <3>1. s3 \in Reader /\ current(s3) = c3
      BY <2>4, <2>7
    <3>2. r = Reads!Fold(s3, EntryPairs!Mapped("notify", b.notify))
      BY <1>1, <1>7, KeysAndValues, ListRead DEF pn
    <3>3. IF ToSet(b.notify) \subseteq Names THEN c4 \in Config /\ r = at(s3, c4) ELSE r.ret = "failed"
      BY <1>1, <3>1, <3>2, NotifyRead
    <3> QED
      BY <2>4, <2>7, <3>3
  <2>9. c4 = BlockSays(b)
    <3> DEFINE port == ValuesOf(b.settings, "server-port")
               addr == LastOf(ValuesOf(b.settings, "server-address"), "NULL")
               number == IF port = << >> THEN -1 ELSE Strtol[Last(port)]
               limits == [k \in PolicyKeys |-> limited(Numbers(ValuesOf(b.policy, k)))]
               names == ToSet(b.notify)
    <3>1. c1 = [enable |-> TRUE, addr |-> "NULL", port |-> -1, policy |-> NoPolicies, notify_me |-> {}]
      BY DEF c1, Initialised
    <3>2. c2 = [c1 EXCEPT !.addr = addr, !.port = number]
      BY <3>1 DEF c2, with_settings
    <3>3. c3 = [c2 EXCEPT !.policy = limits]
      BY DEF c3, with_policy
    <3>4. c4 = [c3 EXCEPT !.notify_me = c3.notify_me \cup names]
      BY DEF with_notify
    <3>5. BlockSays(b) = [enable |-> TRUE, addr |-> addr, port |-> number, policy |-> limits, notify_me |-> names]
      BY DEF BlockSays, limited
    <3> HIDE DEF addr, number, limits, names
    <3>6. c3 = [enable |-> TRUE, addr |-> addr, port |-> number, policy |-> limits, notify_me |-> {}]
      BY <3>1, <3>2, <3>3
    <3> HIDE DEF c3, c4
    <3>7. c4 = [enable |-> TRUE, addr |-> addr, port |-> number, policy |-> limits, notify_me |-> {} \cup names]
      BY <3>4, <3>6
    <3> QED
      BY <3>5, <3>7
  <2> QED
    BY <2>2, <2>8, <2>9
<1> HIDE DEF r, t
<1>11. IF AllNamed(b) THEN t \in Reader /\ BlockSays(b) \in Config /\ r = at(t, BlockSays(b)) ELSE r.ret = "failed"
  BY <1>9, <1>10, AllNamedMeans
<1> QED
  BY <1>11 DEF r, t

\* One block more replaces what earlier blocks of its module said.
LEMMA FileSaysAppend ==
  ASSUME NEW f \in Seq(PlainBlocks), NEW b \in PlainBlocks
  PROVE  /\ FileSays(<< >>) = [m \in Names |-> Unconfigured]
         /\ FileSays(Append(f, b))
              = [m \in Names |-> IF m = b.module THEN BlockSays(b) ELSE FileSays(f)[m]]
         /\ (\A j \in DOMAIN Append(f, b) : AllNamed(Append(f, b)[j]))
              <=> (\A j \in DOMAIN f : AllNamed(f[j])) /\ AllNamed(b)
<1> DEFINE g == Append(f, b)
           n == Len(f)
           blocks(m) == BlocksOf(f, m)
           more(m) == BlocksOf(g, m)
<1>1. /\ n \in Nat /\ g[n + 1] = b /\ \A i \in 1..n : g[i] = f[i]
      /\ DOMAIN f = 1..n /\ DOMAIN g = 1..(n + 1)
      /\ 1..(n + 1) = (1..n) \cup {n + 1} /\ n + 1 \notin 1..n
  BY AppendProperties, LenProperties
<1>2. FileSays(<< >>) = [m \in Names |-> Unconfigured]
  BY DEF FileSays, BlocksOf
<1> HIDE DEF g, n
<1>3. (\A j \in DOMAIN g : AllNamed(g[j])) <=> (\A j \in DOMAIN f : AllNamed(f[j])) /\ AllNamed(b)
  BY <1>1
<1>4. ASSUME NEW m PROVE more(m) = IF m = b.module THEN blocks(m) \cup {n + 1} ELSE blocks(m)
  BY <1>1 DEF BlocksOf
<1>5. \A m : blocks(m) \subseteq 1..n
  BY <1>1 DEF BlocksOf
<1> HIDE DEF blocks, more
<1>6. ASSUME NEW m, m # b.module, blocks(m) # {} PROVE Max(blocks(m)) \in 1..n
  <2>1. Max(blocks(m)) = Reads!Max(blocks(m))
    BY DEF Max, Reads!Max
  <2>2. Reads!Max(blocks(m)) \in blocks(m)
    BY <1>1, <1>5, <1>6, Reads!MaxOfSome
  <2> QED
    BY <1>5, <2>1, <2>2
<1>7. Max(more(b.module)) = n + 1
  <2> DEFINE u == more(b.module)
             x == Max(u)
  <2>1. u = blocks(b.module) \cup {n + 1}
    BY <1>4
  <2>2. u \in SUBSET (1..(n + 1)) /\ u # {} /\ n + 1 \in u /\ n + 1 \in Nat
    BY <1>1, <1>5, <2>1
  <2>3. Max(u) = Reads!Max(u)
    BY DEF Max, Reads!Max
  <2> HIDE DEF u
  <2>4. Reads!Max(u) \in u /\ \A y \in u : y <= Reads!Max(u)
    BY <2>2, Reads!MaxOfSome
  <2>5. x \in 1..(n + 1) /\ n + 1 <= x
    BY <2>2, <2>3, <2>4
  <2> HIDE DEF x
  <2>6. x = n + 1
    BY <1>1, <2>5
  <2> QED
    BY <2>6 DEF x, u
<1>8. ASSUME NEW m \in Names
      PROVE  FileSays(g)[m] = IF m = b.module THEN BlockSays(b) ELSE FileSays(f)[m]
  <2>1. /\ FileSays(g)[m] = IF more(m) = {} THEN Unconfigured ELSE BlockSays(g[Max(more(m))])
        /\ FileSays(f)[m] = IF blocks(m) = {} THEN Unconfigured ELSE BlockSays(f[Max(blocks(m))])
    BY DEF FileSays, blocks, more
  <2>2. CASE m = b.module
    <3>1. more(m) # {} /\ g[Max(more(m))] = b
      BY <1>1, <1>4, <1>7, <2>2
    <3> QED
      BY <2>1, <2>2, <3>1
  <2>3. CASE m # b.module
    <3>1. more(m) = blocks(m)
      BY <1>4, <2>3
    <3>2. blocks(m) # {} => g[Max(blocks(m))] = f[Max(blocks(m))]
      BY <1>1, <1>6, <2>3
    <3> QED
      BY <2>1, <2>3, <3>1, <3>2
  <2> QED
    BY <2>2, <2>3
<1>9. FileSays(g) = [m \in Names |-> IF m = b.module THEN BlockSays(b) ELSE FileSays(f)[m]]
  <2>1. FileSays(g) = [m \in Names |-> FileSays(g)[m]]
    BY DEF FileSays
  <2> QED
    BY <1>8, <2>1
<1> QED
  BY <1>2, <1>3, <1>9 DEF g

\* Before the first node
Beginning == [id |-> First, config |-> [m \in Names |-> Unconfigured], ret |-> "reading"]

LEMMA FileRead ==
  ASSUME NEW f \in Seq(PlainBlocks)
  PROVE  LET r == Reads!Fold(Beginning, file_pairs(f))
         IN IF \A j \in DOMAIN f : AllNamed(f[j])
            THEN r.ret # "failed" /\ r.config = FileSays(f)
            ELSE r.ret = "failed"
<1> DEFINE r(u) == Reads!Fold(Beginning, BlockPairs!Mapped({}, u))
           named(u) == \A j \in DOMAIN u : AllNamed(u[j])
           P == {u \in Seq(PlainBlocks) :
                   IF named(u) THEN r(u) \in Reader /\ r(u).config = FileSays(u) ELSE r(u).ret = "failed"}
           W == Words \X Words
<1>1. \A b \in PlainBlocks : block_pairs({}, b) \in Seq(W)
  BY TracksBlock DEF Tracks
<1>2. Beginning \in Reader
  <2>1. First \in Names
    BY FilesAssumption DEF FilesAssumption, Names
  <2>2. Unconfigured \in Config
    BY DEF Unconfigured, NoPolicies, Config
  <2> QED
    BY <2>1, <2>2 DEF Beginning, Reader
<1>3. Alone(Nest) \in Seq(W) /\ Pair("nlagent-modules", Nest) \in Seq(W)
  BY KeysAndValues DEF Alone, Pair
<1> HIDE DEF W
<1>4. /\ BlockPairs!Mapped({}, << >>) = << >>
      /\ \A s \in Seq(PlainBlocks) : BlockPairs!Mapped({}, s) \in Seq(W)
      /\ \A s \in Seq(PlainBlocks), x \in PlainBlocks :
           BlockPairs!Mapped({}, Append(s, x)) = BlockPairs!Mapped({}, s) \o block_pairs({}, x)
  BY <1>1, BlockPairs!MappedAppend
<1>5. Reads!Fold(Beginning, file_pairs(f)) = r(f)
  <2> DEFINE open == Alone(Nest) \o Pair("nlagent-modules", Nest)
             ps == BlockPairs!Mapped({}, f)
  <2>1. open \in Seq(W) /\ Reads!Fold(Beginning, open) = Beginning
    <3> DEFINE one == Pair("nlagent-modules", Nest)
    <3>1. one \in Seq(W) /\ Alone(Nest) \in Seq(W)
      BY <1>3
    <3>2. Reads!Fold(Beginning, one) = read_node(Beginning, <<"nlagent-modules", Nest>>)
      <4>1. "nlagent-modules" \in Words /\ Nest \in Plain
        BY KeysAndValues
      <4> QED
        BY <4>1, ReadsLeaves
    <3>3. read_node(Beginning, <<"nlagent-modules", Nest>>) = Beginning
      BY KeysAndValues DEF read_node
    <3>4. Reads!Fold(Beginning, Alone(Nest)) = Beginning
      BY KeysAndValues, ReadsLeaves
    <3> HIDE DEF one
    <3>5. Alone(Nest) \o one \in Seq(W)
      BY <3>1, ConcatProperties
    <3>6. Reads!Fold(Beginning, Alone(Nest) \o one) = Reads!Fold(Reads!Fold(Beginning, Alone(Nest)), one)
      BY <3>1, Reads!FoldConcat
    <3> QED
      BY <3>2, <3>3, <3>4, <3>5, <3>6 DEF one
  <2>2. ps \in Seq(W)
    BY <1>4
  <2> HIDE DEF open, ps
  <2>3. Reads!Fold(Beginning, open \o ps) = Reads!Fold(Reads!Fold(Beginning, open), ps)
    BY <2>1, <2>2, Reads!FoldConcat
  <2> QED
    BY <2>1, <2>3 DEF file_pairs, open, ps
<1>6. << >> \in P
  <2>1. r(<< >>) = Beginning
    BY <1>4, Reads!FoldEmpty
  <2>2. Beginning.config = [m \in Names |-> Unconfigured]
    BY DEF Beginning
  <2>3. FileSays(<< >>) = [m \in Names |-> Unconfigured]
    BY DEF FileSays, BlocksOf
  <2>4. << >> \in Seq(PlainBlocks) /\ named(<< >>)
    OBVIOUS
  <2> QED
    BY <1>2, <2>1, <2>2, <2>3, <2>4
<1>7. ASSUME NEW u \in Seq(PlainBlocks), NEW b \in PlainBlocks, u \in P PROVE Append(u, b) \in P
  <2> DEFINE more == Append(u, b)
             ps == BlockPairs!Mapped({}, u)
             qs == block_pairs({}, b)
             s == r(u)
             t == [s EXCEPT !.id = b.module]
  <2>0. more \in Seq(PlainBlocks)
    BY AppendProperties
  <2>1. r(more) = Reads!Fold(s, qs)
    <3>1. ps \in Seq(W) /\ qs \in Seq(W) /\ BlockPairs!Mapped({}, more) = ps \o qs
      BY <1>1, <1>4
    <3>2. r(u) = Reads!Fold(Beginning, ps) /\ r(more) = Reads!Fold(Beginning, ps \o qs)
      BY <3>1
    <3> HIDE DEF ps, qs, r, s
    <3>3. Reads!Fold(Beginning, ps \o qs) = Reads!Fold(Reads!Fold(Beginning, ps), qs)
      BY <3>1, Reads!FoldConcat
    <3> QED
      BY <3>2, <3>3 DEF s
  <2>2. named(more) <=> named(u) /\ AllNamed(b)
    BY FileSaysAppend
  <2>3. IF named(u) THEN s \in Reader /\ s.config = FileSays(u) ELSE s.ret = "failed"
    BY <1>7
  <2> HIDE DEF s, named
  <2>4. CASE ~named(u)
    <3>1. qs \in Seq(W)
      BY <1>1
    <3>2. Reads!Fold(s, qs) = s
      <4> HIDE DEF qs
      <4> QED
        BY <2>3, <2>4, <3>1, FailureIsFinal
    <3> QED
      BY <2>0, <2>1, <2>2, <2>3, <2>4, <3>2
  <2>5. CASE named(u)
    <3>1. IF AllNamed(b) THEN t \in Reader /\ BlockSays(b) \in Config /\ r(more) = at(t, BlockSays(b))
                         ELSE r(more).ret = "failed"
      BY <2>1, <2>3, <2>5, BlockRead
    <3>2. CASE ~AllNamed(b)
      BY <2>0, <2>2, <3>1, <3>2
    <3>3. CASE AllNamed(b)
      <4>1. t \in Reader /\ r(more) = at(t, BlockSays(b)) /\ r(more) \in Reader
        BY <3>1, <3>3, AtFacts
      <4>2. t.id = b.module /\ t.config = FileSays(u)
        BY <2>3, <2>5 DEF Reader
      <4> HIDE DEF t
      <4>3. r(more).config = [FileSays(u) EXCEPT ![b.module] = BlockSays(b)]
        BY <4>1, <4>2 DEF at, Reader
      <4>4. [FileSays(u) EXCEPT ![b.module] = BlockSays(b)]
              = [m \in Names |-> IF m = b.module THEN BlockSays(b) ELSE FileSays(u)[m]]
        BY DEF FileSays
      <4>5. FileSays(more) = [m \in Names |-> IF m = b.module THEN BlockSays(b) ELSE FileSays(u)[m]]
        BY FileSaysAppend
      <4> QED
        BY <2>0, <2>2, <2>5, <3>3, <4>1, <4>3, <4>4, <4>5
    <3> QED
      BY <3>2, <3>3
  <2> QED
    BY <2>4, <2>5
<1> HIDE DEF P
<1>8. f \in P
  BY <1>6, <1>7, Reads!SeqInduction
<1>9. IF named(f) THEN r(f).ret # "failed" /\ r(f).config = FileSays(f) ELSE r(f).ret = "failed"
  <2>1. r(f) \in Reader => r(f).ret # "failed"
    BY DEF Reader
  <2> QED
    BY <1>8, <2>1 DEF P
<1> QED
  BY <1>5, <1>9

-----------------------------------------------------------------------------
(* The reader has done with the first nodes what their pairs say.          *)

reader(id, cfg, r) == [id |-> id, config |-> cfg, ret |-> r]

LEMMA ReaderFields ==
  ASSUME NEW a, NEW g, NEW o
  PROVE  /\ reader(a, g, o).id = a /\ reader(a, g, o).config = g /\ reader(a, g, o).ret = o
         /\ \A c : at(reader(a, g, o), c) = reader(a, [g EXCEPT ![a] = c], o)
         /\ \A x : [reader(a, g, o) EXCEPT !.id = x] = reader(x, g, o)
         /\ \A x : [reader(a, g, o) EXCEPT !.ret = x] = reader(a, g, x)
<1> DEFINE r == reader(a, g, o)
<1>1. r.id = a /\ r.config = g /\ r.ret = o /\ r = [id |-> a, config |-> g, ret |-> o]
  BY DEF reader
<1> HIDE DEF r
<1>2. \A x : [r EXCEPT !.config = x] = reader(a, x, o)
  BY <1>1 DEF reader
<1>3. \A x : [r EXCEPT !.id = x] = reader(x, g, o)
  BY <1>1 DEF reader
<1>4. \A x : [r EXCEPT !.ret = x] = reader(a, g, x)
  BY <1>1 DEF reader
<1>5. \A c : at(r, c) = reader(a, [g EXCEPT ![a] = c], o)
  BY <1>1, <1>2 DEF at
<1> QED
  BY <1>1, <1>3, <1>4, <1>5 DEF r

SoFar == reader(module_id, config, IF ret = "failed" THEN "failed" ELSE "reading")

ReadInv ==
  /\ file \in Seq(PlainBlocks)
  /\ nodes = Nodes(file)
  /\ next \in 1..(Len(nodes) + 1)
  /\ ret \in {"reading", "read", "failed"}
  /\ ret = "read" => next = Len(nodes) + 1
  /\ SoFar = Reads!Fold(Beginning, SubSeq(file_pairs(file), 1, next - 1))

LEMMA PlainFiles ==
  ASSUME NEW f \in Files \cup {Default}, PlainValues(f)
  PROVE  f \in Seq(PlainBlocks)
<1>1. f \in Seq(Blocks)
  BY FilesAssumption DEF FilesAssumption
<1>2. DOMAIN f = 1..Len(f) /\ \A j \in 1..Len(f) : f[j] \in Blocks
  BY <1>1, LenProperties, ElementOfSeq
<1>3. ASSUME NEW j \in 1..Len(f) PROVE f[j] \in PlainBlocks
  <2> DEFINE b == f[j]
  <2>1. b \in Blocks
    BY <1>2
  <2>2. /\ b.module \in Values
        /\ \A k \in DOMAIN b.settings : b.settings[k][2] \in Values
        /\ \A k \in DOMAIN b.policy : b.policy[k][2] \in Values
        /\ \A k \in DOMAIN b.notify : b.notify[k] \in Values
    BY <1>2 DEF PlainValues, Values, Keys
  <2> HIDE DEF b
  <2>3. b.settings \in Seq(SettingKeys \X Values)
    <3> DEFINE s == b.settings
    <3>1. s \in Seq(SettingKeys \X STRING) /\ \A k \in DOMAIN s : s[k][2] \in Values
      BY <2>1, <2>2 DEF Blocks
    <3> HIDE DEF s
    <3>2. Len(s) \in Nat /\ DOMAIN s = 1..Len(s) /\ \A k \in 1..Len(s) : s[k] \in SettingKeys \X STRING
      BY <3>1, LenProperties, ElementOfSeq
    <3>3. \A k \in 1..Len(s) : s[k] \in SettingKeys \X Values
      BY <3>1, <3>2
    <3> QED
      BY <3>1, <3>2, <3>3 DEF s
  <2>4. b.policy \in Seq(PolicyKeys \X Values)
    <3> DEFINE s == b.policy
    <3>1. s \in Seq(PolicyKeys \X STRING) /\ \A k \in DOMAIN s : s[k][2] \in Values
      BY <2>1, <2>2 DEF Blocks
    <3> HIDE DEF s
    <3>2. Len(s) \in Nat /\ DOMAIN s = 1..Len(s) /\ \A k \in 1..Len(s) : s[k] \in PolicyKeys \X STRING
      BY <3>1, LenProperties, ElementOfSeq
    <3>3. \A k \in 1..Len(s) : s[k] \in PolicyKeys \X Values
      BY <3>1, <3>2
    <3> QED
      BY <3>1, <3>2, <3>3 DEF s
  <2>5. b.notify \in Seq(Values)
    <3> DEFINE s == b.notify
    <3>1. s \in Seq(STRING) /\ \A k \in DOMAIN s : s[k] \in Values
      BY <2>1, <2>2 DEF Blocks
    <3> HIDE DEF s
    <3>2. Len(s) \in Nat /\ DOMAIN s = 1..Len(s)
      BY <3>1, LenProperties
    <3> QED
      BY <3>1, <3>2 DEF s
  <2> QED
    BY <2>1, <2>2, <2>3, <2>4, <2>5 DEF Blocks, PlainBlocks, b
<1> QED
  BY <1>1, <1>2, <1>3

LEMMA InitRead ==
  ASSUME \A f \in Files \cup {Default} : PlainValues(f)
  PROVE  Init => ReadInv
<1> SUFFICES ASSUME Init PROVE ReadInv
  OBVIOUS
<1>1. file \in Seq(PlainBlocks) /\ nodes = Nodes(file) /\ next = 1 /\ ret = "reading"
  BY PlainFiles DEF Init
<1>2. Len(nodes) \in Nat
  BY <1>1, TracksFile, LenProperties DEF Tracks
<1>3. SoFar = Beginning
  BY DEF Init, SoFar, reader, Beginning
<1>4. SubSeq(file_pairs(file), 1, 0) = << >>
  OBVIOUS
<1>5. SubSeq(file_pairs(file), 1, next - 1) = << >>
  BY <1>1, <1>4
<1>6. Reads!Fold(Beginning, << >>) = Beginning
  BY Reads!FoldEmpty
<1>7. SoFar = Reads!Fold(Beginning, SubSeq(file_pairs(file), 1, next - 1))
  BY <1>3, <1>5, <1>6
<1> QED
  BY <1>1, <1>2, <1>7 DEF ReadInv

\* A step reads the pair of the node.
LEMMA StepReads ==
  ASSUME ReadInv, ReadModule \/ ReadNotifyFrom \/ ReadSetting \/ ReadPolicy \/ ReadOther
  PROVE  SoFar' = read_node(SoFar, file_pairs(file)[next])
<1> DEFINE p == file_pairs(file)[next]
<1>1. /\ ret = "reading" /\ SoFar = reader(module_id, config, "reading")
      /\ ret' = "reading" => SoFar' = reader(module_id', config', "reading")
      /\ ret' = "failed" => SoFar' = reader(module_id', config', "failed")
  BY DEF ReadModule, ReadNotifyFrom, ReadSetting, ReadPolicy, ReadOther, NextNode, SoFar
<1>2. p[1] = node /\ (node \in Keys => p[2] = value)
  <2>1. next \in DOMAIN nodes /\ nodes = Nodes(file) /\ Tracks(Nodes(file), file_pairs(file))
    BY TracksFile DEF ReadInv, ReadModule, ReadNotifyFrom, ReadSetting, ReadPolicy, ReadOther, NextNode
  <2>2. next \in 1..Len(nodes)
    BY <2>1, LenProperties DEF Tracks
  <2> QED
    BY <2>1, <2>2 DEF Tracks, node, value
<1> HIDE DEF p
<1>3. SoFar.ret = "reading" /\ current(SoFar) = config[module_id]
  BY <1>1, ReaderFields DEF current
<1>4. \A c : at(SoFar, c) = reader(module_id, [config EXCEPT ![module_id] = c], "reading")
  BY <1>1, ReaderFields
<1>5. [SoFar EXCEPT !.ret = "failed"] = reader(module_id, config, "failed")
  BY <1>1, ReaderFields
<1>6. ASSUME ReadModule PROVE SoFar' = read_node(SoFar, p)
  <2>1. node = "module" /\ p[1] = "module" /\ p[2] = value
    BY <1>2, <1>6, KeysAndValues DEF ReadModule
  <2>2. CASE value \in Names
    <3>1. /\ module_id' = value /\ config' = [config EXCEPT ![value] = Initialised] /\ ret' = "reading"
      BY <1>1, <1>6, <2>2 DEF ReadModule, get_module_id, module_init, Failed
    <3>2. SoFar' = reader(value, [config EXCEPT ![value] = Initialised], "reading")
      BY <1>1, <3>1
    <3>3. [SoFar EXCEPT !.id = value] = reader(value, config, "reading")
      BY <1>1, ReaderFields
    <3>4. at([SoFar EXCEPT !.id = value], Initialised)
            = reader(value, [config EXCEPT ![value] = Initialised], "reading")
      BY <3>3, ReaderFields
    <3> QED
      BY <1>3, <2>1, <2>2, <3>2, <3>4 DEF read_node
  <2>3. CASE value \notin Names
    <3>1. SoFar' = reader(module_id, config, "failed")
      BY <1>1, <1>6, <2>3 DEF ReadModule, get_module_id, Failed
    <3> QED
      BY <1>3, <1>5, <2>1, <2>3, <3>1 DEF read_node
  <2> QED
    BY <2>2, <2>3
<1>7. ASSUME ReadNotifyFrom PROVE SoFar' = read_node(SoFar, p)
  <2>1. node = "notify-events-from" /\ p[1] = "notify-events-from" /\ p[2] = value /\ p[1] # "module"
    BY <1>2, <1>7, KeysAndValues, KeysAreDistinct DEF ReadNotifyFrom
  <2>2. CASE value \in Names
    <3> DEFINE c == [config[module_id] EXCEPT !.notify_me = @ \cup {value}]
    <3>1. /\ module_id' = module_id /\ ret' = "reading"
          /\ config' = [config EXCEPT ![module_id] = c]
      BY <1>1, <1>7, <2>2 DEF ReadNotifyFrom, get_module_id, Failed
    <3>2. SoFar' = at(SoFar, c)
      <4> HIDE DEF c
      <4> QED
        BY <1>1, <1>4, <3>1
    <3> QED
      BY <1>3, <2>1, <2>2, <3>2 DEF read_node
  <2>3. CASE value \notin Names
    <3>1. SoFar' = reader(module_id, config, "failed")
      BY <1>1, <1>7, <2>3 DEF ReadNotifyFrom, get_module_id, Failed
    <3> QED
      BY <1>3, <1>5, <2>1, <2>3, <3>1 DEF read_node
  <2> QED
    BY <2>2, <2>3
<1>8. ASSUME ReadSetting PROVE SoFar' = read_node(SoFar, p)
  <2>1. /\ p[1] = node /\ p[2] = value /\ node \in SettingKeys
        /\ p[1] # "module" /\ p[1] # "notify-events-from"
    BY <1>2, <1>8, KeysAndValues, KeysAreDistinct DEF ReadSetting
  <2>2. /\ module_id' = module_id /\ ret' = "reading"
        /\ config' = [config EXCEPT ![module_id] = set_setting(config[module_id], node, value)]
    BY <1>1, <1>8 DEF ReadSetting
  <2>3. SoFar' = at(SoFar, set_setting(config[module_id], node, value))
    BY <1>1, <1>4, <2>2
  <2> QED
    BY <1>3, <2>1, <2>3 DEF read_node
<1>9. ASSUME ReadPolicy PROVE SoFar' = read_node(SoFar, p)
  <2>1. /\ p[1] = node /\ p[2] = value /\ node \in PolicyKeys /\ node \notin SettingKeys
        /\ p[1] # "module" /\ p[1] # "notify-events-from"
    BY <1>2, <1>9, KeysAndValues, KeysAreDistinct DEF ReadPolicy
  <2>2. /\ module_id' = module_id /\ ret' = "reading"
        /\ config' = [config EXCEPT ![module_id] = set_policy(config[module_id], node, value)]
    BY <1>1, <1>9 DEF ReadPolicy
  <2>3. SoFar' = at(SoFar, set_policy(config[module_id], node, value))
    BY <1>1, <1>4, <2>2
  <2> QED
    BY <1>3, <2>1, <2>3 DEF read_node
<1>10. ASSUME ReadOther PROVE SoFar' = read_node(SoFar, p)
  <2>1. p[1] = node /\ node \notin SettingKeys /\ node \notin PolicyKeys
        /\ p[1] # "module" /\ p[1] # "notify-events-from"
    BY <1>2, <1>10 DEF ReadOther
  <2>2. SoFar' = SoFar
    BY <1>1, <1>10 DEF ReadOther
  <2> QED
    BY <2>1, <2>2 DEF read_node
<1> QED
  BY <1>6, <1>7, <1>8, <1>9, <1>10 DEF p

\* What has been read, and the node that is next
LEMMA ReadSoFar ==
  ASSUME NEW ps \in Seq(Words \X Words), NEW n \in 1..Len(ps)
  PROVE  Reads!Fold(Beginning, SubSeq(ps, 1, n)) = read_node(Reads!Fold(Beginning, SubSeq(ps, 1, n - 1)), ps[n])
<1> DEFINE W == Words \X Words
           one == SubSeq(ps, 1, n - 1)
<1>1. ps \in Seq(W) /\ Len(ps) \in Nat
  BY LenProperties
<1> HIDE DEF W
<1>2. one \in Seq(W) /\ ps[n] \in W
  BY <1>1, SubSeqProperties, ElementOfSeq
<1>3. SubSeq(ps, 1, n) = Append(one, ps[n])
  <2>1. /\ Len(one) = n - 1 /\ \A i \in 1..(n - 1) : one[i] = ps[i]
        /\ SubSeq(ps, 1, n) \in Seq(W) /\ Len(SubSeq(ps, 1, n)) = n
        /\ \A i \in 1..n : SubSeq(ps, 1, n)[i] = ps[i]
    BY <1>1, SubSeqProperties
  <2> HIDE DEF one
  <2>2. /\ Append(one, ps[n]) \in Seq(W) /\ Len(Append(one, ps[n])) = n
        /\ \A i \in 1..n : Append(one, ps[n])[i] = ps[i]
    BY <1>1, <1>2, <2>1, AppendProperties
  <2> QED
    BY <2>1, <2>2, SeqEqual
<1> HIDE DEF one
<1>4. Reads!Fold(Beginning, Append(one, ps[n])) = read_node(Reads!Fold(Beginning, one), ps[n])
  BY <1>2, Reads!FoldAppend
<1> QED
  BY <1>3, <1>4 DEF one

LEMMA NextRead ==
  ASSUME ReadInv, [Next]_vars
  PROVE  ReadInv'
<1> DEFINE ps == file_pairs(file)
           Step == ReadModule \/ ReadNotifyFrom \/ ReadSetting \/ ReadPolicy \/ ReadOther
<1>1. /\ ps \in Seq(Words \X Words) /\ Len(ps) = Len(nodes)
      /\ Len(nodes) \in Nat /\ DOMAIN nodes = 1..Len(nodes) /\ next \in 1..(Len(nodes) + 1)
  BY TracksFile, LenProperties DEF ReadInv, Tracks
<1>2. CASE Step
  <2>1. /\ next \in 1..Len(nodes) /\ next' = next + 1
        /\ file' = file /\ nodes' = nodes /\ ret' \in {"reading", "failed"}
    BY <1>1, <1>2 DEF ReadModule, ReadNotifyFrom, ReadSetting, ReadPolicy, ReadOther, NextNode, Failed
  <2>2. SoFar' = read_node(SoFar, ps[next])
    BY <1>2, StepReads
  <2>3. SoFar = Reads!Fold(Beginning, SubSeq(ps, 1, next - 1))
    BY DEF ReadInv
  <2>4. Reads!Fold(Beginning, SubSeq(ps, 1, next)) = read_node(Reads!Fold(Beginning, SubSeq(ps, 1, next - 1)), ps[next])
    BY <1>1, <2>1, ReadSoFar
  <2>5. next' - 1 = next /\ ps' = ps
    BY <1>1, <2>1
  <2>6. SoFar' = Reads!Fold(Beginning, SubSeq(ps', 1, next' - 1))
    BY <2>2, <2>3, <2>4, <2>5
  <2> QED
    BY <1>1, <2>1, <2>6 DEF ReadInv
<1>3. CASE Finish
  <2>1. /\ ret = "reading" /\ ret' = "read" /\ next = Len(nodes) + 1
        /\ UNCHANGED <<file, nodes, next, module_id, config>>
    BY <1>1, <1>3 DEF Finish
  <2>2. SoFar' = SoFar
    BY <2>1 DEF SoFar
  <2> QED
    BY <2>1, <2>2 DEF ReadInv
<1>4. CASE UNCHANGED vars
  BY <1>4 DEF vars, ReadInv, SoFar
<1> QED
  BY <1>2, <1>3, <1>4 DEF Next

LEMMA ReadInvariant ==
  ASSUME \A f \in Files \cup {Default} : PlainValues(f)
  PROVE  Spec => []ReadInv
<1>1. Init => ReadInv
  BY InitRead
<1>2. ReadInv /\ [Next]_vars => ReadInv'
  BY NextRead
<1> QED
  BY <1>1, <1>2, PTL DEF Spec

\* At the end the whole file has been read, and a reader that has failed cannot
\* recover by what is left of it.
LEMMA ReadToTheEnd ==
  ASSUME ReadInv
  PROVE  LET r == Reads!Fold(Beginning, file_pairs(file))
         IN /\ ret = "read" => r = SoFar
            /\ ret = "failed" => r = SoFar
<1> DEFINE ps == file_pairs(file)
           W == Words \X Words
<1>1. /\ ps \in Seq(W) /\ Len(ps) = Len(nodes) /\ Len(nodes) \in Nat /\ next \in 1..(Len(nodes) + 1)
      /\ SoFar = Reads!Fold(Beginning, SubSeq(ps, 1, next - 1))
  BY TracksFile, LenProperties DEF ReadInv, Tracks
<1> HIDE DEF ps, W
<1>2. ASSUME ret = "read" PROVE Reads!Fold(Beginning, ps) = SoFar
  <2>1. next - 1 = Len(ps)
    BY <1>1, <1>2 DEF ReadInv
  <2>2. SubSeq(ps, 1, Len(ps)) = ps
    <3>1. /\ SubSeq(ps, 1, Len(ps)) \in Seq(W) /\ Len(SubSeq(ps, 1, Len(ps))) = Len(ps)
          /\ \A i \in 1..Len(ps) : SubSeq(ps, 1, Len(ps))[i] = ps[i]
      BY <1>1, SubSeqProperties
    <3> QED
      BY <1>1, <3>1, SeqEqual
  <2> QED
    BY <1>1, <2>1, <2>2
<1>3. ASSUME ret = "failed" PROVE Reads!Fold(Beginning, ps) = SoFar
  <2> DEFINE done == SubSeq(ps, 1, next - 1)
             rest == SubSeq(ps, next, Len(ps))
  <2>1. /\ done \in Seq(W) /\ Len(done) = next - 1 /\ \A i \in 1..(next - 1) : done[i] = ps[i]
    BY <1>1, SubSeqProperties
  <2>2. /\ rest \in Seq(W) /\ Len(rest) = Len(ps) - (next - 1)
        /\ \A i \in 1..(Len(ps) - (next - 1)) : rest[i] = ps[i + (next - 1)]
    <3>1. /\ rest \in Seq(W)
          /\ Len(rest) = IF next <= Len(ps) THEN Len(ps) - next + 1 ELSE 0
          /\ \A i \in 1..(Len(ps) - next + 1) : rest[i] = ps[next + i - 1]
      BY <1>1, SubSeqProperties
    <3> QED
      BY <1>1, <3>1
  <2> HIDE DEF done, rest
  <2>3. ps = done \o rest
    <3> DEFINE all == done \o rest
               n == next - 1
    <3>1. n \in 0..Len(ps) /\ Len(done) = n /\ Len(rest) = Len(ps) - n
      BY <1>1, <2>1, <2>2
    <3>2. /\ all \in Seq(W) /\ Len(all) = Len(done) + Len(rest)
          /\ \A i \in 1..(Len(done) + Len(rest)) :
               all[i] = IF i <= Len(done) THEN done[i] ELSE rest[i - Len(done)]
      BY <2>1, <2>2, ConcatProperties
    <3>3. /\ \A i \in 1..n : done[i] = ps[i]
          /\ \A i \in 1..(Len(ps) - n) : rest[i] = ps[i + n]
      BY <2>1, <2>2
    <3> HIDE DEF all, n
    <3>4. Len(all) = Len(ps) /\ \A i \in 1..Len(ps) : all[i] = ps[i]
      <4>1. Len(done) + Len(rest) = Len(ps)
        BY <1>1, <3>1
      <4>2. ASSUME NEW i \in 1..Len(ps) PROVE all[i] = ps[i]
        <5>1. CASE i <= n
          BY <1>1, <3>1, <3>2, <3>3, <4>1, <5>1
        <5>2. CASE i > n
          <6>1. i - n \in 1..(Len(ps) - n) /\ (i - n) + n = i
            BY <1>1, <3>1, <5>2
          <6>2. rest[i - n] = ps[i]
            BY <3>3, <6>1
          <6>3. all[i] = rest[i - n]
            BY <1>1, <3>1, <3>2, <4>1, <5>2
          <6> QED
            BY <6>2, <6>3
        <5> QED
          BY <1>1, <3>1, <5>1, <5>2
      <4> QED
        BY <3>2, <4>1, <4>2
    <3> QED
      BY <1>1, <3>2, <3>4, SeqEqual DEF all
  <2>4. Reads!Fold(Beginning, done \o rest) = Reads!Fold(Reads!Fold(Beginning, done), rest)
    BY <2>1, <2>2, Reads!FoldConcat
  <2>5. Reads!Fold(Beginning, done) = SoFar
    BY <1>1 DEF done
  <2>6. SoFar.ret = "failed"
    BY <1>3, ReaderFields DEF SoFar
  <2>7. Reads!Fold(SoFar, rest) = SoFar
    BY <2>2, <2>6, FailureIsFinal
  <2> QED
    BY <2>3, <2>4, <2>5, <2>7
<1> QED
  BY <1>2, <1>3 DEF ps

\* When nla_read_config has returned 0, every module has the configuration of its
\* last block in the file, each policy as far as there was room: going through the
\* nodes without their nesting comes to what the blocks say.
THEOREM EntriesAreAsWritten ==
  ASSUME \A f \in Files \cup {Default} : PlainValues(f)
  PROVE  Spec => []AsWritten
<1>1. Spec => []ReadInv
  BY ReadInvariant
<1>2. ReadInv => AsWritten
  <2> SUFFICES ASSUME ReadInv, ret = "read" PROVE config = FileSays(file)
    BY DEF AsWritten  \* of every name, so of the modules
  <2>1. SoFar.ret = "reading" /\ SoFar.config = config
    BY ReaderFields DEF SoFar
  <2>2. Reads!Fold(Beginning, file_pairs(file)) = SoFar /\ file \in Seq(PlainBlocks)
    BY ReadToTheEnd DEF ReadInv
  <2> QED
    BY <2>1, <2>2, FileRead
<1> QED
  BY <1>1, <1>2, PTL

\* nla_read_config returns -1 exactly if the file names a module that is not in
\* nla_modules, in a block or as one to listen to.  NLA_MODULE_ALL is in it, and
\* passes.
THEOREM UnknownModulesAreRefused ==
  ASSUME \A f \in Files \cup {Default} : PlainValues(f)
  PROVE  Spec => []RefusesUnknown
<1>1. Spec => []ReadInv
  BY ReadInvariant
<1>2. ReadInv => RefusesUnknown
  <2> SUFFICES ASSUME ReadInv, ret # "reading"
               PROVE  ret = "failed" <=> \E j \in DOMAIN file : ~AllNamed(file[j])
    BY DEF RefusesUnknown
  <2>1. ret \in {"read", "failed"}
    BY DEF ReadInv
  <2>2. SoFar.ret = IF ret = "failed" THEN "failed" ELSE "reading"
    BY ReaderFields DEF SoFar
  <2>3. Reads!Fold(Beginning, file_pairs(file)) = SoFar /\ file \in Seq(PlainBlocks)
    BY <2>1, ReadToTheEnd DEF ReadInv
  <2>4. SoFar.ret = "failed" <=> ~(\A j \in DOMAIN file : AllNamed(file[j]))
    BY <2>2, <2>3, FileRead
  <2> QED
    BY <2>1, <2>2, <2>4
<1> QED
  BY <1>1, <1>2, PTL
=============================================================================
