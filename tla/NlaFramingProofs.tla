--------------------------- MODULE NlaFramingProofs ---------------------------
(***************************************************************************)
(* Theorems about the framing.  Which messages get an FPM header that the  *)
(* receiver accepts: the field has 16 bits, a netlink length 32.  And for  *)
(* every batch of messages that do, however the stream is cut: the reader  *)
(* stays in step, holds no frame back, and hands over what was written.    *)
(***************************************************************************)
EXTENDS NlaFraming, SequenceTheorems, TLAPS

\* Aligning a length changes it unless it is a multiple of four.
LEMMA AlignFacts ==
  ASSUME NEW n \in Nat
  PROVE  /\ fpm_msg_align(n) = n <=> n % 4 = 0
         /\ fpm_msg_align(n) \in Nat /\ fpm_msg_align(n) >= n /\ fpm_msg_align(n) < n + 4
  BY DEF fpm_msg_align

\* nla_build_fpm_hdr and fpm_msg_hdr_ok agree on what a message may be: below
\* the wrap of the length field, a header is ok exactly for an aligned message
\* that fits into FPM_MAX_MSG_LEN (nla_util.c:112, nla_fpm.h:263).
THEOREM HeaderIsOkForFittingMessages ==
  ASSUME NEW len \in Nat, len + FPM_MSG_HDR_LEN < 65536
  PROVE  fpm_msg_hdr_ok(fpm_msg_len(len))
           <=> len % 4 = 0 /\ len + FPM_MSG_HDR_LEN <= FPM_MAX_MSG_LEN
<1>1. fpm_msg_len(len) = len + 4
  BY DEF fpm_msg_len, fpm_data_len_to_msg_len, FPM_MSG_HDR_LEN
<1>2. fpm_msg_align(len + 4) = len + 4 <=> (len + 4) % 4 = 0
  BY AlignFacts
<1>3. (len + 4) % 4 = 0 <=> len % 4 = 0
  OBVIOUS
<1>4. QED
  BY <1>1, <1>2, <1>3 DEF fpm_msg_hdr_ok, FPM_MSG_HDR_LEN, FPM_MAX_MSG_LEN

\* The reader takes off the stream exactly what the writer has put on it, header
\* included, for either protocol: the step that InStep rests on.  Neither padding
\* is added nor the length field cut off for messages that are aligned and fit.
THEOREM FramesAreExact ==
  ASSUME NEW batch,
         nlmsg_lens(batch) \in Nat,
         nlmsg_lens(batch) % 4 = 0,
         nlmsg_lens(batch) + FPM_MSG_HDR_LEN <= FPM_MAX_MSG_LEN
  PROVE  frame_len(batch) = written(batch)
<1>1. fpm_msg_len(nlmsg_lens(batch)) = nlmsg_lens(batch) + 4
  BY DEF fpm_msg_len, fpm_data_len_to_msg_len, FPM_MSG_HDR_LEN, FPM_MAX_MSG_LEN
<1>2. fpm_msg_align(nlmsg_lens(batch)) = nlmsg_lens(batch)
  BY AlignFacts
<1>3. QED
  BY <1>1, <1>2 DEF frame_len, written, added, FPM_MSG_HDR_LEN

-----------------------------------------------------------------------------
(* Sums of lengths.                                                        *)

plus(a, b) == a + b
Plus == INSTANCE NlaFold WITH op <- plus

LEMMA TotalIsFold ==
  ASSUME NEW s
  PROVE  Total(s) = Plus!Fold(0, s)
BY DEF Total, Plus!Fold, Plus!FoldLeft, Plus!MapThenFoldSet, Plus!Max,
       FoldLeft, MapThenFoldSet, Max, plus

\* A sum grows with its last number,
LEMMA TotalAppend ==
  /\ Total(<< >>) = 0
  /\ \A s \in Seq(Nat), n \in Nat : Total(Append(s, n)) = Total(s) + n
BY TotalIsFold, Plus!FoldEmpty, Plus!FoldAppend DEF plus

\* is a number,
LEMMA TotalNat == \A s \in Seq(Nat) : Total(s) \in Nat
<1> DEFINE P == {s \in Seq(Nat) : Total(s) \in Nat}
<1>1. << >> \in P
  BY TotalAppend
<1>2. ASSUME NEW s \in Seq(Nat), NEW n \in Nat, s \in P PROVE Append(s, n) \in P
  BY <1>2, TotalAppend, AppendProperties
<1> HIDE DEF P
<1> QED
  BY <1>1, <1>2, Plus!SeqInduction DEF P

\* and the first number with the sum of the rest.
LEMMA TotalHead ==
  \A s \in Seq(Nat) : s # << >> => Total(s) = Head(s) + Total(Tail(s))
<1> DEFINE P == {s \in Seq(Nat) : s # << >> => Total(s) = Head(s) + Total(Tail(s))}
<1>1. << >> \in P
  OBVIOUS
<1>2. ASSUME NEW s \in Seq(Nat), NEW n \in Nat, s \in P PROVE Append(s, n) \in P
  <2>1. /\ Append(s, n) \in Seq(Nat)
        /\ Total(Append(s, n)) = Total(s) + n
        /\ Total(s) \in Nat
    BY TotalAppend, TotalNat, AppendProperties
  <2>2. CASE s = << >>
    <3>1. Head(Append(s, n)) = n /\ Tail(Append(s, n)) = << >>
      BY <2>2, HeadTailAppend
    <3> QED
      BY <2>1, <2>2, <3>1, TotalAppend
  <2>3. CASE s # << >>
    <3>1. Head(Append(s, n)) = Head(s) /\ Tail(Append(s, n)) = Append(Tail(s), n)
      BY <2>3, HeadTailAppend
    <3>2. Head(s) \in Nat /\ Tail(s) \in Seq(Nat)
      BY <2>3, HeadTailProperties
    <3>3. Total(Append(Tail(s), n)) = Total(Tail(s)) + n /\ Total(Tail(s)) \in Nat
      BY <3>2, TotalAppend, TotalNat
    <3>4. Total(s) = Head(s) + Total(Tail(s))
      BY <1>2, <2>3
    <3>5. Total(Append(s, n)) = Head(s) + (Total(Tail(s)) + n)
      <4> HIDE DEF P
      <4> QED
        BY <2>1, <3>2, <3>3, <3>4
    <3> QED
      BY <2>1, <3>1, <3>3, <3>5
  <2> QED
    BY <2>2, <2>3
<1> HIDE DEF P
<1> QED
  BY <1>1, <1>2, Plus!SeqInduction DEF P

\* A sum of multiples of four is one.
LEMMA TotalAligned ==
  \A s \in Seq(Nat) : (\A i \in 1..Len(s) : s[i] % 4 = 0) => Total(s) % 4 = 0
<1> DEFINE P == {s \in Seq(Nat) : (\A i \in 1..Len(s) : s[i] % 4 = 0) => Total(s) % 4 = 0}
<1>1. << >> \in P
  BY TotalAppend
<1>2. ASSUME NEW s \in Seq(Nat), NEW n \in Nat, s \in P PROVE Append(s, n) \in P
  <2> SUFFICES ASSUME \A i \in 1..Len(Append(s, n)) : Append(s, n)[i] % 4 = 0
               PROVE  Total(Append(s, n)) % 4 = 0
    BY AppendProperties
  <2>1. /\ Len(s) \in Nat /\ Len(Append(s, n)) = Len(s) + 1
        /\ Append(s, n)[Len(s) + 1] = n
        /\ \A i \in 1..Len(s) : Append(s, n)[i] = s[i]
    BY AppendProperties, LenProperties
  <2>2. n % 4 = 0 /\ Total(s) % 4 = 0
    <3>1. Len(s) + 1 \in 1..Len(Append(s, n)) /\ \A i \in 1..Len(s) : i \in 1..Len(Append(s, n))
      BY <2>1
    <3>2. n % 4 = 0 /\ \A i \in 1..Len(s) : s[i] % 4 = 0
      BY <2>1, <3>1
    <3> QED
      BY <1>2, <3>2
  <2>3. Total(Append(s, n)) = Total(s) + n /\ Total(s) \in Nat
    BY TotalAppend, TotalNat
  <2> DEFINE sum == Total(s)
  <2>4. sum \in Nat /\ sum % 4 = 0 /\ n % 4 = 0
    BY <2>2, <2>3
  <2> HIDE DEF P, sum
  <2>5. (sum + n) % 4 = 0
    BY <2>4
  <2> QED
    BY <2>3, <2>5 DEF sum
<1> HIDE DEF P
<1> QED
  BY <1>1, <1>2, Plus!SeqInduction DEF P

\* The sums of the first numbers grow up to the sum of all.
LEMMA TotalPrefix ==
  ASSUME NEW s \in Seq(Nat)
  PROVE  /\ \A i \in 1..Len(s) :
              Total(SubSeq(s, 1, i)) = Total(SubSeq(s, 1, i - 1)) + s[i]
         /\ \A i \in 0..Len(s) : Total(SubSeq(s, 1, i)) \in 0..Total(s)
<1>1. ASSUME NEW i \in 1..Len(s)
      PROVE  Total(SubSeq(s, 1, i)) = Total(SubSeq(s, 1, i - 1)) + s[i]
  <2>1. SubSeq(s, 1, i - 1) \in Seq(Nat) /\ s[i] \in Nat
    BY SubSeqProperties, ElementOfSeq
  <2>2. SubSeq(s, 1, i) = Append(SubSeq(s, 1, i - 1), s[i])
    <3>1. 1 \in 1..Len(s) /\ i \in 1..Len(s)
      BY LenProperties
    <3>2. SubSeq(s, 1, i) = SubSeq(s, 1, i - 1) \o <<s[i]>>
      BY <3>1, SubSeqRecursiveSecond
    <3> QED
      BY <2>1, <3>2, AppendIsConcat
  <2> QED
    BY <2>1, <2>2, TotalAppend
<1> DEFINE P == {t \in Seq(Nat) : \A i \in 0..Len(t) : Total(SubSeq(t, 1, i)) \in 0..Total(t)}
<1>2. << >> \in P
  <2>1. SubSeq(<< >>, 1, 0) = << >>
    BY SubSeqEmpty
  <2>2. Len(<< >>) = 0 /\ \A i \in 0..0 : i = 0
    OBVIOUS
  <2>3. Total(<< >>) \in 0..Total(<< >>) /\ << >> \in Seq(Nat)
    BY TotalAppend
  <2> QED
    BY <2>1, <2>2, <2>3
<1>3. ASSUME NEW t \in Seq(Nat), NEW n \in Nat, t \in P PROVE Append(t, n) \in P
  <2>1. /\ Len(t) \in Nat /\ Len(Append(t, n)) = Len(t) + 1 /\ Append(t, n) \in Seq(Nat)
        /\ Total(Append(t, n)) = Total(t) + n /\ Total(t) \in Nat
    BY AppendProperties, LenProperties, TotalAppend, TotalNat
  <2>2. ASSUME NEW i \in 0..Len(t) PROVE Total(SubSeq(Append(t, n), 1, i)) \in 0..Total(t)
    <3>1. SubSeq(Append(t, n), 1, i) = SubSeq(t, 1, i)
      <4>1. \A j \in 1..i : Append(t, n)[j] = t[j] /\ t[j] \in Nat
        BY <2>1, AppendProperties, ElementOfSeq
      <4>2. /\ SubSeq(t, 1, i) \in Seq(Nat) /\ SubSeq(Append(t, n), 1, i) \in Seq(Nat)
            /\ Len(SubSeq(t, 1, i)) = i /\ Len(SubSeq(Append(t, n), 1, i)) = i
            /\ \A j \in 1..i : SubSeq(t, 1, i)[j] = t[j]
                               /\ SubSeq(Append(t, n), 1, i)[j] = Append(t, n)[j]
        <5>1. i \in Int /\ 1 \in Int
          BY <2>1
        <5>2. /\ SubSeq(t, 1, i) \in Seq(Nat)
              /\ Len(SubSeq(t, 1, i)) = IF 1 <= i THEN i - 1 + 1 ELSE 0
              /\ \A j \in 1..(i - 1 + 1) : SubSeq(t, 1, i)[j] = t[1 + j - 1]
          BY <4>1, <5>1, SubSeqProperties
        <5>3. /\ SubSeq(Append(t, n), 1, i) \in Seq(Nat)
              /\ Len(SubSeq(Append(t, n), 1, i)) = IF 1 <= i THEN i - 1 + 1 ELSE 0
              /\ \A j \in 1..(i - 1 + 1) : SubSeq(Append(t, n), 1, i)[j] = Append(t, n)[1 + j - 1]
          BY <4>1, <5>1, SubSeqProperties
        <5> QED
          BY <2>1, <5>2, <5>3
      <4> QED
        BY <4>1, <4>2, SeqEqual
    <3> QED
      BY <1>3, <3>1
  <2>3. SubSeq(Append(t, n), 1, Len(t) + 1) = Append(t, n)
    BY <2>1, SubSeqFull
  <2>4. ASSUME NEW i \in 0..(Len(t) + 1)
        PROVE  Total(SubSeq(Append(t, n), 1, i)) \in 0..Total(Append(t, n))
    <3> HIDE DEF P
    <3>1. i \in 0..Len(t) \/ i = Len(t) + 1
      BY <2>1
    <3>2. CASE i \in 0..Len(t)
      <4>1. Total(SubSeq(Append(t, n), 1, i)) \in 0..Total(t)
        BY <2>2, <3>2
      <4> QED
        BY <2>1, <4>1
    <3>3. CASE i = Len(t) + 1
      <4>1. Total(Append(t, n)) \in Nat
        BY <2>1, TotalNat
      <4>2. \A k \in Nat : k \in 0..k
        OBVIOUS
      <4> QED
        BY <2>3, <3>3, <4>1, <4>2
    <3> QED
      BY <3>1, <3>2, <3>3
  <2> QED
    BY <2>1, <2>4
<1> HIDE DEF P
<1>4. s \in P
  BY <1>2, <1>3, Plus!SeqInduction
<1> QED
  BY <1>1, <1>4 DEF P

-----------------------------------------------------------------------------
(* Frames.                                                                 *)

lens(batch) == [i \in DOMAIN batch |-> batch[i].len]

\* What FramesAssumption says of the messages holds for their batch.
LEMMA BatchFacts ==
  ASSUME NEW b \in Batches
  PROVE  /\ b \in Seq(Message) /\ b # << >> /\ Len(b) \in Nat \ {0}
         /\ lens(b) \in Seq(Nat) /\ Len(lens(b)) = Len(b)
         /\ nlmsg_lens(b) \in Nat /\ nlmsg_lens(b) % 4 = 0
         /\ nlmsg_lens(b) >= NL_MSG_HDR_LEN
         /\ nlmsg_lens(b) + FPM_MSG_HDR_LEN <= FPM_MAX_MSG_LEN
<1>1. /\ b \in Seq(Message) /\ b # << >>
      /\ \A i \in DOMAIN b : b[i].len % 4 = 0 /\ b[i].len >= NL_MSG_HDR_LEN
      /\ nlmsg_lens(b) + FPM_MSG_HDR_LEN <= FPM_MAX_MSG_LEN
  BY FramesAssumption DEF FramesAssumption
<1>2. Len(b) \in Nat \ {0} /\ DOMAIN b = 1..Len(b)
  BY <1>1, EmptySeq, LenProperties
<1>3. \A i \in 1..Len(b) : b[i] \in Message /\ b[i].len \in Nat
  <2>1. \A i \in 1..Len(b) : b[i] \in Message
    BY <1>1, ElementOfSeq
  <2>2. \A m \in Message : m.len \in Nat
    BY DEF Message
  <2> QED
    BY <2>1, <2>2
<1>4. /\ lens(b) \in Seq(Nat) /\ Len(lens(b)) = Len(b)
      /\ \A i \in 1..Len(b) : lens(b)[i] = b[i].len
  BY <1>2, <1>3 DEF lens
<1>5. nlmsg_lens(b) = Total(lens(b))
  BY DEF nlmsg_lens, lens
<1>6. nlmsg_lens(b) \in Nat /\ nlmsg_lens(b) % 4 = 0
  BY <1>1, <1>2, <1>4, <1>5, TotalNat, TotalAligned
<1>7. nlmsg_lens(b) >= NL_MSG_HDR_LEN
  <2>1. 1 \in 1..Len(b) /\ b[1].len >= NL_MSG_HDR_LEN /\ lens(b)[1] = b[1].len
    BY <1>1, <1>2, <1>4
  <2>2. /\ Total(SubSeq(lens(b), 1, 1)) = Total(SubSeq(lens(b), 1, 1 - 1)) + lens(b)[1]
        /\ Total(SubSeq(lens(b), 1, 1)) \in 0..Total(lens(b))
    BY <1>4, <2>1, TotalPrefix
  <2>3. Total(SubSeq(lens(b), 1, 1 - 1)) = 0
    <3>1. 1 - 1 = 0 /\ SubSeq(lens(b), 1, 0) = << >>
      BY SubSeqEmpty
    <3> QED
      BY <3>1, TotalAppend
  <2> QED
    BY <1>3, <1>5, <1>6, <2>1, <2>2, <2>3 DEF NL_MSG_HDR_LEN
<1> QED
  BY <1>1, <1>2, <1>4, <1>6, <1>7

\* A frame is taken off the stream as it was put on it, and is no shorter than
\* the header that the reader waits for.
LEMMA FrameFacts ==
  ASSUME link \in {"FPM", "NLM"}, NEW b \in Batches
  PROVE  /\ frame_len(b) \in Nat /\ frame_len(b) = written(b)
         /\ frame_len(b) >= header_len
         /\ header_len \in Nat \ {0} /\ added \in Nat
         /\ frame_len(b) - added = nlmsg_lens(b)
<1>1. /\ nlmsg_lens(b) \in Nat /\ nlmsg_lens(b) % 4 = 0
      /\ nlmsg_lens(b) >= NL_MSG_HDR_LEN
      /\ nlmsg_lens(b) + FPM_MSG_HDR_LEN <= FPM_MAX_MSG_LEN
  BY BatchFacts
<1>2. frame_len(b) = written(b)
  BY <1>1, FramesAreExact
<1>3. /\ added \in Nat /\ written(b) = added + nlmsg_lens(b)
      /\ added + NL_MSG_HDR_LEN >= header_len /\ header_len \in Nat \ {0}
  BY DEF written, added, header_len, FPM_MSG_HDR_LEN, NL_MSG_HDR_LEN
<1>4. NL_MSG_HDR_LEN \in Nat
  BY DEF NL_MSG_HDR_LEN
<1> QED
  BY <1>1, <1>2, <1>3, <1>4

\* Before each message of a batch, the walk has as much left as the rest of the
\* batch is long.
LEMMA WhatRemains ==
  ASSUME NEW b \in Batches, NEW len \in Nat
  PROVE  remaining(b, len) =
           [i \in 1..Len(b) |-> len - Total(SubSeq(lens(b), 1, i - 1))]
<1> DEFINE n == Len(b)
           r == [i \in 1..n |-> len - Total(SubSeq(lens(b), 1, i - 1))]
           Left(f) == f = [i \in 1..n |-> IF i = 1 THEN len
                                         ELSE f[i - 1] - fpm_msg_align(b[i - 1].len)]
<1>1. n \in Nat \ {0} /\ lens(b) \in Seq(Nat) /\ Len(lens(b)) = n
  BY BatchFacts
<1>2. ASSUME NEW i \in 1..n, i # 1
      PROVE  r[i] = r[i - 1] - fpm_msg_align(b[i - 1].len)
  <2>1. i - 1 \in 1..n
    BY <1>1, <1>2
  <2>2. /\ Total(SubSeq(lens(b), 1, i - 1))
             = Total(SubSeq(lens(b), 1, (i - 1) - 1)) + lens(b)[i - 1]
        /\ Total(SubSeq(lens(b), 1, i - 1)) \in Nat
        /\ Total(SubSeq(lens(b), 1, (i - 1) - 1)) \in Nat
    <3>1. i - 1 \in 0..n /\ (i - 1) - 1 \in 0..n
      BY <1>1, <2>1
    <3> QED
      BY <1>1, <2>1, <3>1, TotalPrefix
  <2>3. fpm_msg_align(b[i - 1].len) = lens(b)[i - 1] /\ lens(b)[i - 1] \in Nat
    <3>1. DOMAIN b = 1..n /\ b[i - 1].len % 4 = 0
      BY <2>1, BatchFacts, LenProperties, FramesAssumption DEF FramesAssumption
    <3>2. lens(b)[i - 1] = b[i - 1].len
      BY <2>1, <3>1 DEF lens
    <3>3. lens(b)[i - 1] \in Nat
      BY <1>1, <2>1, ElementOfSeq
    <3> QED
      BY <3>1, <3>2, <3>3, AlignFacts
  <2>4. /\ r[i] = len - Total(SubSeq(lens(b), 1, i - 1))
        /\ r[i - 1] = len - Total(SubSeq(lens(b), 1, (i - 1) - 1))
    BY <2>1
  <2> HIDE DEF r
  <2> QED
    BY <2>2, <2>3, <2>4
<1>3. r[1] = len
  <2>1. 1 - 1 = 0 /\ SubSeq(lens(b), 1, 0) = << >>
    BY SubSeqEmpty
  <2>2. 1 \in 1..n
    BY <1>1
  <2>3. r[1] = len - Total(SubSeq(lens(b), 1, 1 - 1))
    BY <2>2
  <2>4. Total(SubSeq(lens(b), 1, 1 - 1)) = 0
    BY <2>1, TotalAppend
  <2> HIDE DEF r
  <2> QED
    BY <2>3, <2>4
<1>4. Left(r)
  <2> DEFINE q == [i \in 1..n |-> IF i = 1 THEN len ELSE r[i - 1] - fpm_msg_align(b[i - 1].len)]
  <2>1. \A i \in 1..n : r[i] = q[i]
    <3> HIDE DEF r
    <3> QED
      BY <1>2, <1>3
  <2>2. r = q
    BY <2>1
  <2> QED
    BY <2>2
<1> DEFINE f == CHOOSE g : Left(g)
<1>5. remaining(b, len) = f
  BY DEF remaining
<1>6. Left(f)
  <2> HIDE DEF Left
  <2> QED
    BY <1>4
<1> HIDE DEF f, r, n
<1>7. ASSUME NEW i \in 1..n PROVE f[i] = r[i]
  <2> DEFINE Ok == {k \in Nat : k + 1 \in 1..n => f[k + 1] = r[k + 1]}
  <2>1. 0 \in Ok
    BY <1>1, <1>4, <1>6
  <2>2. ASSUME NEW k \in Nat, k \in Ok PROVE k + 1 \in Ok
    <3> SUFFICES ASSUME (k + 1) + 1 \in 1..n PROVE f[(k + 1) + 1] = r[(k + 1) + 1]
      OBVIOUS
    <3>1. k + 1 \in 1..n /\ (k + 1) + 1 # 1 /\ ((k + 1) + 1) - 1 = k + 1
      BY <1>1
    <3>2. f[k + 1] = r[k + 1]
      BY <2>2, <3>1
    <3> QED
      BY <1>4, <1>6, <3>1, <3>2
  <2> HIDE DEF Ok
  <2>3. i - 1 \in Ok
    <3>1. Nat \subseteq Ok
      BY <2>1, <2>2, Plus!Induction
    <3> QED
      BY <1>1, <3>1
  <2>4. (i - 1) + 1 = i
    BY <1>1
  <2> QED
    BY <2>3, <2>4 DEF Ok
<1>8. f = r
  <2>1. f = [i \in 1..n |-> f[i]]
    BY <1>6
  <2>2. r = [i \in 1..n |-> r[i]]
    BY <1>4
  <2> QED
    BY <1>7, <2>1, <2>2
<1> QED
  BY <1>5, <1>8 DEF r, n

\* nla_nlmsg_walk hands over every message of a frame.
LEMMA WalkFindsAll ==
  ASSUME NEW b \in Batches
  PROVE  nlmsg_walk(b, nlmsg_lens(b)) = b
<1> DEFINE n == Len(b)
           len == nlmsg_lens(b)
<1>1. /\ b \in Seq(Message) /\ n \in Nat \ {0} /\ DOMAIN b = 1..n
      /\ lens(b) \in Seq(Nat) /\ Len(lens(b)) = n /\ len \in Nat /\ len = Total(lens(b))
  BY BatchFacts, LenProperties DEF nlmsg_lens, lens
<1>2. ASSUME NEW i \in 1..n PROVE ~(remaining(b, len)[i] < b[i].len)
  <2>1. /\ Total(SubSeq(lens(b), 1, i)) = Total(SubSeq(lens(b), 1, i - 1)) + lens(b)[i]
        /\ Total(SubSeq(lens(b), 1, i)) \in 0..Total(lens(b))
        /\ Total(SubSeq(lens(b), 1, i - 1)) \in 0..Total(lens(b))
    <3>1. i \in 0..n /\ i - 1 \in 0..n
      BY <1>1
    <3> QED
      BY <1>1, <3>1, TotalPrefix
  <2>2. lens(b)[i] = b[i].len /\ lens(b)[i] \in Nat
    BY <1>1, ElementOfSeq DEF lens
  <2>3. remaining(b, len)[i] = len - Total(SubSeq(lens(b), 1, i - 1))
    BY <1>1, WhatRemains
  <2> HIDE DEF len
  <2> QED
    BY <1>1, <2>1, <2>2, <2>3
<1>3. {i \in 1..n : remaining(b, len)[i] < b[i].len} = {}
  BY <1>2
<1>4. nlmsg_walk(b, len) = SubSeq(b, 1, n)
  BY <1>3 DEF nlmsg_walk
<1> QED
  BY <1>1, <1>4, SubSeqFull

flens(frames) == [i \in DOMAIN frames |-> frame_len(frames[i])]

\* The bytes of the frames that have not been read
LEMMA FrameLensFacts ==
  ASSUME link \in {"FPM", "NLM"}, NEW s \in Seq(Batches)
  PROVE  /\ FrameLens(<< >>) = 0
         /\ FrameLens(s) \in Nat
         /\ \A b \in Batches : FrameLens(Append(s, b)) = FrameLens(s) + frame_len(b)
         /\ s # << >> => FrameLens(s) = frame_len(Head(s)) + FrameLens(Tail(s))
<1>0. \A t : FrameLens(t) = Total(flens(t))
  BY DEF FrameLens, flens
<1>1. ASSUME NEW t \in Seq(Batches)
      PROVE  /\ flens(t) \in Seq(Nat) /\ Len(flens(t)) = Len(t) /\ Len(t) \in Nat
             /\ \A i \in 1..Len(t) : flens(t)[i] = frame_len(t[i])
  <2>1. Len(t) \in Nat /\ DOMAIN t = 1..Len(t) /\ \A i \in 1..Len(t) : t[i] \in Batches
    BY LenProperties, ElementOfSeq
  <2>2. \A i \in 1..Len(t) : frame_len(t[i]) \in Nat
    BY <2>1, FrameFacts
  <2> QED
    BY <2>1, <2>2 DEF flens
<1>2. FrameLens(<< >>) = 0
  <2>1. flens(<< >>) = << >>
    BY DEF flens
  <2> QED
    BY <1>0, <2>1, TotalAppend
<1>3. FrameLens(s) \in Nat
  BY <1>0, <1>1, TotalNat
<1>4. ASSUME NEW b \in Batches PROVE FrameLens(Append(s, b)) = FrameLens(s) + frame_len(b)
  <2> DEFINE t == Append(s, b)
  <2>1. /\ t \in Seq(Batches) /\ Len(t) = Len(s) + 1 /\ t[Len(s) + 1] = b
        /\ \A i \in 1..Len(s) : t[i] = s[i]
    BY AppendProperties
  <2>2. frame_len(b) \in Nat
    BY FrameFacts
  <2> DEFINE u == Append(flens(s), frame_len(b))
  <2>3. /\ u \in Seq(Nat) /\ Len(u) = Len(s) + 1 /\ u[Len(s) + 1] = frame_len(b)
        /\ \A i \in 1..Len(s) : u[i] = frame_len(s[i])
    BY <1>1, <2>2, AppendProperties
  <2> HIDE DEF t, u
  <2>4. /\ flens(t) \in Seq(Nat) /\ Len(flens(t)) = Len(s) + 1
        /\ \A i \in 1..(Len(s) + 1) : flens(t)[i] = frame_len(t[i])
    BY <1>1, <2>1
  <2>5. \A i \in 1..(Len(s) + 1) : flens(t)[i] = u[i]
    <3>1. Len(s) \in Nat /\ \A i \in 1..(Len(s) + 1) : i = Len(s) + 1 \/ i \in 1..Len(s)
      BY <1>1
    <3> QED
      BY <2>1, <2>3, <2>4, <3>1
  <2>6. flens(t) = u
    BY <2>3, <2>4, <2>5, SeqEqual
  <2> QED
    BY <1>0, <1>1, <2>2, <2>6, TotalAppend DEF t, u
<1>5. ASSUME s # << >> PROVE FrameLens(s) = frame_len(Head(s)) + FrameLens(Tail(s))
  <2>1. /\ Head(s) = s[1] /\ Tail(s) \in Seq(Batches) /\ Len(Tail(s)) = Len(s) - 1
        /\ \A i \in 1..Len(Tail(s)) : Tail(s)[i] = s[i + 1]
    BY <1>5, HeadTailProperties
  <2>2. Len(s) \in Nat \ {0}
    BY <1>5, EmptySeq
  <2>3. flens(s) # << >> /\ Head(flens(s)) = frame_len(Head(s))
    BY <1>1, <2>1, <2>2, EmptySeq
  <2>4. /\ Tail(flens(s)) \in Seq(Nat) /\ Len(Tail(flens(s))) = Len(s) - 1
        /\ \A i \in 1..(Len(s) - 1) : Tail(flens(s))[i] = flens(s)[i + 1]
    BY <1>1, <2>3, HeadTailProperties
  <2>5. /\ flens(Tail(s)) \in Seq(Nat) /\ Len(flens(Tail(s))) = Len(s) - 1
        /\ \A i \in 1..(Len(s) - 1) : flens(Tail(s))[i] = frame_len(Tail(s)[i])
    BY <1>1, <2>1
  <2>6. \A i \in 1..(Len(s) - 1) : Tail(flens(s))[i] = flens(Tail(s))[i]
    <3>1. \A i \in 1..(Len(s) - 1) : i + 1 \in 1..Len(s)
      BY <2>2
    <3> QED
      BY <1>1, <2>1, <2>4, <2>5, <3>1
  <2>7. Tail(flens(s)) = flens(Tail(s))
    BY <2>4, <2>5, <2>6, SeqEqual
  <2> QED
    BY <1>0, <1>1, <2>3, <2>7, TotalHead
<1> QED
  BY <1>2, <1>3, <1>4, <1>5

-----------------------------------------------------------------------------
(* The reader stays in step.                                               *)

TypesOK ==
  /\ link \in {"FPM", "NLM"}
  /\ watermark \in {0, header_len}
  /\ sent \in Seq(Batches)
  /\ transit \in Nat /\ input \in Nat
  /\ reading \in BOOLEAN /\ alive \in BOOLEAN

Inv == TypesOK /\ InStep /\ NothingHeldBack

\* What a frame is long does not change with a step.
LEMMA LinkStays ==
  ASSUME UNCHANGED link
  PROVE  /\ FrameLens(sent)' = FrameLens(sent')
         /\ frame_len(Head(sent))' = frame_len(Head(sent'))
         /\ header_len' = header_len
BY DEF FrameLens, frame_len, header_len

\* Nothing is read off an empty stream, and from another the first frame.
LEMMA FirstFrame ==
  ASSUME Inv
  PROVE  /\ sent = << >> => input = 0 /\ transit = 0
         /\ sent # << >> =>
              /\ Head(sent) \in Batches /\ Tail(sent) \in Seq(Batches)
              /\ frame_len(Head(sent)) \in Nat
              /\ frame_len(Head(sent)) = written(Head(sent))
              /\ frame_len(Head(sent)) >= header_len
              /\ input + transit = frame_len(Head(sent)) + FrameLens(Tail(sent))
         /\ header_len \in Nat \ {0}
<1> USE DEF Inv, TypesOK, InStep
<1>1. header_len \in Nat \ {0}
  BY DEF header_len, FPM_MSG_HDR_LEN, NL_MSG_HDR_LEN
<1>2. ASSUME sent = << >> PROVE input = 0 /\ transit = 0
  <2>1. FrameLens(sent) = 0
    BY <1>2, FrameLensFacts
  <2> QED
    BY <2>1
<1>3. sent # << >> => Head(sent) \in Batches /\ Tail(sent) \in Seq(Batches)
  BY HeadTailProperties
<1>4. sent # << >> => input + transit = frame_len(Head(sent)) + FrameLens(Tail(sent))
  BY FrameLensFacts
<1> QED
  BY <1>1, <1>2, <1>3, <1>4, FrameFacts

LEMMA StepInv == ASSUME Inv, [Next]_vars PROVE Inv'
<1> USE DEF TypesOK, InStep, NothingHeldBack
<1>0. header_len \in Nat \ {0} /\ (sent = << >> => input = 0)
  BY FirstFrame
<1>1. ASSUME NEW b \in Batches, Write(b) PROVE Inv'
  <2>1. /\ sent' = Append(sent, b) /\ transit' = transit + written(b)
        /\ UNCHANGED <<link, watermark, input, reading, alive>>
    BY <1>1 DEF Write
  <2>2. frame_len(b) \in Nat /\ frame_len(b) = written(b) /\ frame_len(b) >= header_len
    BY FrameFacts DEF Inv
  <2>3. FrameLens(sent') = FrameLens(sent) + frame_len(b) /\ FrameLens(sent) \in Nat
    BY <2>1, FrameLensFacts DEF Inv
  <2>4. TypesOK'
    BY <2>1, <2>2, LinkStays, AppendProperties DEF Inv
  <2>5. InStep'
    BY <2>1, <2>2, <2>3, LinkStays DEF Inv
  <2>6. NothingHeldBack'
    <3>1. Head(sent') = IF sent = << >> THEN b ELSE Head(sent)
      BY <2>1, HeadTailAppend DEF Inv
    <3>2. CASE sent = << >>
      BY <1>0, <2>1, <2>2, <3>1, <3>2, LinkStays
    <3>3. CASE sent # << >>
      BY <2>1, <3>1, <3>3, LinkStays DEF Inv
    <3> QED
      BY <3>2, <3>3
  <2> QED
    BY <2>4, <2>5, <2>6 DEF Inv
<1>2. ASSUME NEW n \in 1..transit, Receive(n) PROVE Inv'
  <2>1. /\ transit' = transit - n /\ input' = input + n /\ reading' = (input' >= watermark)
        /\ UNCHANGED <<link, watermark, sent, alive>>
    BY <1>2 DEF Receive
  <2>2. n \in Nat /\ transit - n \in Nat
    BY <1>2 DEF Inv
  <2>3. TypesOK'
    BY <2>1, <2>2, LinkStays DEF Inv
  <2>4. InStep'
    BY <2>1, <2>2, LinkStays DEF Inv
  <2>5. NothingHeldBack'
    <3> SUFFICES ASSUME ~reading', sent # << >> PROVE input' < frame_len(Head(sent))
      BY <2>1, LinkStays
    <3>0. input' \in Nat /\ ~(input' >= watermark)
      <4>1. input + n \in Nat
        BY <2>2 DEF Inv
      <4> QED
        BY <2>1, <4>1
    <3>1. input' < header_len /\ input' \in Nat
      <4>1. CASE watermark = 0
        BY <3>0, <4>1
      <4>2. CASE watermark = header_len
        BY <1>0, <3>0, <4>2
      <4> QED
        BY <4>1, <4>2 DEF Inv
    <3> QED
      BY <1>0, <3>1, FirstFrame
  <2> QED
    BY <2>3, <2>4, <2>5 DEF Inv
<1>3. CASE ReadFrame
  <2> DEFINE len == frame_len(Head(sent))
  <2>1. /\ reading /\ input >= header_len /\ input >= len /\ input' = input - len
        /\ sent' = Tail(sent) /\ alive' \in BOOLEAN /\ reading' \in BOOLEAN
        /\ (alive' => reading')
        /\ UNCHANGED <<link, watermark, transit>>
    BY <1>3 DEF ReadFrame, complete, reads_on
  <2>2. sent # << >>
    BY <1>0, <2>1 DEF Inv
  <2>3. /\ Tail(sent) \in Seq(Batches) /\ len \in Nat
        /\ input + transit = len + FrameLens(Tail(sent))
    BY <2>2, FirstFrame
  <2>4. FrameLens(Tail(sent)) \in Nat
    BY <2>3, FrameLensFacts DEF Inv
  <2> HIDE DEF len
  <2>5. input - len \in Nat
    BY <2>1, <2>3 DEF Inv
  <2>6. TypesOK'
    BY <2>1, <2>3, <2>5, LinkStays DEF Inv
  <2>7. InStep'
    BY <2>1, <2>3, <2>4, <2>5, LinkStays DEF Inv
  <2>8. NothingHeldBack'
    BY <2>1
  <2> QED
    BY <2>6, <2>7, <2>8 DEF Inv
<1>4. CASE ReadDone
  <2>1. /\ reading' = FALSE
        /\ input < header_len \/ ~complete(input)
        /\ UNCHANGED <<link, watermark, sent, transit, input, alive>>
    BY <1>4 DEF ReadDone
  <2>2a. TypesOK'
    <3>1. reading' = FALSE /\ UNCHANGED <<link, watermark, sent, transit, input, alive>>
      BY <2>1
    <3> HIDE DEF NothingHeldBack, InStep
    <3>2. header_len' = header_len
      BY <3>1, LinkStays
    <3>3. TypesOK
      BY DEF Inv
    <3> QED
      BY <3>1, <3>2, <3>3
  <2>2. TypesOK' /\ InStep'
    <3>1. FrameLens(sent)' = FrameLens(sent)
      BY <2>1, LinkStays
    <3> QED
      BY <2>1, <2>2a, <3>1 DEF Inv
  <2>3. NothingHeldBack'
    <3> SUFFICES ASSUME sent # << >> PROVE input < frame_len(Head(sent))
      BY <2>1, LinkStays
    <3>1. frame_len(Head(sent)) \in Nat /\ frame_len(Head(sent)) >= header_len
      BY FirstFrame
    <3> QED
      BY <1>0, <2>1, <3>1 DEF Inv, complete
  <2> QED
    BY <2>2, <2>3 DEF Inv
<1>5. CASE Disconnect
  <2>1. /\ sent' = << >> /\ transit' = 0 /\ input' = 0
        /\ UNCHANGED <<link, watermark, reading, alive>>
    BY <1>5 DEF Disconnect
  <2>2. TypesOK'
    BY <2>1, LinkStays DEF Inv
  <2>3. FrameLens(<< >>) = 0
    <3>1. << >> \in Seq(Batches)
      OBVIOUS
    <3> QED
      BY <3>1, FrameLensFacts DEF Inv
  <2>4. InStep' /\ NothingHeldBack'
    BY <2>1, <2>3, LinkStays
  <2> QED
    BY <2>2, <2>4 DEF Inv
<1>6. CASE UNCHANGED vars
  BY <1>6, LinkStays DEF vars, Inv
<1> QED
  BY <1>1, <1>2, <1>3, <1>4, <1>5, <1>6 DEF Next, ReadCb

LEMMA Invariance == Spec => []Inv
<1>1. Init => Inv
  <2> SUFFICES ASSUME Init PROVE Inv
    OBVIOUS
  <2>0. << >> \in Seq(Batches)
    OBVIOUS
  <2>1. TypesOK
    BY <2>0 DEF Init, TypesOK
  <2>2. FrameLens(<< >>) = 0
    <3>1. << >> \in Seq(Batches)
      OBVIOUS
    <3> QED
      BY <2>1, <3>1, FrameLensFacts DEF TypesOK
  <2> QED
    BY <2>1, <2>2 DEF Init, Inv, InStep, NothingHeldBack
<1> QED
  BY <1>1, StepInv, PTL DEF Spec

\* However the stream is cut, the reader stands at the beginning of a frame, for
\* every set of batches that fit (InStep of NlaFraming): the lengths that the
\* writers put into the headers and the readers take from them cannot drift
\* apart, and a broken session leaves no bytes behind.
THEOREM ReaderStaysInStep == Spec => []InStep
<1>1. Inv => InStep
  BY DEF Inv
<1> QED
  BY <1>1, Invariance, PTL

\* When read_cb has returned, no complete frame waits in the input buffer
\* (NothingHeldBack of NlaFraming), whatever the low watermark is: without its
\* loop, a frame would stay there until the next bytes come.
THEOREM NoFrameIsHeldBack == Spec => []NothingHeldBack
<1>1. Inv => NothingHeldBack
  BY DEF Inv
<1> QED
  BY <1>1, Invariance, PTL

-----------------------------------------------------------------------------
(* The stream is a message link.                                           *)

Queue == IF alive THEN FlattenSeq(sent) ELSE << >>
Handed == IF alive THEN given ELSE << >>

\* NlaFold speaks of the same FlattenSeq.
LEMMA FlattenSame == \A s : FlattenSeq(s) = Plus!FlattenSeq(s)
BY DEF FlattenSeq, Plus!FlattenSeq

\* The batches of a stream are sequences of messages.
LEMMA StreamOfMessages ==
  ASSUME NEW s \in Seq(Batches)
  PROVE  s \in Seq(Seq(Message)) /\ << >> \notin {s[i] : i \in 1..Len(s)}
<1>1. Batches \subseteq Seq(Message) \ {<< >>}
  BY FramesAssumption
<1>2. Len(s) \in Nat /\ \A i \in 1..Len(s) : s[i] \in Batches
  BY LenProperties, ElementOfSeq
<1>3. s \in [1..Len(s) -> Seq(Message)]
  BY <1>1, <1>2, LenProperties
<1> QED
  BY <1>1, <1>2, <1>3, SeqDef

\* What the stream holds before and after a batch is written or read
LEMMA QueueFacts ==
  ASSUME NEW s \in Seq(Batches)
  PROVE  /\ FlattenSeq(<< >>) = << >>
         /\ FlattenSeq(s) \in Seq(Message)
         /\ \A b \in Batches : FlattenSeq(Append(s, b)) = FlattenSeq(s) \o b
         /\ s # << >> => FlattenSeq(s) = Head(s) \o FlattenSeq(Tail(s))
<1>1. s \in Seq(Seq(Message)) /\ \A b \in Batches : b \in Seq(Message)
  BY StreamOfMessages, FramesAssumption
<1> QED
  BY <1>1, FlattenSame, Plus!FlattenFacts, Plus!FlattenAppend

\* The first of two sequences and the second, cut out of both together
LEMMA Halves ==
  ASSUME NEW S, NEW a \in Seq(S), NEW b \in Seq(S)
  PROVE  /\ SubSeq(a \o b, 1, Len(a)) = a
         /\ SubSeq(a \o b, Len(a) + 1, Len(a \o b)) = b
         /\ Len(a \o b) = Len(a) + Len(b) /\ Len(a) \in Nat /\ Len(b) \in Nat
<1>1. /\ a \o b \in Seq(S) /\ Len(a \o b) = Len(a) + Len(b)
      /\ Len(a) \in Nat /\ Len(b) \in Nat
      /\ \A i \in 1..Len(a) : (a \o b)[i] = a[i]
      /\ \A i \in 1..Len(b) : (a \o b)[Len(a) + i] = b[i]
  BY ConcatProperties, LenProperties
<1> DEFINE c == a \o b
           d == SubSeq(c, 1, Len(a))
           e == SubSeq(c, Len(a) + 1, Len(c))
<1>2. /\ d \in Seq(S) /\ Len(d) = Len(a) /\ \A i \in 1..Len(a) : d[i] = c[i]
  BY <1>1
<1>3. /\ e \in Seq(S) /\ Len(e) = Len(b) /\ \A i \in 1..Len(b) : e[i] = c[Len(a) + i]
  BY <1>1
<1> HIDE DEF d, e
<1>4. d = a
  BY <1>1, <1>2, SeqEqual
<1>5. e = b
  BY <1>1, <1>3, SeqEqual
<1> QED
  BY <1>1, <1>4, <1>5 DEF d, e

\* What read_cb gives to the module: the batch that was written first.
LEMMA FrameIsGiven ==
  ASSUME Inv, ReadFrame, alive'
  PROVE  /\ sent # << >> /\ sent' = Tail(sent)
         /\ given' = Head(sent)
<1>1. /\ reading /\ input >= header_len /\ sent' = Tail(sent)
      /\ given' = nlmsg_walk(Head(sent), frame_len(Head(sent)) - added)
  BY DEF ReadFrame, complete
<1>2. sent # << >>
  BY <1>1, FirstFrame DEF Inv, TypesOK
<1>3. Head(sent) \in Batches
  BY <1>2, FirstFrame
<1>4. frame_len(Head(sent)) - added = nlmsg_lens(Head(sent))
  BY <1>3, FrameFacts DEF Inv, TypesOK
<1> QED
  BY <1>1, <1>2, <1>3, <1>4, WalkFindsAll

LEMMA StepOfTheLink ==
  ASSUME Inv, [Next]_vars
  PROVE  [Link!LinkNext]_(Link!linkVars)
<1> DEFINE put(b) == Queue' = Queue \o b /\ Handed' = Handed
           get == \E k \in 1..Len(Queue) :
                    /\ Handed' = SubSeq(Queue, 1, k)
                    /\ Queue' = SubSeq(Queue, k + 1, Len(Queue))
           break == Queue' = << >> /\ Handed' = << >>
           same == Queue' = Queue /\ Handed' = Handed
<1>0. /\ (\E b \in Batches : put(b)) \/ get \/ break => Link!LinkNext
      /\ same => UNCHANGED Link!linkVars
  BY DEF Link!LinkNext, Link!linkVars, Link!Put, Link!Get, Link!Break, Queue, Handed
<1>1. ASSUME NEW b \in Batches, Write(b), alive PROVE put(b)
  <2>1. sent' = Append(sent, b) /\ given' = given /\ alive'
    BY <1>1 DEF Write
  <2> QED
    BY <1>1, <2>1, QueueFacts DEF Inv, TypesOK, Queue, Handed
<1>2. ASSUME NEW n \in 1..transit, Receive(n) PROVE same
  BY <1>2 DEF Receive, Queue, Handed
<1>3. ASSUME ReadFrame, alive PROVE get \/ break
  <2>1. CASE alive'
    <3>1. /\ sent # << >> /\ sent' = Tail(sent) /\ given' = Head(sent)
      BY <1>3, <2>1, FrameIsGiven
    <3>2. /\ Head(sent) \in Batches /\ Tail(sent) \in Seq(Batches)
      BY <3>1, FirstFrame
    <3>3. /\ Queue = Head(sent) \o FlattenSeq(Tail(sent))
          /\ Queue' = FlattenSeq(Tail(sent)) /\ Handed' = Head(sent)
      BY <1>3, <2>1, <3>1, QueueFacts DEF Inv, TypesOK, Queue, Handed
    <3>4. /\ FlattenSeq(Tail(sent)) \in Seq(Message)
          /\ Head(sent) \in Seq(Message) /\ Len(Head(sent)) \in Nat \ {0}
      BY <3>2, QueueFacts, BatchFacts
    <3> DEFINE a == Head(sent)
               b == FlattenSeq(Tail(sent))
    <3> HIDE DEF a, b
    <3>5. /\ SubSeq(a \o b, 1, Len(a)) = a
          /\ SubSeq(a \o b, Len(a) + 1, Len(a \o b)) = b
          /\ Len(a \o b) = Len(a) + Len(b) /\ Len(a) \in Nat /\ Len(b) \in Nat
      BY <3>4, Halves DEF a, b
    <3>6. Queue = a \o b /\ Queue' = b /\ Handed' = a /\ Len(a) \in Nat \ {0}
      BY <3>3, <3>4 DEF a, b
    <3>7. Len(a) \in 1..Len(Queue)
      BY <3>5, <3>6
    <3>8. Handed' = SubSeq(Queue, 1, Len(a)) /\ Queue' = SubSeq(Queue, Len(a) + 1, Len(Queue))
      BY <3>5, <3>6
    <3> QED
      BY <3>7, <3>8
  <2>2. CASE ~alive'
    BY <2>2 DEF Queue, Handed
  <2> QED
    BY <2>1, <2>2
<1>4. ASSUME ReadDone PROVE same
  BY <1>4 DEF ReadDone, Queue, Handed
<1>5. ASSUME Disconnect PROVE break
  <2>1. sent' = << >> /\ given' = << >>
    BY <1>5 DEF Disconnect
  <2> QED
    BY <2>1, QueueFacts DEF Inv, TypesOK, Queue, Handed
<1>6. ASSUME UNCHANGED vars PROVE same
  BY <1>6 DEF vars, Queue, Handed
<1> HIDE DEF put, get, break, same
<1> QED
  BY <1>0, <1>1, <1>2, <1>3, <1>4, <1>5, <1>6 DEF Next, ReadCb, put, same

\* The stream implements the message link that the other modules rely on
\* (ImplementsLink of NlaFraming), for every set of batches that fit, every cut
\* of the stream and every garbage on the stack of read_cb: messages are handed
\* over once, in order and whole, until a session breaks or the receiver's
\* assertion stops it.
THEOREM FramingImplementsLink == Spec => ImplementsLink
<1>1. Init => Link!LinkInit
  BY QueueFacts, << >> \in Seq(Batches) DEF Init, Link!LinkInit
<1>2. Inv /\ [Next]_vars => [Link!LinkNext]_(Link!linkVars)
  BY StepOfTheLink
<1> QED
  BY <1>1, <1>2, Invariance, PTL DEF Spec, ImplementsLink, Link!LinkSpec

=============================================================================
