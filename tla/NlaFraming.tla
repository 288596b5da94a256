------------------------------ MODULE NlaFraming ------------------------------
(***************************************************************************)
(* How messages cross a stream: notify_cb of the clients and servers on    *)
(* one end, read_cb on the other, nla_fpm.h and the walks of nla_util.c.   *)
(* The stream is cut anywhere; read_cb runs when the input buffer holds    *)
(* its low watermark, and reads one frame after the other into a buffer on *)
(* its stack that it walks twice.                                          *)
(*                                                                         *)
(* Lengths are bytes.  Of the contents of a message only one thing can     *)
(* matter to the framing: which of its words would pass for the header of  *)
(* an FPM message, because the walk over a message looks behind its end.   *)
(***************************************************************************)
EXTENDS Integers, Sequences, SequencesExt

CONSTANTS
  Batches,    \* the sequences of messages that are sent as one frame
  Garbage,    \* offsets at which the stack may hold a word like an FPM header
  MaxFrames   \* bound of the frames under way

\* A netlink message: its length, and the offsets of the words that look like
\* an FPM header.
Message == [id : STRING, len : Nat, looks : SUBSET Nat]

FPM_MSG_HDR_LEN == 4
FPM_MAX_MSG_LEN == 4096
NL_MSG_HDR_LEN  == 16

Total(lens) == FoldLeft(+, 0, lens)
nlmsg_lens(batch) == Total([i \in DOMAIN batch |-> batch[i].len])

\* Netlink messages are padded (kernel and libnl pad every attribute), and no
\* batch is longer than an FPM message may be.
ASSUME FramesAssumption ==
  /\ \A b \in Batches :
       /\ b \in Seq(Message) \ {<< >>}
       /\ \A i \in DOMAIN b : b[i].len % 4 = 0 /\ b[i].len >= NL_MSG_HDR_LEN
       /\ nlmsg_lens(b) + FPM_MSG_HDR_LEN <= FPM_MAX_MSG_LEN
  /\ Garbage \subseteq Nat
  /\ MaxFrames \in Nat

VARIABLES
  link,       \* "FPM" or "NLM": what is spoken
  watermark,  \* EV_READ low watermark: servers set the header length, clients none
  sent,       \* the frames that have not been read
  transit,    \* bytes of them in the network
  input,      \* bytes of them in the input buffer of the receiver
  reading,    \* read_cb runs
  data,       \* offsets of its buffer that hold a word like an FPM header
  given,      \* observer: messages of the frame that was read last
  alive       \* no assertion has failed

vars == <<link, watermark, sent, transit, input, reading, data, given, alive>>

-----------------------------------------------------------------------------
(* Lengths and headers.                                                    *)

\* Slip: the header is not counted.
fpm_data_len_to_msg_len_bare(data_len) == data_len
fpm_data_len_to_msg_len(data_len) == data_len + FPM_MSG_HDR_LEN

\* nla_build_fpm_hdr: what is left of the length in a field of 16 bits
fpm_msg_len(data_len) == fpm_data_len_to_msg_len(data_len) % 65536

fpm_msg_align(len) == ((len + 3) \div 4) * 4

\* of a header whose type is FPM_MSG_TYPE_NETLINK
fpm_msg_hdr_ok(msg_len) ==
  /\ msg_len >= FPM_MSG_HDR_LEN /\ msg_len <= FPM_MAX_MSG_LEN
  /\ fpm_msg_align(msg_len) = msg_len

\* What notify_cb adds to the stream
added == IF link = "FPM" THEN FPM_MSG_HDR_LEN ELSE 0
written(batch) == added + nlmsg_lens(batch)

\* What read_cb takes off it: the length in the header.  A frame of the NLM
\* link is one message.
frame_len(batch) ==
  IF link = "FPM" THEN fpm_msg_len(nlmsg_lens(batch)) ELSE fpm_msg_align(nlmsg_lens(batch))

header_len == IF link = "FPM" THEN FPM_MSG_HDR_LEN ELSE NL_MSG_HDR_LEN

\* nlmsg_next: what is left of len bytes before each message of a batch
remaining(batch, len) ==
  LET left[i \in 1..Len(batch)] ==
        IF i = 1 THEN len ELSE left[i - 1] - fpm_msg_align(batch[i - 1].len)
  IN left

\* Slip: the walk ends with the first message.
nlmsg_walk_first(batch, len) == SubSeq(batch, 1, 1)

\* nla_nlmsg_walk: the messages up to the first that does not fit
nlmsg_walk(batch, len) ==
  LET short == {i \in 1..Len(batch) : remaining(batch, len)[i] < batch[i].len}
  IN SubSeq(batch, 1, IF short = {} THEN Len(batch) ELSE Min(short) - 1)

\* The words of a frame that look like a header
looks_like_header(batch) ==
  UNION {{FPM_MSG_HDR_LEN + nlmsg_lens(SubSeq(batch, 1, i - 1)) + o : o \in batch[i].looks}
           : i \in DOMAIN batch}

-----------------------------------------------------------------------------
Init ==
  /\ link \in {"FPM", "NLM"}
  /\ watermark \in {0, header_len}
  /\ sent = << >>
  /\ transit = 0
  /\ input = 0
  /\ reading = FALSE
  /\ data \in SUBSET Garbage
  /\ given = << >>
  /\ alive = TRUE

\* notify_cb of the sender, for one message, or an FPM peer that packs several
Write(batch) ==
  /\ Len(sent) < MaxFrames
  /\ link = "NLM" => Len(batch) = 1
  /\ sent' = Append(sent, batch)
  /\ transit' = transit + written(batch)
  /\ UNCHANGED <<link, watermark, input, reading, data, given, alive>>

\* A piece of the stream of any size arrives.
Receive(n) ==
  /\ ~reading
  /\ n \in 1..transit
  /\ transit' = transit - n
  /\ input' = input + n
  /\ reading' = (input' >= watermark)
  /\ UNCHANGED <<link, watermark, sent, data, given, alive>>

\* Slip: a frame is found only if there is nothing behind it.
complete_exact(n) == sent # << >> /\ n = frame_len(Head(sent))

\* Does read_cb find a frame among n bytes of input?
complete(n) == n >= header_len /\ n >= frame_len(Head(sent))

\* Slip: one message for each call of read_cb.
reads_on_once(n) == FALSE
\* for (;;)
reads_on(n) == TRUE

\* One pass of the loop of read_cb that finds a frame.  A header that is not ok
\* is an assertion that fails.  The first walk, which dumps the messages, goes on
\* while the word behind the frame looks like a header: nothing is left for it,
\* and fpm_msg_next asserts.  A build without assertions (make's -D NDEBUG) does
\* not get further: the walk goes on at the NULL that fpm_msg_next returns.
ReadFrame ==
  LET batch == Head(sent)
      len   == frame_len(batch)
  IN /\ reading
     /\ complete(input)
     /\ input' = input - len
     /\ sent' = Tail(sent)
     /\ data' = {o \in data : o >= len} \cup looks_like_header(batch)
     /\ alive' = (link = "FPM" => fpm_msg_hdr_ok(len) /\ len \notin data')
     /\ given' = IF alive' THEN nlmsg_walk(batch, len - added) ELSE given
     /\ reading' = (alive' /\ reads_on(input'))
     /\ UNCHANGED <<link, watermark, transit>>

\* Nothing, part of a header, or part of a message is left: read_cb returns,
\* and the stack changes.
ReadDone ==
  /\ reading
  /\ input < header_len \/ ~complete(input)
  /\ reading' = FALSE
  /\ data' \in SUBSET Garbage
  /\ UNCHANGED <<link, watermark, sent, transit, input, given, alive>>

\* The session breaks, and both ends free their bufferevent; the next one
\* starts empty.
Disconnect ==
  /\ ~reading
  /\ sent' = << >>
  /\ transit' = 0
  /\ input' = 0
  /\ given' = << >>
  /\ UNCHANGED <<link, watermark, reading, data, alive>>

ReadCb == ReadFrame \/ ReadDone

Next ==
  /\ alive
  /\ \/ ReadCb \/ Disconnect
     \/ \E batch \in Batches : Write(batch)
     \/ \E n \in 1..transit : Receive(n)

Spec == Init /\ [][Next]_vars

\* read_cb goes on, and the network delivers what is in it.
Fairness ==
  /\ WF_vars(alive /\ ReadCb)
  /\ WF_vars(alive /\ \E n \in 1..transit : Receive(n))

FairSpec == Spec /\ Fairness

-----------------------------------------------------------------------------
(* Properties.                                                             *)

FrameLens(frames) == Total([i \in DOMAIN frames |-> frame_len(frames[i])])

\* However the stream is cut, the reader stands at the beginning of a frame:
\* what it takes off is what the writer put on, and a session that breaks in
\* the middle of a message leaves nothing to the next.
InStep == input >= 0 /\ input + transit = FrameLens(sent)

\* When read_cb has returned, no frame that has arrived waits in the buffer:
\* the next call comes only with the next bytes.
NothingHeldBack ==
  (~reading /\ alive /\ sent # << >>) => input < frame_len(Head(sent))

\* Every frame has its turn: if from some time on there is always one that has
\* not been read, frames are read for ever, each with all of its messages.  So a
\* frame waits for ever only if its session breaks or the receiver stops, be it
\* the first of the session or a later one.
EventuallyHandedOver ==
  <>[](alive /\ sent # << >>) => []<><<ReadFrame /\ given' = Head(sent)>>_vars

\* The stream is the message link that the modules rely on.
Link == INSTANCE NlaLink WITH
  queue <- IF alive THEN FlattenSeq(sent) ELSE << >>,
  given <- IF alive THEN given ELSE << >>
ImplementsLink == Link!LinkSpec

\* No assertion of the receive path fails on messages that are well-formed:
\* "assert(0)" where the rest of a buffer is shorter than its next message
\* (nla_fpm.h:248), "assert(false)" for a bad header (nla_fpm_client.c:117).
NoAssertionFails == alive

=============================================================================
