--------------------------- MODULE PacketFraming ---------------------------
(***************************************************************************)
(* MySQL packets over a byte stream: PacketWriter::write_packet cuts a     *)
(* payload into frames of at most U24_MAX bytes, each behind a header of   *)
(* three length bytes and a sequence id; PacketReader::next puts them      *)
(* together again from reads that return any number of bytes.  The stream  *)
(* may break or be closed between any two bytes.                           *)
(*                                                                         *)
(* The sender is either the server's PacketWriter or a client's own, which *)
(* frames alike but may also send empty packets, break the sequence ids of *)
(* a fragmented one, or exceed the reader's limit.  The bytes of a payload *)
(* carry the number of their packet.                                       *)
(***************************************************************************)
EXTENDS Integers, Sequences, SequencesExt

CONSTANTS
  U24_MAX,          \* 2^24 - 1 in the code
  SeqModulus,       \* 256 in the code
  MaxPacketSize,    \* the reader's limit
  FirstSeq,         \* ids set_seq gives before a reply
  PayloadSize,      \* sizes of the payloads sent
  MaxPackets        \* bound: packets sent

ASSUME FramingAssumption ==
  /\ U24_MAX \in Nat \ {0} /\ U24_MAX < 256 * 256 * 256    \* three bytes
  /\ SeqModulus \in 2 .. 256                               \* one
  /\ FirstSeq \subseteq 0 .. SeqModulus - 1
  /\ MaxPacketSize \in Nat /\ PayloadSize \subseteq Nat /\ MaxPackets \in Nat

VARIABLES
  sender,      \* "server" or "client", fixed
  seq,         \* PacketBuilder::seq
  unwritten,   \* bytes of the current packet not yet accepted by the stream
  wire,        \* bytes in the stream
  closed,      \* no more bytes will come
  bytes,       \* PacketReader::bytes
  outcome,     \* the reader: "reading", "end" (Ok(None)) or the error returned
  sent,        \* history: packets handed to the sender
  received     \* history: packets the reader returned

vars == <<sender, seq, unwritten, wire, closed, bytes, outcome, sent, received>>

NextSeq(s) == (s + 1) % SeqModulus

-----------------------------------------------------------------------------
(* PacketWriter                                                            *)

(* payload.chunks(U24_MAX), and an empty frame after an exact multiple.    *)
FrameCount_noTerminator(size) == (size + U24_MAX - 1) \div U24_MAX
FrameCount(size) == (size \div U24_MAX) + 1

FrameSize(size, k) == IF k < size \div U24_MAX THEN U24_MAX ELSE size - k * U24_MAX

HeaderOf(size, s) == <<size % 256, (size \div 256) % 256, size \div (256 * 256), s>>

SeqOfFrame(first, k) == (first + k) % SeqModulus

(* Frame k of a payload, whose bytes are all the packet's number.          *)
Frame(size, number, k, s) ==
  HeaderOf(FrameSize(size, k), s) \o [i \in 1 .. FrameSize(size, k) |-> number]

Encode(size, number, Ids(_)) ==
  FlattenSeq([k \in 1 .. FrameCount(size) |-> Frame(size, number, k - 1, Ids(k - 1))])

(* A packet as the receiver should see it.                                 *)
PacketOf(size, number, first) ==
  [payload |-> [i \in 1 .. size |-> number],
   first |-> first, last |-> SeqOfFrame(first, FrameCount(size) - 1), legal |-> TRUE]

Init ==
  /\ sender \in {"server", "client"}
  /\ seq \in FirstSeq
  /\ unwritten = <<>> /\ wire = <<>> /\ bytes = <<>>
  /\ closed = FALSE /\ outcome = "reading"
  /\ sent = <<>> /\ received = <<>>

CanSend == unwritten = <<>> /\ ~closed /\ Len(sent) < MaxPackets

(* write_packet: an empty payload sends nothing.                           *)
WritePacket(size) ==
  LET number == Len(sent) + 1
  IN  /\ sender = "server" /\ CanSend
      /\ size > 0
      /\ unwritten' = Encode(size, number, LAMBDA k : SeqOfFrame(seq, k))
      /\ seq' = SeqOfFrame(seq, FrameCount(size))
      /\ sent' = Append(sent, PacketOf(size, number, seq))
      /\ UNCHANGED <<sender, wire, closed, bytes, outcome, received>>

(* A client's packet; `skip` breaks the ids from its second frame on.      *)
ClientSends(size, skip) ==
  LET number == Len(sent) + 1
      breaks == skip /\ FrameCount(size) > 1
      At(k) == IF breaks /\ k > 0 THEN SeqOfFrame(seq, k + 1) ELSE SeqOfFrame(seq, k)
  IN  /\ sender = "client" /\ CanSend
      /\ unwritten' = Encode(size, number, At)
      /\ seq' \in {0, SeqOfFrame(seq, FrameCount(size))}
      /\ sent' = Append(sent, [PacketOf(size, number, seq) EXCEPT !.legal = ~breaks])
      /\ UNCHANGED <<sender, wire, closed, bytes, outcome, received>>

(* write_chunk over every frame: the stream accepts any number of bytes at *)
(* a time until it has them all.                                           *)
WriteChunks ==
  /\ unwritten # <<>> /\ ~closed
  /\ wire' = wire \o unwritten /\ unwritten' = <<>>
  /\ UNCHANGED <<sender, seq, closed, bytes, outcome, sent, received>>

(* A write error or timeout after any byte, after which the writer is      *)
(* dropped, or the end of the connection; what the stream holds can still  *)
(* be read.                                                                *)
Closes ==
  /\ ~closed
  /\ closed' = TRUE /\ unwritten' = <<>>
  /\ \E n \in 0 .. Len(unwritten) : wire' = wire \o SubSeq(unwritten, 1, n)
  /\ UNCHANGED <<sender, seq, bytes, outcome, sent, received>>

-----------------------------------------------------------------------------
(* PacketReader.  Every frame before the last of a packet is full, so      *)
(* frame k starts at a fixed offset.                                       *)

Start(k) == k * (U24_MAX + 4)
LengthKnown(k) == Len(bytes) >= Start(k) + 3
HeaderKnown(k) == Len(bytes) >= Start(k) + 4
LengthOf(k) == bytes[Start(k) + 1] + 256 * bytes[Start(k) + 2] + 256 * 256 * bytes[Start(k) + 3]
SeqAt(k) == bytes[Start(k) + 4]
Arrived(k) == HeaderKnown(k) /\ Len(bytes) >= Start(k) + 4 + LengthOf(k)

(* Frames the reader looks at: 0 and each one behind full, whole frames.   *)
Reached(k) == \A j \in 0 .. k - 1 : Arrived(j) /\ LengthOf(j) = U24_MAX
Probed == {k \in 0 .. Len(bytes) \div (U24_MAX + 4) : Reached(k)}

(* ensure_packet_limit: on the lengths, before the payload has arrived.    *)
TooLarge_perFrame == \E k \in Probed : LengthKnown(k) /\ LengthOf(k) > MaxPacketSize
TooLarge == \E k \in Probed : LengthKnown(k) /\ k * U24_MAX + LengthOf(k) > MaxPacketSize

Mismatch_unwrapped == \E k \in Probed \ {0} : HeaderKnown(k) /\ SeqAt(k) # SeqAt(k - 1) + 1
Mismatch == \E k \in Probed \ {0} : HeaderKnown(k) /\ SeqAt(k) # NextSeq(SeqAt(k - 1))

LastFrame(k) == k \in Probed /\ Arrived(k) /\ LengthOf(k) < U24_MAX

Assembled(k) ==
  FlattenSeq([j \in 1 .. k + 1 |->
    SubSeq(bytes, Start(j - 1) + 5, Start(j - 1) + 4 + LengthOf(j - 1))])

Incomplete == ~TooLarge /\ ~Mismatch /\ ~\E k \in Probed : LastFrame(k)

Fails(error) ==
  /\ outcome' = error
  /\ UNCHANGED <<sender, seq, unwritten, wire, closed, bytes, sent, received>>

(* next, next_async: the limit, then packet(), then a read.                *)
ReaderRefuses ==
  /\ outcome = "reading"
  /\ \/ TooLarge /\ Fails("too_large")
     \/ ~TooLarge /\ Mismatch /\ Fails("mismatch")

RestAfter_dropped(k) == <<>>
RestAfter(k) == SubSeq(bytes, Start(k) + 5 + LengthOf(k), Len(bytes))

ReturnsPacket ==
  /\ outcome = "reading" /\ ~TooLarge /\ ~Mismatch
  /\ \E k \in Probed :
       /\ LastFrame(k)
       /\ received' = Append(received,
            [payload |-> Assembled(k), first |-> SeqAt(0), last |-> SeqAt(k), legal |-> TRUE])
       /\ bytes' = RestAfter(k)
  /\ UNCHANGED <<sender, seq, unwritten, wire, closed, outcome, sent>>

ReadSome ==
  /\ outcome = "reading" /\ Incomplete /\ wire # <<>>
  /\ \E n \in 1 .. Len(wire) :
       /\ bytes' = bytes \o SubSeq(wire, 1, n)
       /\ wire' = SubSeq(wire, n + 1, Len(wire))
  /\ UNCHANGED <<sender, seq, unwritten, closed, outcome, sent, received>>

EndOfStream_lenient == "end"
EndOfStream == IF bytes = <<>> THEN "end" ELSE "truncated"

ReadEnd ==
  /\ outcome = "reading" /\ Incomplete
  /\ wire = <<>> /\ closed
  /\ Fails(EndOfStream)

(* read_packet_with_timeout drops next_async while read_buf is pending (the *)
(* bytes in the stream may still be on their way), and with it the bytes   *)
(* mem::take has put into its buffer.  Both callers end the connection.    *)
AfterTimeout_retry == "reading"
AfterTimeout == "timeout"

ReadTimesOut ==
  /\ outcome = "reading" /\ Incomplete
  /\ bytes' = <<>> /\ outcome' = AfterTimeout
  /\ UNCHANGED <<sender, seq, unwritten, wire, closed, sent, received>>

Reader == ReaderRefuses \/ ReturnsPacket \/ ReadSome \/ ReadEnd

Next ==
  \/ \E size \in PayloadSize : WritePacket(size) \/ \E skip \in BOOLEAN : ClientSends(size, skip)
  \/ WriteChunks \/ Closes \/ Reader \/ ReadTimesOut

Spec == Init /\ [][Next]_vars

(* The stream takes bytes while it is open, and the reader is polled.      *)
FairSpec == Spec /\ WF_vars(WriteChunks) /\ WF_vars(Reader)

-----------------------------------------------------------------------------
(* The reader returns the packets sent, whole, in order, none invented and *)
(* none from frames whose sequence ids do not follow, however the stream   *)
(* was cut into reads, and with the sequence ids replies continue from;    *)
(* also when a read timeout has dropped bytes of a packet half read.       *)
ReceivedAsSent == IsPrefix(received, sent)

Refused == sent[Len(received) + 1]

(* A legal packet within the limit is never refused: not for its size, not *)
(* for the bytes of the packet behind it, not where its ids wrap.          *)
RefusesOnlyBad ==
  /\ outcome = "too_large" => Len(Refused.payload) > MaxPacketSize
  /\ outcome = "mismatch" => ~Refused.legal

(* No payload above the limit is ever returned, fragmented or not.         *)
LimitHolds == \A i \in DOMAIN received : Len(received[i].payload) <= MaxPacketSize

(* Ok(None) means the stream ended between two packets; a packet cut short *)
(* is an error.                                                            *)
EndIsClean ==
  outcome = "end" =>
    /\ bytes = <<>>
    /\ received = sent \/ received = Front(sent)      \* the last one never got out

(* Every packet handed to an open stream is returned, or the stream or the *)
(* reader has ended: none waits for a frame that will not come.            *)
PacketsArrive ==
  \A i \in 1 .. MaxPackets :
    Len(sent) >= i ~> Len(received) >= i \/ outcome # "reading"
=============================================================================
