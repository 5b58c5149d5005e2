---------------------------- MODULE BufferedOutput ----------------------------
(***************************************************************************)
(* How replies leave the server: PacketWriter::write_chunk offers a header *)
(* and a chunk to an AsyncWrite, which takes some of their bytes at a time:*)
(* tokio's BufWriter (run_on_buffered) over a socket that has room for so  *)
(* much, drained by a client that may pipeline commands.  Packets are      *)
(* flushed at a threshold, replies by flush_all before the next command is *)
(* read; a write or flush that waits too long ends the connection.         *)
(*                                                                         *)
(* A byte is the number of its frame and its place in it.                  *)
(***************************************************************************)
EXTENDS Integers, SequencesExt

CONSTANTS
  HeaderSize,       \* PACKET_HEADER_SIZE: 4 in the code
  U24_MAX,          \* 2^24 - 1 in the code
  Capacities,       \* write_buffer_size; a BufWriter of 0 is none at all
  Thresholds,       \* flush_threshold
  SocketRoom,       \* bytes the socket holds
  RequestRoom,      \* commands the socket holds in the other direction
  Replies,          \* sequences of payload sizes, none of them 0
  MaxCommands       \* bound: commands a client sends

ASSUME OutputAssumption ==
  /\ HeaderSize \in Nat \ {0} /\ U24_MAX \in Nat \ {0} /\ SocketRoom \in Nat \ {0}
  /\ Capacities \subseteq Nat /\ Thresholds \subseteq Nat
  /\ RequestRoom \in Nat \ {0} /\ MaxCommands \in Nat
  /\ Replies \subseteq Seq(Nat \ {0})

VARIABLES
  setup,           \* capacity, threshold, write_timeout, vectored, client: fixed
  server,          \* "reading", "writing", "flushing" or "closed"
  packets,         \* payloads of the reply not yet written, the current one first
  chunks,          \* chunks of the current payload not yet written
  frame,           \* frames begun
  header_offset, chunk_offset,
  buffered,        \* BufWriter::buf
  written,         \* BufWriter::written: how much of it the socket has taken
  socket,          \* bytes on their way to the client
  requests,        \* commands on their way to the server
  sent,            \* commands the client has sent
  received,        \* history: what the client has read
  replies          \* history: the replies begun

output == <<packets, chunks, frame, header_offset, chunk_offset>>
vars == <<setup, server, output, buffered, written, socket, requests, sent, received, replies>>

Clients == {"reads", "pipelines", "stalls"}

-----------------------------------------------------------------------------
(* write_packet: payload.chunks(U24_MAX), then an empty one after an exact *)
(* multiple.                                                               *)
Chunks(size) ==
  [k \in 1 .. size \div U24_MAX + 1 |->
     IF k <= size \div U24_MAX THEN U24_MAX ELSE size % U24_MAX]

(* The bytes replies should put on the wire.                               *)
Intended ==
  LET sizes == FlattenSeq([i \in DOMAIN replies |->
                 FlattenSeq([j \in DOMAIN replies[i] |-> Chunks(replies[i][j])])])
  IN  FlattenSeq([k \in DOMAIN sizes |-> [i \in 1 .. HeaderSize + sizes[k] |-> <<k, i>>]])

(* The two slices write_chunk offers.                                      *)
Header == [i \in 1 .. HeaderSize - header_offset |-> <<frame, header_offset + i>>]
Chunk == [i \in 1 .. Head(chunks) - chunk_offset |-> <<frame, HeaderSize + chunk_offset + i>>]

Init ==
  /\ setup \in [capacity : Capacities, threshold : Thresholds, write_timeout : BOOLEAN,
                vectored : BOOLEAN, client : Clients]
  /\ server = "reading"
  /\ packets = <<>> /\ chunks = <<>> /\ frame = 0 /\ header_offset = 0 /\ chunk_offset = 0
  /\ buffered = <<>> /\ written = 0 /\ socket = <<>> /\ requests = 0
  /\ sent = 0 /\ received = <<>> /\ replies = <<>>

-----------------------------------------------------------------------------
(* The server.                                                             *)

Begins(payloads) ==
  /\ packets' = payloads /\ chunks' = Chunks(Head(payloads))
  /\ frame' = frame + 1 /\ header_offset' = 0 /\ chunk_offset' = 0
  /\ server' = "writing"

(* A command and the reply it will get; CLOSE and SEND_LONG_DATA get none. *)
ServesCommand ==
  /\ server = "reading" /\ requests > 0
  /\ requests' = requests - 1
  /\ \E reply \in Replies :
       /\ replies' = Append(replies, reply)
       /\ IF reply = <<>> THEN UNCHANGED <<server, output>> ELSE Begins(reply)
  /\ UNCHANGED <<setup, buffered, written, socket, sent, received>>

(* The end of write_packet: a flush at the threshold, the next packet of   *)
(* the reply or, behind the last, flush_all.                               *)
PacketSent ==
  LET rest == Tail(packets)
      flush == setup.threshold > 0 /\ Head(packets) >= setup.threshold
  IN  IF rest # <<>> /\ ~flush THEN Begins(rest)
      ELSE /\ server' = "flushing" /\ packets' = rest /\ chunks' = <<>>
           /\ UNCHANGED <<frame, header_offset, chunk_offset>>

(* Where write_chunk stands when n more bytes are taken.                   *)
Offsets_headerForgotten(n) ==
  IF n < HeaderSize - header_offset
    THEN <<header_offset + n, chunk_offset>> ELSE <<HeaderSize, chunk_offset + n>>
Offsets(n) ==
  IF n < HeaderSize - header_offset
    THEN <<header_offset + n, chunk_offset>>
    ELSE <<HeaderSize, chunk_offset + n - (HeaderSize - header_offset)>>

Advance(n) ==
  LET offsets == Offsets(n)
  IN  IF offsets[1] < HeaderSize \/ offsets[2] < Head(chunks)
        THEN /\ header_offset' = offsets[1] /\ chunk_offset' = offsets[2]
             /\ UNCHANGED <<server, packets, chunks, frame>>
      ELSE IF Len(chunks) > 1
        THEN /\ chunks' = Tail(chunks) /\ frame' = frame + 1
             /\ header_offset' = 0 /\ chunk_offset' = 0
             /\ UNCHANGED <<server, packets>>
      ELSE PacketSent

-----------------------------------------------------------------------------
(* BufWriter.  Over a writer that is not vectored it looks at the first    *)
(* slice that is not empty, and takes the second if that fits too.         *)

Room == SocketRoom - Len(socket)
First == IF setup.vectored THEN Header \o Chunk
         ELSE IF Header # <<>> THEN Header ELSE Chunk

Fits == Len(First) <= setup.capacity - Len(buffered)
Taken ==
  IF ~setup.vectored /\ Header # <<>> /\ Len(buffered \o Header \o Chunk) <= setup.capacity
    THEN Header \o Chunk ELSE First

(* poll_write_vectored first flushes what leaves no room for the slices.   *)
Spills == server = "writing" /\ ~Fits /\ buffered # <<>>

(* Then it keeps the slices, or passes large ones on.                      *)
WriteBuffers ==
  /\ server = "writing" /\ ~Spills /\ Len(First) < setup.capacity
  /\ buffered' = buffered \o Taken
  /\ Advance(Len(Taken))
  /\ UNCHANGED <<setup, written, socket, requests, sent, received, replies>>

WriteThrough ==
  /\ server = "writing" /\ ~Spills /\ Len(First) >= setup.capacity
  /\ \E n \in 1 .. Len(First) :
       /\ n <= Room
       /\ socket' = socket \o SubSeq(First, 1, n)
       /\ Advance(n)
  /\ UNCHANGED <<setup, buffered, written, requests, sent, received, replies>>

(* flush_buf: the buffer is free again when the socket has all of it.      *)
FlushBuf ==
  /\ server = "flushing" \/ Spills
  /\ \E n \in 1 .. Len(buffered) - written :
       /\ n <= Room
       /\ socket' = socket \o SubSeq(buffered, written + 1, written + n)
       /\ IF written + n = Len(buffered)
            THEN buffered' = <<>> /\ written' = 0
            ELSE written' = written + n /\ UNCHANGED buffered
  /\ UNCHANGED <<setup, server, output, requests, sent, received, replies>>

Flushed ==
  /\ server = "flushing" /\ buffered = <<>>
  /\ IF packets # <<>> THEN Begins(packets) ELSE server' = "reading" /\ UNCHANGED output
  /\ UNCHANGED <<setup, buffered, written, socket, requests, sent, received, replies>>

(* The socket has no room, and whoever waits for it has a timeout.  The    *)
(* connection ends, and what is buffered is dropped with the BufWriter.    *)
Timed_writeOnly == {"writing"}
Timed == {"writing", "flushing"}

Blocked ==
  /\ Room = 0
  /\ \/ buffered # <<>> /\ (server = "flushing" \/ Spills)
     \/ server = "writing" /\ ~Spills /\ Len(First) >= setup.capacity

WriteTimeout ==
  /\ setup.write_timeout /\ Blocked /\ server \in Timed
  /\ server' = "closed" /\ buffered' = <<>> /\ written' = 0
  /\ UNCHANGED <<setup, output, socket, requests, sent, received, replies>>

Server == ServesCommand \/ WriteBuffers \/ WriteThrough \/ FlushBuf \/ Flushed

-----------------------------------------------------------------------------
(* The client sends commands as long as there is room for them, and reads: *)
(* always, not before it has sent them all, or as it likes.                *)

ClientSends ==
  /\ sent < MaxCommands /\ requests < RequestRoom /\ server # "closed"
  /\ sent' = sent + 1 /\ requests' = requests + 1
  /\ UNCHANGED <<setup, server, output, buffered, written, socket, received, replies>>

ClientReads ==
  /\ socket # <<>>
  /\ setup.client = "pipelines" => sent = MaxCommands \/ server = "closed"
  /\ \E n \in 1 .. Len(socket) :
       /\ received' = received \o SubSeq(socket, 1, n)
       /\ socket' = SubSeq(socket, n + 1, Len(socket))
  /\ UNCHANGED <<setup, server, output, buffered, written, requests, sent, replies>>

Next == Server \/ WriteTimeout \/ ClientSends \/ ClientReads

Spec == Init /\ [][Next]_vars

(* The connection's task is polled whenever its socket is ready and when   *)
(* its timer fires; clients other than those that stall go on.             *)
FairSpec ==
  /\ Spec
  /\ WF_vars(Server) /\ WF_vars(WriteTimeout)
  /\ WF_vars(ClientSends) /\ WF_vars(setup.client # "stalls" /\ ClientReads)

-----------------------------------------------------------------------------
(* However the stream cuts header and chunk, whatever is buffered, flushed *)
(* and passed on, what left the server is the frames of its replies, byte  *)
(* for byte and in order; and the server does not read a command while any *)
(* byte of an earlier reply is held back.                                  *)
SentInOrder ==
  LET out == received \o socket \o SubSeq(buffered, written + 1, Len(buffered))
  IN  /\ IsPrefix(out, Intended)
      /\ server = "reading" => buffered = <<>> /\ out = Intended

Answered(n) == Len(replies) >= n /\ IsPrefix(Intended, received)

(* A client that reads gets the whole reply to every command, unless the   *)
(* server gave up writing; with a write_timeout also one that pipelines,   *)
(* and a client that does not read cannot hold the server in the middle of *)
(* a reply: it is served to the end or disconnected.                       *)
RepliesArrive ==
  \A n \in 1 .. MaxCommands :
    sent >= n ~>
      \/ Answered(n) \/ server = "closed"
      \/ setup.client # "reads" /\ ~setup.write_timeout
      \/ setup.client = "stalls" /\ Len(replies) >= n /\ server = "reading"
=============================================================================
