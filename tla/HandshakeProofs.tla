--------------------------- MODULE HandshakeProofs ---------------------------
(***************************************************************************)
(* The connection phase keeps its promises for every capability mask, set  *)
(* of responses and number of frames: nothing before authenticate, one     *)
(* verdict, told to the client, and sequence ids an honest client follows. *)
(*                                                                         *)
(* Server and client are never far apart: what the server awaits           *)
(* (phase) bounds what the client can have sent and not been read (at most *)
(* two packets: an SSLRequest and the TLS hello behind it) and what it has *)
(* still to read (at most two packets: AUTH_MORE and the verdict).  The    *)
(* invariant lists those meetings, phase by phase.                         *)
(***************************************************************************)
EXTENDS Handshake, SequenceTheorems, TLAPS

-----------------------------------------------------------------------------
(* The invariant.                                                          *)

ClientPacket ==
  [kind : {"ssl_request", "hello", "response", "auth_data"}, first : Nat, last : Nat,
   wellformed : BOOLEAN, body : HandshakeResponse]

ServerPacket ==
  [kind : {"GREETING", "TLS", "AUTH_SWITCH", "AUTH_MORE", "OK", "ERR"}, seq : Nat]

TypeOK ==
  /\ tls_offered \in BOOLEAN /\ auth_timeout \in BOOLEAN
  /\ phase \in {"response", "hello", "tls_response", "auth_switch", "command", "failed"}
  /\ buffer \in Seq(ClientPacket) /\ socket \in Seq(ClientPacket)
  /\ seq \in Nat
  /\ handshake \in HandshakeResponse
  /\ authenticated \in BOOLEAN /\ init_called \in BOOLEAN
  /\ outbox \in Seq(ServerPacket)
  /\ client \in [state : {"waiting", "greeted", "requested_tls", "tls", "secured", "responded",
                          "switching", "switched", "confused", "connected", "refused"},
                 next : Nat, caps : SUBSET {"PLUGIN_AUTH", "SECURE_CONNECTION"}]
  /\ honest \in BOOLEAN

(* What the client has sent and the server has yet to take: the switch to  *)
(* TLS must not lose what was read ahead, so buffer and stream are one.    *)
Input == buffer \o socket

Sent(p, kind, first) ==
  /\ p.kind = kind /\ p.last = client.next - 1 /\ p.body.caps = client.caps
  /\ honest => p.wellformed /\ p.first = first

IsHello(h) == h.kind = "hello" /\ (honest => h.wellformed)

AwaitsResponse ==
  \/ /\ client.state = "waiting" /\ client.next = 0 /\ Len(Input) = 0
     /\ outbox = <<Packet("GREETING", 0)>>
  \/ /\ client.state = "greeted" /\ client.next = 1 /\ Len(Input) = 0 /\ outbox = <<>>
  \/ /\ client.state = "requested_tls" /\ Len(Input) = 1 /\ outbox = <<>>
     /\ Sent(Input[1], "ssl_request", 1) /\ (honest => tls_offered)
  \/ /\ client.state = "tls" /\ Len(Input) = 2 /\ outbox = <<>>
     /\ Sent(Input[1], "ssl_request", 1) /\ IsHello(Input[2]) /\ tls_offered
  \/ /\ client.state = "responded" /\ Len(Input) = 1 /\ outbox = <<>>
     /\ Sent(Input[1], "response", 1)
  \/ /\ client.state = "responded" /\ Len(Input) = 2 /\ outbox = <<>> /\ ~honest
     /\ Input[1].kind = "ssl_request" /\ Sent(Input[2], "response", 2) /\ ~tls_offered

AwaitsHello ==
  /\ tls_offered /\ outbox = <<>> /\ seq = client.next - 1
  /\ \/ client.state = "requested_tls" /\ Len(Input) = 0
     \/ client.state = "tls" /\ Len(Input) = 1 /\ IsHello(Input[1])

AwaitsTlsResponse ==
  \/ /\ client.state = "tls" /\ seq = client.next - 1 /\ Len(Input) = 0
     /\ outbox = <<Packet("TLS", 0)>>
  \/ /\ \/ client.state = "secured"
        \/ client.state = "requested_tls" /\ ~tls_offered /\ ~honest
     /\ seq = client.next - 1 /\ Len(Input) = 0 /\ outbox = <<>>
  \/ /\ client.state = "responded" /\ Len(Input) = 1 /\ outbox = <<>>
     /\ Sent(Input[1], "response", seq + 1)

AwaitsAuthData ==
  \/ /\ client.state = "responded" /\ "PLUGIN_AUTH" \in client.caps
     /\ seq = client.next - 1 /\ Len(Input) = 0
     /\ outbox = <<Packet("AUTH_SWITCH", client.next)>>
  \/ /\ client.state = "switching" /\ seq = client.next - 2 /\ Len(Input) = 0 /\ outbox = <<>>
  \/ /\ client.state = "switched" /\ Len(Input) = 1 /\ outbox = <<>>
     /\ Sent(Input[1], "auth_data", seq + 2)

(* The verdict, perhaps behind the answer to a fast authentication.        *)
Answered(verdict) ==
  /\ client.state \in {"responded", "switched"}
  /\ \/ outbox = <<Packet(verdict, client.next)>>
     \/ outbox = <<Packet("AUTH_MORE", client.next), Packet(verdict, client.next + 1)>>

Connected == (client.state = "connected" /\ outbox = <<>>) \/ Answered("OK")

Refused == (client.state = "refused" /\ outbox = <<>>) \/ Answered("ERR")

(* A client the server has given up without a word.                        *)
Abandoned ==
  \/ client.state = "waiting" /\ client.next = 0 /\ outbox = <<Packet("GREETING", 0)>>
  \/ /\ client.state \in {"greeted", "requested_tls", "tls", "secured", "switching", "responded",
                          "switched"}
     /\ outbox = <<>>
  \/ client.state = "tls" /\ outbox = <<Packet("TLS", 0)>>
  \/ /\ client.state = "responded" /\ "PLUGIN_AUTH" \in client.caps
     /\ outbox = <<Packet("AUTH_SWITCH", client.next)>>

(* ... and one whose on_init gave no answer, or one that was lost.         *)
Unanswered ==
  /\ client.state \in {"responded", "switched"}
  /\ outbox = <<>> \/ outbox = <<Packet("AUTH_MORE", client.next)>>

(* No OK, and not more than one ERR.                                       *)
NoOkTold ==
  /\ client.state # "connected" /\ \A i \in DOMAIN outbox : outbox[i].kind # "OK"
  /\ \A i, j \in DOMAIN outbox :
       outbox[i].kind = "ERR" /\ outbox[j].kind = "ERR" => i = j /\ client.state # "refused"

(* An on_init that fails may have answered anything before; nobody else    *)
(* who fails has told OK.                                                  *)
Failed ==
  IF cause = "backend" THEN Connected \/ Refused \/ Unanswered
  ELSE /\ NoOkTold
       /\ honest => IF cause = "refused" THEN Refused
                                         ELSE Abandoned /\ cause \notin {"sequence", "tls"}

Conversation ==
  /\ phase = "response" => AwaitsResponse
  /\ phase = "hello" => AwaitsHello
  /\ phase = "tls_response" => AwaitsTlsResponse
  /\ phase = "auth_switch" => AwaitsAuthData
  /\ phase = "command" => Connected
  /\ phase = "failed" => Failed

(* The callbacks the server has run, and what each cause is due to.        *)
Verdict ==
  /\ Waiting => ~authenticated /\ ~init_called
  /\ phase = "command" \/ init_called => authenticated
  /\ phase # "failed" => cause = ""
  /\ phase = "failed" => cause \in {"sequence", "tls", "closed", "timeout", "protocol", "backend",
                                   "refused"}
  /\ cause = "closed" => client_closed
  /\ cause = "timeout" => auth_timeout
  /\ cause = "protocol" => ~handshake.protocol41
  /\ cause = "backend" => init_called

Inv == TypeOK /\ Conversation /\ Verdict

-----------------------------------------------------------------------------
(* Sequences: the input and the few packets of an outbox.                  *)

(* A packet sent to the stream is the last of the input.                   *)
LEMMA InputSent ==
  ASSUME NEW S, NEW b \in Seq(S), NEW s \in Seq(S), NEW p \in S
  PROVE  /\ Append(s, p) \in Seq(S)
         /\ Len(b \o Append(s, p)) = Len(b \o s) + 1
         /\ (b \o Append(s, p))[Len(b \o s) + 1] = p
         /\ \A i \in 1 .. Len(b \o s) : (b \o Append(s, p))[i] = (b \o s)[i]
PROOF OBVIOUS

(* A packet read is the first of the input; the second one becomes first.  *)
LEMMA InputTaken ==
  ASSUME NEW S, NEW b \in Seq(S), NEW s \in Seq(S), b # <<>>
  PROVE  /\ Head(b) \in S /\ Tail(b) \in Seq(S)
         /\ Head(b) = (b \o s)[1]
         /\ Len(b \o s) > 0
         /\ Len(Tail(b) \o s) = Len(b \o s) - 1
         /\ Len(b \o s) = 2 => (Tail(b) \o s)[1] = (b \o s)[2]
PROOF OBVIOUS

(* Reading ahead leaves the input as it is.                                *)
LEMMA InputReadAhead ==
  ASSUME NEW S, NEW b \in Seq(S), NEW s \in Seq(S), s # <<>>
  PROVE  /\ Append(b, Head(s)) \in Seq(S) /\ Tail(s) \in Seq(S)
         /\ Append(b, Head(s)) \o Tail(s) = b \o s
<1>1. Append(b, Head(s)) \in Seq(S) /\ Tail(s) \in Seq(S)
  OBVIOUS
<1>2. Len(Append(b, Head(s)) \o Tail(s)) = Len(b \o s)
  OBVIOUS
<1>3. ASSUME NEW i \in 1 .. Len(b \o s)
      PROVE  (Append(b, Head(s)) \o Tail(s))[i] = (b \o s)[i]
  <2>1. CASE i <= Len(b)
    BY <2>1
  <2>2. CASE i = Len(b) + 1
    BY <2>2
  <2>3. CASE i > Len(b) + 1
    BY <2>3
  <2>4. QED  BY <2>1, <2>2, <2>3
<1>4. Append(b, Head(s)) \o Tail(s) \in Seq(S) /\ b \o s \in Seq(S)
  BY <1>1
<1>5. QED  BY <1>1, <1>2, <1>3, <1>4, SeqEqual

LEMMA FewPackets ==
  ASSUME NEW p \in ServerPacket, NEW q \in ServerPacket
  PROVE  /\ <<>> \in Seq(ServerPacket) /\ <<p>> \in Seq(ServerPacket)
         /\ <<p, q>> \in Seq(ServerPacket)
         /\ Append(<<>>, p) = <<p>>
         /\ <<p>> # <<>> /\ Head(<<p>>) = p /\ Tail(<<p>>) = <<>>
         /\ <<p, q>> # <<>> /\ Head(<<p, q>>) = p /\ Tail(<<p, q>>) = <<q>>
PROOF OBVIOUS

LEMMA NextId == \A s \in Nat : s + 1 \in Nat
PROOF OBVIOUS

LEMMA PacketType ==
  ASSUME NEW s \in Nat,
         NEW k \in {"GREETING", "TLS", "AUTH_SWITCH", "AUTH_MORE", "OK", "ERR"}
  PROVE  Packet(k, s) \in ServerPacket /\ Packet(k, s).kind = k /\ Packet(k, s).seq = s
BY DEF Packet, ServerPacket

LEMMA ShortConcat ==
  ASSUME NEW S, NEW p \in S, NEW q \in S
  PROVE  /\ <<>> \o <<>> = <<>> /\ <<>> \o <<p>> = <<p>> /\ <<p>> \o <<>> = <<p>>
         /\ <<p>> \o <<q>> = <<p, q>>
<1>1. <<>> \in Seq(S) /\ <<p>> \in Seq(S) /\ <<q>> \in Seq(S) /\ <<p, q>> \in Seq(S)
  OBVIOUS
<1>2. <<>> \o <<>> = <<>> /\ <<>> \o <<p>> = <<p>> /\ <<p>> \o <<>> = <<p>>
  BY <1>1, ConcatEmptySeq
<1>3. <<p>> \o <<q>> = <<p, q>>
  <2>1. <<p>> \o <<q>> \in Seq(S) /\ Len(<<p>> \o <<q>>) = Len(<<p, q>>)
    BY <1>1
  <2>2. \A i \in 1 .. Len(<<p>> \o <<q>>) : (<<p>> \o <<q>>)[i] = <<p, q>>[i]
    BY <1>1
  <2>3. QED  BY <1>1, <2>1, <2>2, SeqEqual
<1>4. QED  BY <1>2, <1>3

(* The packets made of a list of verdicts.                                 *)
LEMMA VerdictPackets ==
  ASSUME NEW n \in Nat, NEW v
  PROVE  /\ [i \in DOMAIN <<v>> |-> Packet(<<v>>[i], n + i - 1)] = <<Packet(v, n)>>
         /\ [i \in DOMAIN << >> |-> Packet(<<>>[i], n + i - 1)] = <<>>
<1>1. DOMAIN <<v>> = 1 .. 1 /\ DOMAIN << >> = 1 .. 0 /\ n + 1 - 1 = n
  OBVIOUS
<1>2. [i \in 1 .. 1 |-> Packet(<<v>>[i], n + i - 1)] = <<Packet(v, n)>>
  <2> DEFINE f == [i \in 1 .. 1 |-> Packet(<<v>>[i], n + i - 1)]
  <2>1. f[1] = Packet(v, n)
    BY <1>1
  <2>2. f \in Seq({f[1]}) /\ Len(f) = 1
    OBVIOUS
  <2>3. f[1] = <<f[1]>>[1] /\ <<f[1]>> \in Seq({f[1]}) /\ Len(<<f[1]>>) = 1
    OBVIOUS
  <2> HIDE DEF f
  <2>4. f = <<f[1]>>
    BY <2>2, <2>3, SeqEqual
  <2>5. QED  BY <2>1, <2>4 DEF f
<1>3. QED  BY <1>1, <1>2

LEMMA NoHandshakeType == NoHandshake \in HandshakeResponse
BY DEF NoHandshake, HandshakeResponse, Plugin, AuthData

(* No OK in an outbox without a packet or with one that is another.        *)
LEMMA NoOkAmong ==
  ASSUME NEW k \in {"GREETING", "TLS", "AUTH_SWITCH", "AUTH_MORE", "ERR"}, NEW s \in Nat,
         client.state \notin {"connected", "refused"},
         outbox = <<>> \/ outbox = <<Packet(k, s)>>
  PROVE  NoOkTold
BY DEF Packet, NoOkTold

(* The first packets of at most two.                                       *)
LEMMA FirstPackets ==
  ASSUME NEW p \in ServerPacket, NEW q \in ServerPacket
  PROVE  /\ \A t \in Prefixes(<<>>) : t = <<>>
         /\ \A t \in Prefixes(<<p>>) : t \in {<<>>, <<p>>}
         /\ \A t \in Prefixes(<<p, q>>) : t \in {<<>>, <<p>>, <<p, q>>}
<1>1. \A t \in Seq(ServerPacket) : SubSeq(t, 1, 0) = <<>>
  BY SubSeqEmpty
<1>2. /\ <<>> \in Seq(ServerPacket) /\ Len(<<>>) = 0
      /\ <<p>> \in Seq(ServerPacket) /\ Len(<<p>>) = 1 /\ <<p>>[1] = p
      /\ <<p, q>> \in Seq(ServerPacket) /\ Len(<<p, q>>) = 2
      /\ <<p, q>>[1] = p /\ <<p, q>>[2] = q
  OBVIOUS
<1>3. /\ SubSeq(<<>>, 1, 0) = <<>> /\ SubSeq(<<p>>, 1, 0) = <<>>
      /\ SubSeq(<<p, q>>, 1, 0) = <<>>
  BY <1>1, <1>2
<1>4. SubSeq(<<p>>, 1, 1) = <<p>> /\ SubSeq(<<p, q>>, 1, 1) = <<p>>
  <2>1. SubSeq(<<p>>, 1, 1) = <<p>>
    BY <1>2, SubSeqFull
  <2>2. SubSeq(<<p, q>>, 1, 1) = SubSeq(<<p, q>>, 1, 0) \o << <<p, q>>[1] >>
    <3>1. 1 \in 1 .. Len(<<p, q>>) /\ 1 - 1 = 0
      BY <1>2
    <3>2. QED  BY <1>2, <3>1, SubSeqRecursiveSecond
  <2>3. QED  BY <1>2, <1>3, <2>1, <2>2, ShortConcat
<1>5. SubSeq(<<p, q>>, 1, 2) = <<p, q>>
  BY <1>2, SubSeqFull
<1>6. \A t \in Prefixes(<<>>) : t = <<>>
  BY <1>2, <1>3 DEF Prefixes
<1>7. \A t \in Prefixes(<<p>>) : t \in {<<>>, <<p>>}
  <2>1. ASSUME NEW n \in 0 .. 1 PROVE SubSeq(<<p>>, 1, n) \in {<<>>, <<p>>}
    BY <1>3, <1>4
  <2>2. QED  BY <1>2, <2>1 DEF Prefixes
<1>8. \A t \in Prefixes(<<p, q>>) : t \in {<<>>, <<p>>, <<p, q>>}
  <2>1. ASSUME NEW n \in 0 .. 2 PROVE SubSeq(<<p, q>>, 1, n) \in {<<>>, <<p>>, <<p, q>>}
    BY <1>3, <1>4, <1>5
  <2>2. QED  BY <1>2, <2>1 DEF Prefixes
<1>9. QED  BY <1>6, <1>7, <1>8

-----------------------------------------------------------------------------
(* The server's moves without the state around them.                       *)

(* What is left of a verdict once the plugin and the backend have spoken.  *)
Spoken(out, s, verdict) ==
  out = <<Packet(verdict, s)>> \/ out = <<Packet("AUTH_MORE", s), Packet(verdict, s + 1)>>

(* What of it may leave unflushed.                                         *)
Cut(out, s) ==
  out = <<>> \/ out = <<Packet("AUTH_MORE", s)>> \/ Spoken(out, s, "OK") \/ Spoken(out, s, "ERR")

(* The end of the connection phase, the next packet's id being s.          *)
Decides(s) ==
  /\ authenticated' \in BOOLEAN /\ init_called' \in BOOLEAN
  /\ phase' = "command" \/ init_called' => authenticated'
  /\ \/ phase' = "command" /\ cause' = "" /\ Spoken(outbox', s, "OK")
     \/ phase' = "failed" /\ cause' = "refused" /\ Spoken(outbox', s, "ERR")
     \/ phase' = "failed" /\ cause' = "backend" /\ init_called' /\ Cut(outbox', s)
     \/ phase' = "failed" /\ cause' = "protocol" /\ ~handshake'.protocol41 /\ outbox' = <<>>

LEMMA RefusesWithERR ==
  ASSUME NEW s \in Nat, outbox = <<>>, FailsWithERR(s)
  PROVE  phase' = "failed" /\ cause' = "refused" /\ outbox' = <<Packet("ERR", s)>>
<1>1. Packet("ERR", s) \in ServerPacket
  BY PacketType
<1>2. Append(<<>>, Packet("ERR", s)) = <<Packet("ERR", s)>>
  BY <1>1, FewPackets
<1>3. QED  BY <1>2 DEF FailsWithERR, Fails

LEMMA SpokenType ==
  ASSUME NEW s \in Nat, NEW v \in {"OK", "ERR"}
  PROVE  \A out : Spoken(out, s, v) => out \in Seq(ServerPacket)
<1>1. /\ Packet(v, s) \in ServerPacket /\ Packet("AUTH_MORE", s) \in ServerPacket
      /\ Packet(v, s + 1) \in ServerPacket
  BY PacketType
<1>2. <<Packet(v, s)>> \in Seq(ServerPacket)
  BY <1>1, FewPackets
<1>3. <<Packet("AUTH_MORE", s), Packet(v, s + 1)>> \in Seq(ServerPacket)
  BY <1>1, FewPackets
<1>4. QED  BY <1>2, <1>3 DEF Spoken

LEMMA MoreDataId ==
  ASSUME NEW s \in Nat, NEW more \in BOOLEAN
  PROVE  /\ AfterMoreData(s, more) \in Nat
         /\ more => AfterMoreData(s, more) = s + 1
         /\ ~more => AfterMoreData(s, more) = s
BY DEF AfterMoreData

LEMMA AuthenticatesOutcome ==
  ASSUME NEW r \in HandshakeResponse, NEW plugin, NEW auth, NEW s \in Nat,
         outbox = <<>>, authenticated = FALSE, init_called = FALSE, cause = "",
         RejectsWithoutDb \subseteq BOOLEAN,
         Authenticates(r, plugin, auth, s)
  PROVE  Decides(s)
<1> DEFINE sha2 == plugin = "caching_sha2_password"
           data == IF sha2 /\ auth = "zero" THEN "empty" ELSE auth
           more == sha2 /\ data = "digest"
           n == AfterMoreData(s, more)
           first == IF more THEN <<Packet("AUTH_MORE", s)>> ELSE <<>>
<1>0. FailsWithERR(s) => /\ phase' = "failed" /\ cause' = "refused"
                         /\ Spoken(outbox', s, "ERR")
  BY RefusesWithERR DEF Spoken
<1>1. CASE sha2 /\ data \in {"zero", "other"}
  <2>1. FailsWithERR(s) /\ UNCHANGED callbacks
    BY <1>1 DEF Authenticates
  <2>2. QED  BY <2>1, <1>0 DEF callbacks, Decides
<1>2. CASE ~(sha2 /\ data \in {"zero", "other"})
  <2>1. PICK accepted \in BOOLEAN :
          /\ authenticated' = accepted
          /\ IF ~Admitted(plugin, accepted) THEN FailsWithERR(s) /\ UNCHANGED init_called
             ELSE \E answer \in InitAnswers(r.db) : \E fails \in InitFails(r.db, answer) :
               LET told == IF answer \in {"OK", "ERR"} THEN <<answer>> ELSE <<>>
                   verdicts == told \o (IF NeedsDefaultOk(answer) THEN <<"OK">> ELSE <<>>)
                   packets == first \o [i \in DOMAIN verdicts |-> Packet(verdicts[i], n + i - 1)]
               IN  /\ init_called' = (r.db = "named")
                   /\ IF fails
                        THEN Fails("backend") /\ outbox' \in {outbox \o sent : sent \in Prefixes(packets)}
                      ELSE /\ outbox' = outbox \o packets
                           /\ IF answer = "ERR" THEN Fails("refused")
                                                ELSE phase' = "command" /\ UNCHANGED cause
    BY <1>2 DEF Authenticates
  <2>2. CASE ~accepted
    BY <2>1, <2>2, <1>0 DEF Admitted, Decides
  <2>3. CASE accepted = TRUE
    <3>0. PICK answer \in InitAnswers(r.db) : \E fails \in InitFails(r.db, answer) :
            LET told == IF answer \in {"OK", "ERR"} THEN <<answer>> ELSE <<>>
                verdicts == told \o (IF NeedsDefaultOk(answer) THEN <<"OK">> ELSE <<>>)
                packets == first \o [i \in DOMAIN verdicts |-> Packet(verdicts[i], n + i - 1)]
            IN  /\ init_called' = (r.db = "named")
                /\ IF fails
                     THEN Fails("backend") /\ outbox' \in {outbox \o sent : sent \in Prefixes(packets)}
                   ELSE /\ outbox' = outbox \o packets
                        /\ IF answer = "ERR" THEN Fails("refused")
                                             ELSE phase' = "command" /\ UNCHANGED cause
      BY <2>1, <2>3 DEF Admitted
    <3> DEFINE told == IF answer \in {"OK", "ERR"} THEN <<answer>> ELSE <<>>
               verdicts == told \o (IF NeedsDefaultOk(answer) THEN <<"OK">> ELSE <<>>)
               last == [i \in DOMAIN verdicts |-> Packet(verdicts[i], n + i - 1)]
               packets == first \o last
    <3>1. PICK fails \in InitFails(r.db, answer) :
            /\ init_called' = (r.db = "named")
            /\ IF fails
                 THEN Fails("backend") /\ outbox' \in {outbox \o sent : sent \in Prefixes(packets)}
               ELSE /\ outbox' = outbox \o packets
                    /\ IF answer = "ERR" THEN Fails("refused")
                                         ELSE phase' = "command" /\ UNCHANGED cause
      BY <3>0
    <3>2. /\ answer \in {"OK", "ERR", "none", "pending"}
          /\ fails \in BOOLEAN
          /\ fails => r.db = "named"
          /\ answer = "pending" => fails
      BY DEF InitAnswers, InitFails, HandshakeResponse
    <3>3. n \in Nat /\ (more => n = s + 1) /\ (~more => n = s)
      <4>1. more \in BOOLEAN
        OBVIOUS
      <4> HIDE DEF more
      <4>2. QED  BY <4>1, MoreDataId
    <3>4. /\ answer \in {"OK", "none"} => verdicts = <<"OK">>
          /\ answer = "ERR" => verdicts = <<"ERR">>
          /\ answer = "pending" => verdicts = <<>>
      BY ShortConcat DEF NeedsDefaultOk
    <3> HIDE DEF verdicts
    <3>5. ASSUME NEW v \in {"OK", "ERR"}, verdicts = <<v>>
          PROVE  /\ packets \in Seq(ServerPacket) /\ Spoken(packets, s, v)
                 /\ \A sent \in Prefixes(packets) : sent \in Seq(ServerPacket) /\ Cut(sent, s)
      <4>0. n \in Nat /\ Packet(v, n) \in ServerPacket /\ Packet("AUTH_MORE", s) \in ServerPacket
        <5> HIDE DEF n
        <5>1. QED  BY <3>3, PacketType
      <4>1. last = <<Packet(v, n)>>
        <5>1. last = [i \in DOMAIN <<v>> |-> Packet(<<v>>[i], n + i - 1)]
          BY <3>5
        <5> HIDE DEF last, n, verdicts
        <5>2. QED  BY <4>0, <5>1, VerdictPackets
      <4> HIDE DEF last, n, more
      <4>2. packets = first \o <<Packet(v, n)>>
        BY <4>1
      <4>3. CASE more
        <5>1. packets = <<Packet("AUTH_MORE", s), Packet(v, n)>>
          BY <4>0, <4>2, <4>3, ShortConcat
        <5> HIDE DEF packets
        <5>2. \A sent \in Prefixes(packets) :
                sent \in {<<>>, <<Packet("AUTH_MORE", s)>>, packets}
          BY <4>0, <5>1, FirstPackets
        <5>3. QED  BY <3>3, <4>0, <4>3, <5>1, <5>2, FewPackets DEF Spoken, Cut
      <4>4. CASE ~more
        <5>1. packets = <<Packet(v, n)>>
          BY <4>0, <4>2, <4>4, ShortConcat
        <5> HIDE DEF packets
        <5>2. \A sent \in Prefixes(packets) : sent \in {<<>>, packets}
          BY <4>0, <5>1, FirstPackets
        <5>3. QED  BY <3>3, <4>0, <4>4, <5>1, <5>2, FewPackets DEF Spoken, Cut
      <4>5. QED  BY <4>3, <4>4
    <3>6. ASSUME verdicts = <<>>
          PROVE  \A sent \in Prefixes(packets) : sent \in Seq(ServerPacket) /\ Cut(sent, s)
      <4>0. n \in Nat /\ Packet("AUTH_MORE", s) \in ServerPacket
        <5> HIDE DEF n
        <5>1. QED  BY PacketType, <3>3
      <4>1. first \in Seq(ServerPacket)
        BY <4>0, FewPackets
      <4>2. last = <<>>
        <5>1. last = [i \in DOMAIN << >> |-> Packet(<<>>[i], n + i - 1)]
          BY <3>6
        <5> HIDE DEF last, n
        <5>2. QED  BY <4>0, <5>1, VerdictPackets
      <4> HIDE DEF last
      <4>3. packets = <<>> \/ packets = <<Packet("AUTH_MORE", s)>>
        <5>1. first \o <<>> = first
          <6> HIDE DEF first
          <6>1. QED  BY <4>1, ConcatEmptySeq
        <5>2. QED  BY <4>2, <5>1
      <4> HIDE DEF packets
      <4>4. \A sent \in Prefixes(packets) : sent \in {<<>>, <<Packet("AUTH_MORE", s)>>}
        BY <4>0, <4>3, FirstPackets
      <4>5. QED  BY <4>0, <4>4, FewPackets DEF Cut
    <3> HIDE DEF packets, first, last, n, more
    <3>7. \A sent \in Seq(ServerPacket) : outbox \o sent = sent
      BY ConcatEmptySeq
    <3>8. authenticated' = TRUE /\ init_called' = (r.db = "named")
      BY <2>1, <2>3, <3>1
    <3>9. CASE fails
      <4>1. phase' = "failed" /\ cause' = "backend" /\ init_called' = TRUE
        BY <3>1, <3>2, <3>8, <3>9 DEF Fails
      <4>2. PICK sent \in Prefixes(packets) : outbox' = outbox \o sent
        BY <3>1, <3>9
      <4>3. sent \in Seq(ServerPacket) /\ Cut(sent, s)
        BY <3>2, <3>4, <3>5, <3>6
      <4>4. QED  BY <3>7, <3>8, <4>1, <4>2, <4>3 DEF Decides
    <3>10. CASE ~fails
      <4>1. /\ outbox' = outbox \o packets
            /\ IF answer = "ERR" THEN Fails("refused") ELSE phase' = "command" /\ UNCHANGED cause
        BY <3>1, <3>10
      <4>2. CASE answer = "ERR"
        BY <3>4, <3>5, <3>7, <3>8, <4>1, <4>2 DEF Decides, Fails
      <4>3. CASE answer \in {"OK", "none"}
        BY <3>4, <3>5, <3>7, <3>8, <4>1, <4>3 DEF Decides
      <4>4. QED  BY <3>2, <3>10, <4>2, <4>3
    <3>11. QED  BY <3>2, <3>9, <3>10
  <2>4. QED  BY <2>2, <2>3
<1>3. QED  BY <1>1, <1>2

LEMMA AdmitsOutcome ==
  ASSUME NEW r \in HandshakeResponse, NEW s \in Nat,
         outbox = <<>>, authenticated = FALSE, init_called = FALSE, cause = "",
         RejectsWithoutDb \subseteq BOOLEAN,
         Admits(r, s)
  PROVE  /\ seq' = s /\ handshake' = r
         /\ \/ Decides(s + 1)
            \/ /\ phase' = "auth_switch" /\ cause' = ""
               /\ authenticated' = FALSE /\ init_called' = FALSE
               /\ "PLUGIN_AUTH" \in r.caps
               /\ outbox' = <<Packet("AUTH_SWITCH", s + 1)>>
<1> DEFINE caps == ServerCapabilities \cap r.caps
<1>0. seq' = s /\ handshake' = r /\ s + 1 \in Nat
  <2>1. seq' = s /\ handshake' = r
    BY Zenon DEF Admits
  <2>2. QED  BY <2>1, NextId, Zenon
<1>1. CASE ~r.protocol41
  <2>1. Fails("protocol") /\ UNCHANGED <<outbox, expected, callbacks>>
    BY <1>1 DEF Admits
  <2>2. QED  BY <1>0, <1>1, <2>1 DEF Fails, callbacks, Decides
<1>2. CASE r.protocol41 /\ ~r.utf8
  <2>1. FailsWithERR(s + 1) /\ UNCHANGED callbacks
    BY <1>2 DEF Admits
  <2>2. phase' = "failed" /\ cause' = "refused" /\ outbox' = <<Packet("ERR", s + 1)>>
    BY <1>0, <2>1, RefusesWithERR
  <2>3. QED  BY <1>0, <2>1, <2>2 DEF callbacks, Decides, Spoken
<1>3. CASE r.protocol41 /\ r.utf8
  <2>1. PICK plugin \in ExpectedPlugin :
          IF CannotAuthenticate(caps, plugin)
            THEN FailsWithERR(s + 1) /\ UNCHANGED callbacks
          ELSE IF SwitchNeeded("PLUGIN_AUTH" \in caps, plugin, r)
            THEN /\ phase' = "auth_switch"
                 /\ outbox' = Append(outbox, Packet("AUTH_SWITCH", s + 1))
                 /\ UNCHANGED <<cause, callbacks>>
          ELSE Authenticates(r, plugin, r.auth, s + 1)
    BY <1>3 DEF Admits
  <2>2. CASE CannotAuthenticate(caps, plugin)
    <3>1. FailsWithERR(s + 1) /\ UNCHANGED callbacks
      BY <2>1, <2>2
    <3>2. phase' = "failed" /\ cause' = "refused" /\ outbox' = <<Packet("ERR", s + 1)>>
      BY <1>0, <3>1, RefusesWithERR
    <3>3. QED  BY <1>0, <3>1, <3>2 DEF callbacks, Decides, Spoken
  <2>3. CASE /\ ~CannotAuthenticate(caps, plugin)
             /\ SwitchNeeded("PLUGIN_AUTH" \in caps, plugin, r)
    <3>1. /\ phase' = "auth_switch"
          /\ outbox' = Append(outbox, Packet("AUTH_SWITCH", s + 1))
          /\ UNCHANGED <<cause, callbacks>>
      BY <2>1, <2>3
    <3>2. Packet("AUTH_SWITCH", s + 1) \in ServerPacket
      BY <1>0, PacketType
    <3>3. outbox' = <<Packet("AUTH_SWITCH", s + 1)>>
      BY <3>1, <3>2, FewPackets
    <3>4. "PLUGIN_AUTH" \in r.caps
      BY <2>3 DEF SwitchNeeded
    <3>5. QED  BY <1>0, <3>1, <3>3, <3>4 DEF callbacks
  <2>4. CASE /\ ~CannotAuthenticate(caps, plugin)
             /\ ~SwitchNeeded("PLUGIN_AUTH" \in caps, plugin, r)
    <3>1. Authenticates(r, plugin, r.auth, s + 1)
      BY <2>1, <2>4
    <3>2. QED  BY <1>0, <3>1, AuthenticatesOutcome
  <2>5. QED  BY <2>2, <2>3, <2>4
<1>4. QED  BY <1>1, <1>2, <1>3

(* The verdict finds the client where it is waiting for it.                *)
LEMMA DecisionReached ==
  ASSUME TypeOK, client.state \in {"responded", "switched"},
         client' = client, honest' = honest, Decides(client.next)
  PROVE  Conversation' /\ Verdict' /\ outbox' \in Seq(ServerPacket)
<1>0. client.next \in Nat /\ client.next + 1 \in Nat
  BY DEF TypeOK
<1> DEFINE n == client.next
<1>1. CASE phase' = "command" /\ cause' = "" /\ Spoken(outbox', n, "OK")
  <2>1. Connected'
    BY <1>1 DEF Connected, Answered, Spoken
  <2>2. outbox' \in Seq(ServerPacket)
    BY <1>0, <1>1, SpokenType
  <2>3. Verdict'
    BY <1>1 DEF Decides, Verdict, Waiting
  <2>4. QED  BY <1>1, <2>1, <2>2, <2>3 DEF Conversation
<1>2. CASE phase' = "failed" /\ cause' = "refused" /\ Spoken(outbox', n, "ERR")
  <2>1. Refused'
    BY <1>2 DEF Refused, Answered, Spoken
  <2>2. outbox' \in Seq(ServerPacket)
    BY <1>0, <1>2, SpokenType
  <2>3. NoOkTold'
    <3>1. CASE outbox' = <<Packet("ERR", n)>>
      BY <3>1 DEF NoOkTold, Packet
    <3>2. CASE outbox' = <<Packet("AUTH_MORE", n), Packet("ERR", n + 1)>>
      <4>1. /\ DOMAIN outbox' = 1 .. 2
            /\ outbox'[1].kind = "AUTH_MORE" /\ outbox'[2].kind = "ERR"
        BY <3>2 DEF Packet
      <4>2. QED  BY <4>1 DEF NoOkTold
    <3>3. QED  BY <1>2, <3>1, <3>2 DEF Spoken
  <2>4. Verdict'
    BY <1>2 DEF Decides, Verdict, Waiting
  <2>5. QED  BY <1>2, <2>1, <2>2, <2>3, <2>4 DEF Conversation, Failed
<1>3. CASE phase' = "failed" /\ cause' = "backend" /\ init_called' /\ Cut(outbox', n)
  <2>1. (Connected \/ Refused \/ Unanswered)'
    BY <1>3 DEF Connected, Refused, Unanswered, Answered, Cut, Spoken
  <2>2. outbox' \in Seq(ServerPacket)
    <3>1. Packet("AUTH_MORE", n) \in ServerPacket
      BY <1>0, PacketType
    <3>2. <<>> \in Seq(ServerPacket) /\ <<Packet("AUTH_MORE", n)>> \in Seq(ServerPacket)
      BY <3>1, FewPackets
    <3>3. QED  BY <1>0, <1>3, <3>2, SpokenType DEF Cut
  <2>3. Verdict'
    BY <1>3 DEF Decides, Verdict, Waiting
  <2>4. QED  BY <1>3, <2>1, <2>2, <2>3 DEF Conversation, Failed
<1>4. CASE phase' = "failed" /\ cause' = "protocol" /\ ~handshake'.protocol41 /\ outbox' = <<>>
  <2>1. Abandoned' /\ NoOkTold'
    BY <1>4 DEF Abandoned, NoOkTold
  <2>2. outbox' \in Seq(ServerPacket)
    BY <1>4
  <2>3. Verdict'
    BY <1>4 DEF Decides, Verdict, Waiting
  <2>4. QED  BY <1>4, <2>1, <2>2, <2>3 DEF Conversation, Failed
<1>5. QED  BY <1>1, <1>2, <1>3, <1>4 DEF Decides

-----------------------------------------------------------------------------
(* The server's steps.                                                     *)

(* Whatever the server awaits, the client is somewhere it may be left.     *)
LEMMA WaitingClient ==
  ASSUME TypeOK, Conversation, Waiting
  PROVE  /\ Abandoned /\ NoOkTold /\ Len(Input) \in Nat
         /\ client.state \notin {"connected", "refused"}
<1>0. client.next \in Nat /\ Len(Input) \in Nat
  BY DEF TypeOK, Input
<1>1. Abandoned /\ client.state \notin {"connected", "refused"}
  BY DEF Waiting, Conversation, AwaitsResponse, AwaitsHello, AwaitsTlsResponse, AwaitsAuthData,
         Abandoned
<1>2. \/ outbox = <<>> \/ outbox = <<Packet("GREETING", 0)>> \/ outbox = <<Packet("TLS", 0)>>
      \/ outbox = <<Packet("AUTH_SWITCH", client.next)>>
  BY DEF Waiting, Conversation, AwaitsResponse, AwaitsHello, AwaitsTlsResponse, AwaitsAuthData
<1>3. NoOkTold
  BY <1>0, <1>1, <1>2, NoOkAmong
<1>4. QED  BY <1>0, <1>1, <1>3

(* Giving up without a word is never for a fault of an honest client.      *)
LEMMA GivesUp ==
  ASSUME TypeOK, Conversation, Verdict, Waiting,
         NEW why \in {"sequence", "tls", "closed", "timeout"}, Fails(why),
         honest => why \notin {"sequence", "tls"},
         why = "closed" => client_closed', why = "timeout" => auth_timeout',
         client' = client, outbox' = outbox, honest' = honest, UNCHANGED callbacks
  PROVE  Conversation' /\ Verdict'
<1>1. Abandoned /\ NoOkTold
  BY WaitingClient
<1>2. Abandoned' /\ NoOkTold'
  BY <1>1 DEF Abandoned, NoOkTold
<1>3. Failed'
  BY <1>2 DEF Failed, Fails
<1>4. Verdict'
  BY DEF Verdict, Fails, callbacks, Waiting
<1>5. QED  BY <1>3, <1>4 DEF Fails, Conversation

(* A client that broke the rules may be refused at any time.               *)
LEMMA RefusesRuleBreaker ==
  ASSUME TypeOK, Conversation, Verdict, Waiting, outbox = <<>>, ~honest,
         NEW s \in Nat, FailsWithERR(s),
         client' = client, honest' = honest, UNCHANGED callbacks
  PROVE  Conversation' /\ Verdict' /\ outbox' \in Seq(ServerPacket)
<1>1. client.state \notin {"connected", "refused"}
  BY WaitingClient
<1>2. phase' = "failed" /\ cause' = "refused" /\ outbox' = <<Packet("ERR", s)>>
  BY RefusesWithERR
<1>3. NoOkTold' /\ outbox' \in Seq(ServerPacket)
  <2>1. NoOkTold'
    BY <1>1, <1>2 DEF NoOkTold, Packet
  <2>2. Packet("ERR", s) \in ServerPacket
    BY PacketType
  <2>3. QED  BY <1>2, <2>1, <2>2, FewPackets
<1>4. Failed'
  BY <1>2, <1>3 DEF Failed
<1>5. Verdict'
  BY <1>2 DEF Verdict, callbacks, Waiting
<1>6. QED  BY <1>2, <1>3, <1>4, <1>5 DEF Conversation

(* A response that finds its client waiting for the answer.                *)
LEMMA AdmitsStep ==
  ASSUME TypeOK, Verdict, Waiting, outbox = <<>>, client.state = "responded",
         NEW p \in ClientPacket, p.last = client.next - 1, p.body.caps = client.caps,
         Len(Input') = 0, Admits(p.body, p.last), client' = client, honest' = honest
  PROVE  /\ Conversation' /\ Verdict' /\ outbox' \in Seq(ServerPacket)
         /\ phase' \in {"auth_switch", "command", "failed"}
         /\ seq' \in Nat /\ handshake' \in HandshakeResponse
         /\ authenticated' \in BOOLEAN /\ init_called' \in BOOLEAN
<1> DEFINE r == p.body
           s == p.last
<1>1. r \in HandshakeResponse /\ s \in Nat /\ client.next \in Nat /\ s + 1 = client.next
  BY DEF ClientPacket, TypeOK
<1>2. authenticated = FALSE /\ init_called = FALSE /\ cause = ""
  BY DEF TypeOK, Verdict, Waiting
<1>3. Admits(r, s)
  OBVIOUS
<1> HIDE DEF r, s
<1>4. /\ seq' = s /\ handshake' = r
      /\ \/ Decides(s + 1)
         \/ /\ phase' = "auth_switch" /\ cause' = ""
            /\ authenticated' = FALSE /\ init_called' = FALSE
            /\ "PLUGIN_AUTH" \in r.caps
            /\ outbox' = <<Packet("AUTH_SWITCH", s + 1)>>
  BY <1>1, <1>2, <1>3, AdmitsOutcome, HandshakeAssumption
<1>5. CASE Decides(s + 1)
  <2>1. Decides(client.next)
    BY <1>1, <1>5
  <2>2. Conversation' /\ Verdict' /\ outbox' \in Seq(ServerPacket)
    BY <2>1, DecisionReached
  <2>3. phase' \in {"command", "failed"} /\ authenticated' \in BOOLEAN /\ init_called' \in BOOLEAN
    BY <2>1 DEF Decides
  <2>4. QED  BY <1>1, <1>4, <2>2, <2>3
<1>6. CASE /\ phase' = "auth_switch" /\ cause' = ""
           /\ authenticated' = FALSE /\ init_called' = FALSE
           /\ "PLUGIN_AUTH" \in r.caps
           /\ outbox' = <<Packet("AUTH_SWITCH", s + 1)>>
  <2>1. "PLUGIN_AUTH" \in client.caps
    BY <1>6 DEF r
  <2>2. AwaitsAuthData'
    <3>1. outbox' = <<Packet("AUTH_SWITCH", client.next)>>
      BY <1>1, <1>6
    <3>2. seq' = client.next - 1
      <4>1. s = client.next - 1
        BY <1>1
      <4>2. QED  BY <1>4, <4>1, Zenon
    <3>3. QED  BY <2>1, <3>1, <3>2 DEF AwaitsAuthData
  <2>3. Verdict'
    BY <1>6 DEF Verdict, Waiting
  <2>4. Packet("AUTH_SWITCH", s + 1) \in ServerPacket
    BY <1>1, PacketType
  <2>5. outbox' \in Seq(ServerPacket)
    BY <1>6, <2>4, FewPackets
  <2>6. QED  BY <1>1, <1>4, <1>6, <2>2, <2>3, <2>5 DEF Conversation
<1>7. QED  BY <1>4, <1>5, <1>6

(* What a step that reads takes from the input.                            *)
LEMMA ReadsInput ==
  ASSUME TypeOK, buffer # <<>>, buffer' = Tail(buffer), socket' = socket
  PROVE  /\ Head(buffer) \in ClientPacket /\ Head(buffer) = Input[1]
         /\ buffer' \in Seq(ClientPacket) /\ socket' \in Seq(ClientPacket)
         /\ Len(Input) \in Nat /\ Len(Input) > 0 /\ Len(Input') = Len(Input) - 1
         /\ Len(Input) = 2 => Input'[1] = Input[2]
<1>1. buffer \in Seq(ClientPacket) /\ socket \in Seq(ClientPacket)
  BY DEF TypeOK
<1>2. Input = buffer \o socket /\ Input' = Tail(buffer) \o socket
  BY DEF Input
<1>3. Len(buffer \o socket) \in Nat
  BY <1>1
<1>4. QED  BY <1>1, <1>2, <1>3, InputTaken

LEMMA ReadAheadStep ==
  ASSUME Inv, ReadAhead
  PROVE  Inv'
<1>1. buffer \in Seq(ClientPacket) /\ socket \in Seq(ClientPacket)
  BY DEF Inv, TypeOK
<1>2. /\ buffer' \in Seq(ClientPacket) /\ socket' \in Seq(ClientPacket)
      /\ Input' = Input
  BY <1>1, InputReadAhead DEF ReadAhead, Input
<1>3. TypeOK'
  BY <1>2 DEF Inv, TypeOK, ReadAhead, options, session, callbacks
<1>4. Conversation'
  <2>1. UNCHANGED <<options, phase, cause, seq, outbox, client, honest>>
    BY DEF ReadAhead, session
  <2>2. QED
    BY <1>2, <2>1 DEF Inv, Conversation, AwaitsResponse, AwaitsHello, AwaitsTlsResponse,
       AwaitsAuthData, Connected, Failed, Refused, Abandoned, Unanswered, Answered, NoOkTold, Sent, IsHello,
       options
<1>5. Verdict'
  BY DEF Inv, Verdict, Waiting, ReadAhead, options, session, callbacks
<1>6. QED  BY <1>3, <1>4, <1>5 DEF Inv

LEMMA ReadResponseStep ==
  ASSUME Inv, ReadResponse
  PROVE  Inv'
<1> DEFINE p == Head(buffer)
<1>0. /\ TypeOK /\ Conversation /\ Verdict /\ AwaitsResponse /\ Waiting
      /\ phase = "response" /\ buffer # <<>>
      /\ UNCHANGED <<options, socket, client_closed, client, honest>>
  BY DEF Inv, ReadResponse, Reads, Conversation, Waiting
<1>1. buffer' = Tail(buffer)
  BY DEF ReadResponse, Handover
<1>2. /\ p \in ClientPacket /\ p = Input[1]
      /\ buffer' \in Seq(ClientPacket) /\ socket' \in Seq(ClientPacket)
      /\ Len(Input) \in Nat /\ Len(Input) > 0 /\ Len(Input') = Len(Input) - 1
      /\ Len(Input) = 2 => Input'[1] = Input[2]
  BY <1>0, <1>1, ReadsInput
<1>3. outbox = <<>>
  BY <1>0, <1>2 DEF AwaitsResponse
<1>4. honest => p.first = 1 /\ p.wellformed
  BY <1>0, <1>2 DEF AwaitsResponse, Sent
<1>5. client' = client /\ honest' = honest /\ tls_offered' = tls_offered
  BY <1>0 DEF options
<1>6. CASE p.first # 1
  <2>1. Fails("sequence") /\ UNCHANGED <<session, outbox>>
    BY <1>6 DEF ReadResponse
  <2>2. Conversation' /\ Verdict'
    BY <1>0, <1>4, <1>5, <1>6, <2>1, GivesUp DEF session
  <2>3. TypeOK'
    BY <1>0, <1>2, <2>1 DEF TypeOK, Fails, options, session, callbacks
  <2>4. QED  BY <2>2, <2>3 DEF Inv
<1>7. CASE p.first = 1 /\ ~p.wellformed
  <2>1. FailsWithERR(p.last + 1) /\ UNCHANGED session
    BY <1>7 DEF ReadResponse
  <2>2. p.last + 1 \in Nat
    BY <1>2 DEF ClientPacket
  <2>3. Conversation' /\ Verdict' /\ outbox' \in Seq(ServerPacket)
    BY <1>0, <1>3, <1>4, <1>5, <1>7, <2>1, <2>2, RefusesRuleBreaker DEF session
  <2>4. phase' = "failed"
    BY <2>1 DEF FailsWithERR, Fails
  <2>5. TypeOK'
    BY <1>0, <1>2, <2>1, <2>3, <2>4 DEF TypeOK, options, session, callbacks
  <2>6. QED  BY <2>3, <2>5 DEF Inv
<1>8. CASE p.first = 1 /\ p.wellformed /\ p.kind = "ssl_request"
  <2>1. /\ phase' = (IF tls_offered THEN "hello" ELSE "tls_response")
        /\ seq' = p.last
        /\ UNCHANGED <<cause, handshake, expected, callbacks, outbox>>
    BY <1>8 DEF ReadResponse
  <2>2. p.last \in Nat /\ client.next \in Nat /\ honest \in BOOLEAN
    BY <1>0, <1>2 DEF ClientPacket, TypeOK
  <2>3. TypeOK'
    BY <1>0, <1>2, <2>1, <2>2 DEF TypeOK, options, callbacks
  <2>4. Conversation'
    <3>1. CASE client.state = "requested_tls" /\ Len(Input) = 1
      <4>1. p.last = client.next - 1 /\ (honest => tls_offered)
        BY <1>0, <1>2, <3>1 DEF AwaitsResponse, Sent
      <4>2. Len(Input') = 0
        BY <1>2, <3>1
      <4>3. CASE tls_offered
        BY <1>3, <1>5, <2>1, <3>1, <4>1, <4>2, <4>3 DEF Conversation, AwaitsHello
      <4>4. CASE ~tls_offered
        BY <1>3, <1>5, <2>1, <3>1, <4>1, <4>2, <4>4 DEF Conversation, AwaitsTlsResponse
      <4>5. QED  BY <4>3, <4>4
    <3>2. CASE client.state = "tls" /\ Len(Input) = 2
      <4>1. p.last = client.next - 1 /\ tls_offered /\ IsHello(Input[2])
        BY <1>0, <1>2, <3>2 DEF AwaitsResponse, Sent
      <4>2. Len(Input') = 1 /\ Input'[1] = Input[2]
        BY <1>2, <3>2
      <4>3. IsHello(Input[1])'
        BY <4>1, <4>2, <1>5 DEF IsHello
      <4>4. QED
        BY <1>3, <1>5, <2>1, <3>2, <4>1, <4>2, <4>3 DEF Conversation, AwaitsHello
    <3>3. CASE client.state = "responded" /\ Len(Input) = 2
      <4>1. ~honest /\ ~tls_offered /\ Sent(Input[2], "response", 2)
        BY <1>0, <3>3 DEF AwaitsResponse
      <4>2. Len(Input') = 1 /\ Input'[1] = Input[2]
        BY <1>2, <3>3
      <4>3. Sent(Input[1], "response", seq + 1)'
        BY <4>1, <4>2, <1>5 DEF Sent
      <4>4. QED
        BY <1>3, <1>5, <2>1, <3>3, <4>1, <4>2, <4>3 DEF Conversation, AwaitsTlsResponse
    <3>4. QED  BY <1>0, <1>2, <1>8, <3>1, <3>2, <3>3 DEF AwaitsResponse, Sent
  <2>5. Verdict'
    BY <1>0, <2>1 DEF Verdict, Waiting, callbacks
  <2>6. QED  BY <2>3, <2>4, <2>5 DEF Inv
<1>9. CASE p.first = 1 /\ p.wellformed /\ p.kind # "ssl_request"
  <2>1. Admits(p.body, p.last)
    BY <1>9 DEF ReadResponse
  <2>2. client.state = "responded" /\ Len(Input) = 1 /\ Sent(p, "response", 1)
    BY <1>0, <1>2, <1>9 DEF AwaitsResponse, Sent
  <2>3. Len(Input') = 0 /\ p.last = client.next - 1 /\ p.body.caps = client.caps
    BY <1>2, <2>2 DEF Sent
  <2> HIDE DEF p
  <2>4. /\ Conversation' /\ Verdict' /\ outbox' \in Seq(ServerPacket)
        /\ phase' \in {"auth_switch", "command", "failed"}
        /\ seq' \in Nat /\ handshake' \in HandshakeResponse
        /\ authenticated' \in BOOLEAN /\ init_called' \in BOOLEAN
    BY <1>0, <1>2, <1>3, <1>5, <2>1, <2>2, <2>3, AdmitsStep
  <2>5. TypeOK'
    BY <1>0, <1>2, <2>4 DEF TypeOK, options
  <2>6. QED  BY <2>4, <2>5 DEF Inv
<1>10. QED  BY <1>6, <1>7, <1>8, <1>9

LEMMA AcceptTlsStep ==
  ASSUME Inv, AcceptTls
  PROVE  Inv'
<1> DEFINE p == Head(buffer)
<1>0. /\ TypeOK /\ Conversation /\ Verdict /\ AwaitsHello /\ Waiting
      /\ phase = "hello" /\ buffer # <<>> /\ buffer' = Tail(buffer)
      /\ UNCHANGED <<options, socket, client_closed, client, honest, session>>
  BY DEF Inv, AcceptTls, Reads, Conversation, Waiting
<1>1. /\ p = Input[1]
      /\ buffer' \in Seq(ClientPacket) /\ socket' \in Seq(ClientPacket)
      /\ Len(Input) > 0 /\ Len(Input') = Len(Input) - 1
  BY <1>0, ReadsInput
<1>2. /\ outbox = <<>> /\ client.state = "tls" /\ seq = client.next - 1
      /\ Len(Input) = 1 /\ IsHello(p)
  BY <1>0, <1>1 DEF AwaitsHello
<1>3. client' = client /\ honest' = honest /\ UNCHANGED <<callbacks, seq>>
  BY <1>0 DEF session
<1>4. CASE p.kind = "hello" /\ p.wellformed
  <2>1. phase' = "tls_response" /\ outbox' = Append(outbox, Packet("TLS", 0)) /\ UNCHANGED cause
    BY <1>4 DEF AcceptTls
  <2>2. Packet("TLS", 0) \in ServerPacket
    BY PacketType
  <2>3. outbox' = <<Packet("TLS", 0)>> /\ outbox' \in Seq(ServerPacket)
    BY <1>2, <2>1, <2>2, FewPackets
  <2>4. Len(Input') = 0
    BY <1>1, <1>2
  <2>5. Conversation'
    BY <1>2, <1>3, <2>1, <2>3, <2>4 DEF Conversation, AwaitsTlsResponse
  <2>6. Verdict'
    BY <1>0, <1>3, <2>1 DEF Verdict, Waiting, callbacks
  <2>7. TypeOK'
    BY <1>0, <1>1, <2>1, <2>3 DEF TypeOK, options, session, callbacks
  <2>8. QED  BY <2>5, <2>6, <2>7 DEF Inv
<1>5. CASE ~(p.kind = "hello" /\ p.wellformed)
  <2>1. Fails("tls") /\ UNCHANGED outbox
    BY <1>5 DEF AcceptTls
  <2>2. Conversation' /\ Verdict'
    BY <1>0, <1>2, <1>3, <1>5, <2>1, GivesUp DEF IsHello
  <2>3. TypeOK'
    BY <1>0, <1>1, <2>1 DEF TypeOK, Fails, options, session, callbacks
  <2>4. QED  BY <2>2, <2>3 DEF Inv
<1>6. QED  BY <1>4, <1>5

LEMMA ReadTlsResponseStep ==
  ASSUME Inv, ReadTlsResponse
  PROVE  Inv'
<1> DEFINE p == Head(buffer)
<1>0. /\ TypeOK /\ Conversation /\ Verdict /\ AwaitsTlsResponse /\ Waiting
      /\ phase = "tls_response" /\ buffer # <<>> /\ buffer' = Tail(buffer)
      /\ UNCHANGED <<options, socket, client_closed, client, honest>>
  BY DEF Inv, ReadTlsResponse, Reads, Conversation, Waiting
<1>1. /\ p \in ClientPacket /\ p = Input[1]
      /\ buffer' \in Seq(ClientPacket) /\ socket' \in Seq(ClientPacket)
      /\ Len(Input) > 0 /\ Len(Input') = Len(Input) - 1
  BY <1>0, ReadsInput
<1>2. /\ outbox = <<>> /\ client.state = "responded" /\ Len(Input) = 1
      /\ Sent(p, "response", seq + 1)
  BY <1>0, <1>1 DEF AwaitsTlsResponse
<1>3. client' = client /\ honest' = honest
  BY <1>0
<1>4. CASE p.first # seq + 1
  <2>1. Fails("sequence") /\ UNCHANGED <<session, outbox>>
    BY <1>4 DEF ReadTlsResponse, SeqAfterTls
  <2>2. Conversation' /\ Verdict'
    BY <1>0, <1>2, <1>3, <1>4, <2>1, GivesUp DEF session, Sent
  <2>3. TypeOK'
    BY <1>0, <1>1, <2>1 DEF TypeOK, Fails, options, session, callbacks
  <2>4. QED  BY <2>2, <2>3 DEF Inv
<1>5. CASE p.first = seq + 1 /\ ~p.wellformed
  <2>1. FailsWithERR(p.last + 1) /\ UNCHANGED session
    BY <1>5 DEF ReadTlsResponse, SeqAfterTls
  <2>2. p.last + 1 \in Nat /\ ~honest
    BY <1>1, <1>2, <1>5 DEF ClientPacket, Sent
  <2>3. Conversation' /\ Verdict' /\ outbox' \in Seq(ServerPacket)
    BY <1>0, <1>2, <1>3, <2>1, <2>2, RefusesRuleBreaker DEF session
  <2>4. phase' = "failed"
    BY <2>1 DEF FailsWithERR, Fails
  <2>5. TypeOK'
    BY <1>0, <1>1, <2>1, <2>3, <2>4 DEF TypeOK, options, session, callbacks
  <2>6. QED  BY <2>3, <2>5 DEF Inv
<1>6. CASE p.first = seq + 1 /\ p.wellformed
  <2>1. Admits(p.body, p.last)
    BY <1>6 DEF ReadTlsResponse, SeqAfterTls
  <2>2. Len(Input') = 0 /\ p.last = client.next - 1 /\ p.body.caps = client.caps
    BY <1>1, <1>2 DEF Sent
  <2> HIDE DEF p
  <2>3. /\ Conversation' /\ Verdict' /\ outbox' \in Seq(ServerPacket)
        /\ phase' \in {"auth_switch", "command", "failed"}
        /\ seq' \in Nat /\ handshake' \in HandshakeResponse
        /\ authenticated' \in BOOLEAN /\ init_called' \in BOOLEAN
    BY <1>0, <1>1, <1>2, <1>3, <2>1, <2>2, AdmitsStep
  <2>4. TypeOK'
    BY <1>0, <1>1, <2>3 DEF TypeOK, options
  <2>5. QED  BY <2>3, <2>4 DEF Inv
<1>7. QED  BY <1>4, <1>5, <1>6

LEMMA ReadAuthSwitchStep ==
  ASSUME Inv, ReadAuthSwitch
  PROVE  Inv'
<1> DEFINE p == Head(buffer)
<1>0. /\ TypeOK /\ Conversation /\ Verdict /\ AwaitsAuthData /\ Waiting
      /\ phase = "auth_switch" /\ buffer # <<>> /\ buffer' = Tail(buffer)
      /\ UNCHANGED <<options, socket, client_closed, client, honest, handshake, expected>>
  BY DEF Inv, ReadAuthSwitch, Reads, Conversation, Waiting
<1>1. /\ p \in ClientPacket /\ p = Input[1]
      /\ buffer' \in Seq(ClientPacket) /\ socket' \in Seq(ClientPacket)
      /\ Len(Input) > 0 /\ Len(Input') = Len(Input) - 1
  BY <1>0, ReadsInput
<1>2. /\ outbox = <<>> /\ client.state = "switched" /\ Len(Input) = 1
      /\ Sent(p, "auth_data", seq + 2)
  BY <1>0, <1>1 DEF AwaitsAuthData
<1>3. client' = client /\ honest' = honest
  BY <1>0
<1>4. CASE p.first # seq + 2
  <2>1. Fails("sequence") /\ UNCHANGED <<seq, callbacks, outbox>>
    BY <1>4 DEF ReadAuthSwitch
  <2>2. Conversation' /\ Verdict'
    BY <1>0, <1>2, <1>3, <1>4, <2>1, GivesUp DEF Sent
  <2>3. TypeOK'
    BY <1>0, <1>1, <2>1 DEF TypeOK, Fails, options, callbacks
  <2>4. QED  BY <2>2, <2>3 DEF Inv
<1>5. CASE p.first = seq + 2
  <2>1. seq' = p.last /\ Authenticates(handshake, expected, p.body.auth, p.last + 1)
    BY <1>5 DEF ReadAuthSwitch
  <2>2. p.last \in Nat /\ client.next \in Nat /\ p.last = client.next - 1
    BY <1>0, <1>1, <1>2 DEF Sent, TypeOK, ClientPacket
  <2>3. p.last + 1 = client.next
    BY <2>2
  <2>4. authenticated = FALSE /\ init_called = FALSE /\ cause = "" /\ handshake \in HandshakeResponse
    BY <1>0 DEF TypeOK, Verdict, Waiting
  <2>5. Authenticates(handshake, expected, p.body.auth, client.next)
    BY <2>1, <2>3
  <2>6. Decides(client.next)
    BY <1>2, <2>2, <2>4, <2>5, AuthenticatesOutcome, HandshakeAssumption
  <2>7. Conversation' /\ Verdict' /\ outbox' \in Seq(ServerPacket)
    BY <1>0, <1>2, <1>3, <2>6, DecisionReached
  <2>8. phase' \in {"command", "failed"} /\ authenticated' \in BOOLEAN /\ init_called' \in BOOLEAN
    BY <2>6 DEF Decides
  <2>9. seq' \in Nat
    BY <2>1, <2>2
  <2>10. TypeOK'
    BY <1>0, <1>1, <2>7, <2>8, <2>9 DEF TypeOK, options
  <2>11. QED  BY <2>7, <2>10 DEF Inv
<1>6. QED  BY <1>4, <1>5

(* The peer closes, or the timer fires.                                    *)
LEMMA GivingUpStep ==
  ASSUME Inv, EndOfStream \/ AuthTimeout
  PROVE  Inv'
<1>1. PICK why \in {"closed", "timeout"} :
        /\ Waiting /\ Fails(why) /\ UNCHANGED <<options, reader, session, outbox, client, honest>>
        /\ why = "closed" => client_closed
        /\ why = "timeout" => auth_timeout
  BY DEF EndOfStream, AuthTimeout, TimerArmed
<1>2. Conversation' /\ Verdict'
  BY <1>1, GivesUp DEF Inv, options, reader, session
<1>3. TypeOK'
  BY <1>1 DEF Inv, TypeOK, Fails, options, reader, session, callbacks
<1>4. QED  BY <1>2, <1>3 DEF Inv

-----------------------------------------------------------------------------
(* The client's steps.                                                     *)

(* A packet on its way changes what the server will read, nothing else.    *)
LEMMA ClientSendsOutcome ==
  ASSUME TypeOK,
         NEW kind \in {"ssl_request", "response", "auth_data"}, NEW skew \in {0, 1},
         NEW frames \in Nat \ {0}, NEW wellformed \in BOOLEAN, NEW body \in HandshakeResponse,
         NEW state \in {"requested_tls", "responded", "switched"},
         ClientSends(kind, skew, frames, wellformed, body, state)
  PROVE  /\ TypeOK'
         /\ client'.state = state /\ Len(Input) \in Nat /\ Len(Input') = Len(Input) + 1
         /\ \A first \in Nat : client.next = first => Sent(Input[Len(Input)], kind, first)'
         /\ \A i \in 1 .. Len(Input) : Input'[i] = Input[i]
         /\ honest' => honest /\ (kind = "ssl_request" => tls_offered)
         /\ client'.caps = body.caps
         /\ UNCHANGED <<options, phase, cause, client_closed, session, outbox>>
<1> DEFINE first == client.next + skew
           p == [kind |-> kind, first |-> first, last |-> first + frames - 1,
                 wellformed |-> wellformed, body |-> body]
<1>1. /\ socket' = Append(socket, p)
      /\ client' = [client EXCEPT !.state = state, !.next = first + frames, !.caps = body.caps]
      /\ honest' = (honest /\ skew = 0 /\ wellformed /\ (kind = "ssl_request" => tls_offered))
      /\ UNCHANGED <<options, phase, cause, buffer, client_closed, session, outbox>>
  BY DEF ClientSends
<1>2. client.next \in Nat /\ honest \in BOOLEAN /\ body.caps \in SUBSET {"PLUGIN_AUTH", "SECURE_CONNECTION"}
  BY DEF TypeOK, HandshakeResponse
<1>3. p \in ClientPacket
  BY <1>2 DEF ClientPacket
<1>4. buffer \in Seq(ClientPacket) /\ socket \in Seq(ClientPacket)
  BY DEF TypeOK
<1>5. /\ client' \in [state : {"waiting", "greeted", "requested_tls", "tls", "secured", "responded",
                               "switching", "switched", "confused", "connected", "refused"},
                      next : Nat, caps : SUBSET {"PLUGIN_AUTH", "SECURE_CONNECTION"}]
      /\ client'.state = state /\ client'.next = first + frames /\ client'.caps = body.caps
  <2>1. first + frames \in Nat
    BY <1>2
  <2> HIDE DEF first
  <2>2. client' = [client EXCEPT !.state = state, !.next = first + frames, !.caps = body.caps]
    BY <1>1
  <2>3. QED  BY <1>2, <2>1, <2>2 DEF TypeOK
<1>6. /\ p.kind = kind /\ p.last = first + frames - 1 /\ p.body.caps = body.caps
      /\ p.wellformed = wellformed /\ p.first = client.next + skew
  OBVIOUS
<1> HIDE DEF p
<1>7. /\ socket' \in Seq(ClientPacket)
      /\ Len(Input') = Len(Input) + 1 /\ Input'[Len(Input) + 1] = p
      /\ \A i \in 1 .. Len(Input) : Input'[i] = Input[i]
  BY <1>1, <1>3, <1>4, InputSent DEF Input
<1>8. Len(Input) \in Nat
  BY <1>4 DEF Input
<1>9. TypeOK'
  BY <1>1, <1>5, <1>7 DEF TypeOK, options, session, callbacks
<1>10. \A f \in Nat : client.next = f => Sent(Input[Len(Input)], kind, f)'
  <2>1. Input'[Len(Input')] = p
    BY <1>7
  <2>2. p.last = client'.next - 1
    BY <1>2, <1>5, <1>6
  <2>3. honest' => p.wellformed /\ p.first = client.next
    <3>1. honest' => wellformed /\ skew = 0
      BY <1>1, Zenon
    <3>2. skew = 0 => p.first = client.next
      BY <1>2, <1>6
    <3>3. QED  BY <1>6, <3>1, <3>2, Zenon
  <2>4. QED  BY <1>5, <1>6, <2>1, <2>2, <2>3 DEF Sent
<1>11. QED  BY <1>1, <1>5, <1>7, <1>8, <1>9, <1>10 DEF options, session

(* The client moves none of what the server has decided.                   *)
LEMMA ClientKeepsVerdict ==
  ASSUME Verdict, UNCHANGED <<options, phase, cause, session>>, client_closed => client_closed'
  PROVE  Verdict'
BY DEF Verdict, Waiting, options, session, callbacks

LEMMA SslRequestStep ==
  ASSUME Inv, SslRequest
  PROVE  Inv'
<1>1. PICK skew \in {0, 1}, wellformed \in BOOLEAN :
        ClientSends("ssl_request", skew, 1, wellformed, NoHandshake, "requested_tls")
  BY DEF SslRequest
<1>2. client.state = "greeted" /\ TypeOK /\ Conversation /\ Verdict
  BY DEF SslRequest, Inv
<1>3. /\ TypeOK'
      /\ client'.state = "requested_tls" /\ Len(Input) \in Nat /\ Len(Input') = Len(Input) + 1
      /\ client.next = 1 => Sent(Input[Len(Input)], "ssl_request", 1)'
      /\ honest' => honest /\ tls_offered
      /\ UNCHANGED <<options, tls_offered, phase, cause, client_closed, session, seq, outbox>>
  BY <1>1, <1>2, NoHandshakeType, ClientSendsOutcome DEF options, session
<1>4. Conversation'
  <2>1. CASE phase = "response"
    <3>1. client.next = 1 /\ Len(Input) = 0 /\ outbox = <<>>
      BY <1>2, <2>1 DEF Conversation, AwaitsResponse
    <3>2. Len(Input') = 1 /\ Sent(Input[1], "ssl_request", 1)'
      BY <1>3, <3>1
    <3>3. QED  BY <1>3, <2>1, <3>1, <3>2 DEF Conversation, AwaitsResponse
  <2>2. CASE phase = "failed"
    <3>1. /\ cause # "backend"
          /\ honest => outbox = <<>> /\ cause \notin {"refused", "sequence", "tls"}
      BY <1>2, <2>2 DEF Conversation, Failed, Abandoned, Refused, Answered, Connected, Unanswered
    <3>2. NoOkTold'
      BY <1>2, <1>3, <2>2, <3>1 DEF Conversation, Failed, NoOkTold
    <3>3. QED  BY <1>3, <2>2, <3>1, <3>2 DEF Conversation, Failed, Abandoned
  <2>3. phase \in {"response", "failed"}
    BY <1>2 DEF TypeOK, Conversation, AwaitsHello, AwaitsTlsResponse, AwaitsAuthData, Connected,
       Answered
  <2>4. QED  BY <2>1, <2>2, <2>3
<1>5. Verdict'
  BY <1>2, <1>3, ClientKeepsVerdict
<1>6. QED  BY <1>3, <1>4, <1>5 DEF Inv

LEMMA SendResponseStep ==
  ASSUME Inv, SendResponse
  PROVE  Inv'
<1>1. PICK r \in Responses, skew \in {0, 1}, wellformed \in BOOLEAN, frames \in 1 .. MaxFrames :
        ClientSends("response", skew, frames, wellformed, r, "responded")
  BY DEF SendResponse
<1>2. /\ client.state \in {"greeted", "secured"} \/ (client.state = "requested_tls" /\ ~tls_offered)
      /\ TypeOK /\ Conversation /\ Verdict
  BY DEF SendResponse, Inv
<1>3. /\ TypeOK'
      /\ client'.state = "responded" /\ Len(Input) \in Nat /\ Len(Input') = Len(Input) + 1
      /\ \A first \in Nat : client.next = first => Sent(Input[Len(Input)], "response", first)'
      /\ \A i \in 1 .. Len(Input) : Input'[i] = Input[i]
      /\ honest' => honest
      /\ UNCHANGED <<options, tls_offered, phase, cause, client_closed, session, seq, outbox>>
  <2>1. r \in HandshakeResponse /\ frames \in Nat \ {0}
    BY HandshakeAssumption
  <2>2. QED  BY <1>1, <1>2, <2>1, ClientSendsOutcome DEF options, session
<1>4. Conversation'
  <2>1. CASE phase = "response" /\ client.state = "greeted"
    <3>1. client.next = 1 /\ Len(Input) = 0 /\ outbox = <<>>
      BY <1>2, <2>1 DEF Conversation, AwaitsResponse
    <3>2. Len(Input') = 1 /\ Sent(Input[1], "response", 1)'
      BY <1>3, <3>1
    <3>3. QED  BY <1>3, <2>1, <3>1, <3>2 DEF Conversation, AwaitsResponse
  <2>2. CASE phase = "response" /\ client.state # "greeted"
    <3>1. /\ Len(Input) = 1 /\ outbox = <<>> /\ ~tls_offered /\ ~honest
          /\ Input[1].kind = "ssl_request"
      BY <1>2, <2>2 DEF Conversation, AwaitsResponse, Sent
    <3>2. Len(Input') = 2 /\ Input'[1] = Input[1] /\ ~honest'
      BY <1>3, <3>1
    <3>3. Sent(Input[2], "response", 2)'
      BY <1>2, <1>3, <3>1, <3>2 DEF Sent, TypeOK
    <3>4. QED  BY <1>3, <2>2, <3>1, <3>2, <3>3 DEF Conversation, AwaitsResponse
  <2>3. CASE phase = "tls_response"
    <3>1. seq = client.next - 1 /\ Len(Input) = 0 /\ outbox = <<>>
      BY <1>2, <2>3 DEF Conversation, AwaitsTlsResponse
    <3>2. client.next = seq + 1 /\ seq + 1 \in Nat
      BY <1>2, <3>1 DEF TypeOK
    <3>3. Len(Input') = 1 /\ Sent(Input[1], "response", seq + 1)'
      <4>1. Sent(Input[Len(Input)], "response", seq + 1)'
        BY <1>3, <3>2 DEF Sent
      <4>2. QED  BY <1>3, <3>1, <4>1
    <3>4. QED  BY <1>3, <2>3, <3>1, <3>3 DEF Conversation, AwaitsTlsResponse
  <2>4. CASE phase = "failed"
    <3>1. /\ cause # "backend"
          /\ honest => outbox = <<>> /\ cause \notin {"refused", "sequence", "tls"}
      BY <1>2, <2>4 DEF Conversation, Failed, Abandoned, Refused, Answered, Connected, Unanswered
    <3>2. NoOkTold'
      BY <1>2, <1>3, <2>4, <3>1 DEF Conversation, Failed, NoOkTold
    <3>3. QED  BY <1>3, <2>4, <3>1, <3>2 DEF Conversation, Failed, Abandoned
  <2>5. phase \in {"response", "tls_response", "failed"}
    BY <1>2 DEF TypeOK, Conversation, AwaitsHello, AwaitsAuthData, Connected, Answered
  <2>6. QED  BY <2>1, <2>2, <2>3, <2>4, <2>5
<1>5. Verdict'
  BY <1>2, <1>3, ClientKeepsVerdict
<1>6. QED  BY <1>3, <1>4, <1>5 DEF Inv

LEMMA TlsHelloStep ==
  ASSUME Inv, TlsHello
  PROVE  Inv'
<1>1. PICK wellformed \in BOOLEAN :
        /\ socket' = Append(socket, [kind |-> "hello", first |-> 0, last |-> 0,
                                     wellformed |-> wellformed, body |-> NoHandshake])
        /\ honest' = (honest /\ wellformed)
  BY DEF TlsHello
<1> DEFINE p == [kind |-> "hello", first |-> 0, last |-> 0,
                 wellformed |-> wellformed, body |-> NoHandshake]
<1>2. /\ client.state = "requested_tls" /\ tls_offered /\ TypeOK /\ Conversation /\ Verdict
      /\ client' = [client EXCEPT !.state = "tls"]
      /\ UNCHANGED <<options, phase, cause, buffer, client_closed, session, outbox>>
  BY DEF TlsHello, Inv
<1>3. p \in ClientPacket /\ p.kind = "hello" /\ p.wellformed = wellformed
  BY NoHandshakeType DEF ClientPacket
<1> HIDE DEF p
<1>4. buffer \in Seq(ClientPacket) /\ socket \in Seq(ClientPacket)
  BY <1>2 DEF TypeOK
<1>5. /\ socket' \in Seq(ClientPacket)
      /\ Len(Input') = Len(Input) + 1 /\ Input'[Len(Input) + 1] = p
      /\ \A i \in 1 .. Len(Input) : Input'[i] = Input[i]
  BY <1>1, <1>2, <1>3, <1>4, InputSent DEF Input, p
<1>6. Len(Input) \in Nat
  BY <1>4 DEF Input
<1>7. client'.state = "tls" /\ client'.next = client.next /\ client'.caps = client.caps
  BY <1>2 DEF TypeOK
<1>8. TypeOK'
  BY <1>1, <1>2, <1>5 DEF TypeOK, options, session, callbacks
<1>9. IsHello(p)' /\ (honest' => honest)
  BY <1>1, <1>3 DEF IsHello
<1>10. UNCHANGED <<options, tls_offered, phase, cause, client_closed, session, seq, outbox>>
  BY <1>2 DEF options, session
<1>11. Conversation'
  <2>1. CASE phase = "response"
    <3>1. Len(Input) = 1 /\ outbox = <<>> /\ Sent(Input[1], "ssl_request", 1)
      BY <1>2, <2>1 DEF Conversation, AwaitsResponse
    <3>2. Len(Input') = 2 /\ IsHello(Input[2])'
      BY <1>5, <1>9, <3>1 DEF IsHello
    <3>3. Sent(Input[1], "ssl_request", 1)'
      BY <1>5, <1>7, <1>9, <3>1 DEF Sent
    <3>4. QED  BY <1>2, <1>7, <1>10, <2>1, <3>1, <3>2, <3>3 DEF Conversation, AwaitsResponse
  <2>2. CASE phase = "hello"
    <3>1. Len(Input) = 0 /\ outbox = <<>> /\ seq = client.next - 1
      BY <1>2, <2>2 DEF Conversation, AwaitsHello
    <3>2. Len(Input') = 1 /\ IsHello(Input[1])'
      BY <1>5, <1>9, <3>1 DEF IsHello
    <3>3. QED  BY <1>2, <1>7, <1>10, <2>2, <3>1, <3>2 DEF Conversation, AwaitsHello
  <2>3. CASE phase = "failed"
    <3>1. /\ cause # "backend"
          /\ honest => outbox = <<>> /\ cause \notin {"refused", "sequence", "tls"}
      BY <1>2, <2>3 DEF Conversation, Failed, Abandoned, Refused, Answered, Connected, Unanswered
    <3>2. NoOkTold'
      BY <1>2, <1>7, <1>10, <2>3, <3>1 DEF Conversation, Failed, NoOkTold
    <3>3. QED  BY <1>7, <1>9, <1>10, <2>3, <3>1, <3>2 DEF Conversation, Failed, Abandoned
  <2>4. phase \in {"response", "hello", "failed"}
    BY <1>2 DEF TypeOK, Conversation, AwaitsTlsResponse, AwaitsAuthData, Connected, Answered
  <2>5. QED  BY <2>1, <2>2, <2>3, <2>4
<1>12. Verdict'
  BY <1>2, <1>10, ClientKeepsVerdict
<1>13. QED  BY <1>8, <1>11, <1>12 DEF Inv

LEMMA SendAuthDataStep ==
  ASSUME Inv, SendAuthData
  PROVE  Inv'
<1>1. PICK data \in AuthData, skew \in {0, 1}, frames \in 1 .. MaxFrames :
        ClientSends("auth_data", skew, frames, TRUE,
                    [NoHandshake EXCEPT !.auth = data, !.caps = client.caps], "switched")
  BY DEF SendAuthData
<1> DEFINE body == [NoHandshake EXCEPT !.auth = data, !.caps = client.caps]
<1>2. client.state = "switching" /\ TypeOK /\ Conversation /\ Verdict
  BY DEF SendAuthData, Inv
<1>3. /\ TypeOK'
      /\ client'.state = "switched" /\ Len(Input) \in Nat /\ Len(Input') = Len(Input) + 1
      /\ \A first \in Nat : client.next = first => Sent(Input[Len(Input)], "auth_data", first)'
      /\ honest' => honest
      /\ UNCHANGED <<options, tls_offered, phase, cause, client_closed, session, seq, outbox>>
  <2>1. body \in HandshakeResponse
    BY <1>2 DEF TypeOK, NoHandshake, HandshakeResponse, Plugin
  <2>2. frames \in Nat \ {0}
    BY HandshakeAssumption
  <2>3. ClientSends("auth_data", skew, frames, TRUE, body, "switched")
    BY <1>1
  <2> HIDE DEF body
  <2>4. QED  BY <1>2, <2>1, <2>2, <2>3, ClientSendsOutcome DEF options, session
<1>4. Conversation'
  <2>1. CASE phase = "auth_switch"
    <3>1. seq = client.next - 2 /\ Len(Input) = 0 /\ outbox = <<>>
      BY <1>2, <2>1 DEF Conversation, AwaitsAuthData
    <3>2. client.next = seq + 2 /\ seq + 2 \in Nat
      BY <1>2, <3>1 DEF TypeOK
    <3>3. Len(Input') = 1 /\ Sent(Input[1], "auth_data", seq + 2)'
      <4>1. Sent(Input[Len(Input)], "auth_data", seq + 2)'
        BY <1>3, <3>2 DEF Sent
      <4>2. QED  BY <1>3, <3>1, <4>1
    <3>4. QED  BY <1>3, <2>1, <3>1, <3>3 DEF Conversation, AwaitsAuthData
  <2>2. CASE phase = "failed"
    <3>1. /\ cause # "backend"
          /\ honest => outbox = <<>> /\ cause \notin {"refused", "sequence", "tls"}
      BY <1>2, <2>2 DEF Conversation, Failed, Abandoned, Refused, Answered, Connected, Unanswered
    <3>2. NoOkTold'
      BY <1>2, <1>3, <2>2, <3>1 DEF Conversation, Failed, NoOkTold
    <3>3. QED  BY <1>3, <2>2, <3>1, <3>2 DEF Conversation, Failed, Abandoned
  <2>3. phase \in {"auth_switch", "failed"}
    BY <1>2 DEF TypeOK, Conversation, AwaitsResponse, AwaitsHello, AwaitsTlsResponse, Connected,
       Answered
  <2>4. QED  BY <2>1, <2>2, <2>3
<1>5. Verdict'
  BY <1>2, <1>3, ClientKeepsVerdict
<1>6. QED  BY <1>3, <1>4, <1>5 DEF Inv

LEMMA ClientClosesStep ==
  ASSUME Inv, ClientCloses
  PROVE  Inv'
<1>1. UNCHANGED <<options, phase, cause, buffer, socket, session, outbox, client, honest>>
  BY DEF ClientCloses
<1>2. TypeOK'
  BY <1>1 DEF Inv, TypeOK, options, session, callbacks
<1>3. Conversation'
  <2>1. Input' = Input
    BY <1>1 DEF Input
  <2>2. QED
    BY <1>1, <2>1 DEF Inv, Conversation, AwaitsResponse, AwaitsHello, AwaitsTlsResponse,
       AwaitsAuthData, Connected, Failed, Refused, Abandoned, Unanswered, Answered, NoOkTold, Sent, IsHello,
       options, session
<1>4. Verdict'
  <2>1. client_closed' /\ Verdict
    BY DEF ClientCloses, Inv
  <2>2. QED  BY <1>1, <2>1, ClientKeepsVerdict
<1>5. QED  BY <1>2, <1>3, <1>4 DEF Inv

(* What the client makes of the first packet waiting for it.               *)
LEMMA ClientReadsOutcome ==
  ASSUME TypeOK, ClientReads
  PROVE  /\ TypeOK'
         /\ Head(outbox) \in ServerPacket /\ outbox' = Tail(outbox)
         /\ client'.caps = client.caps
         /\ Head(outbox).kind = "TLS" => client'.state = "secured" /\ client'.next = client.next
         /\ Head(outbox).kind # "TLS" => client'.next = Head(outbox).seq + 1
         /\ Head(outbox).kind # "OK" /\ client.state # "connected" => client'.state # "connected"
         /\ Head(outbox).kind # "ERR" /\ client.state # "refused" => client'.state # "refused"
         /\ Head(outbox).seq = client.next =>
              /\ Head(outbox).kind = "GREETING" => client'.state = "greeted"
              /\ Head(outbox).kind = "AUTH_SWITCH" /\ "PLUGIN_AUTH" \in client.caps
                   => client'.state = "switching"
              /\ Head(outbox).kind = "AUTH_MORE" => client'.state = client.state
              /\ Head(outbox).kind = "OK" => client'.state = "connected"
              /\ Head(outbox).kind = "ERR" => client'.state = "refused"
         /\ Input' = Input
         /\ UNCHANGED <<options, tls_offered, phase, cause, client_closed, session, seq, honest>>
<1> DEFINE p == Head(outbox)
           state ==
             IF p.kind = "TLS" THEN "secured"
             ELSE IF p.seq # client.next THEN "confused"
             ELSE CASE p.kind = "GREETING" -> "greeted"
                    [] p.kind = "AUTH_SWITCH" ->
                         IF "PLUGIN_AUTH" \in client.caps THEN "switching" ELSE "confused"
                    [] p.kind = "AUTH_MORE" -> client.state
                    [] p.kind = "OK" -> "connected"
                    [] p.kind = "ERR" -> "refused"
           next == IF p.kind = "TLS" THEN client.next ELSE p.seq + 1
           ClientState ==
             {"waiting", "greeted", "requested_tls", "tls", "secured", "responded", "switching",
              "switched", "confused", "connected", "refused"}
<1>1. /\ outbox # <<>> /\ outbox' = Tail(outbox)
      /\ client' = [client EXCEPT !.state = state, !.next = next]
      /\ UNCHANGED <<options, phase, cause, reader, session, honest>>
  BY DEF ClientReads, TypeOK
<1>2. p \in ServerPacket /\ outbox' \in Seq(ServerPacket)
  BY <1>1 DEF TypeOK
<1>3. /\ p.kind \in {"GREETING", "TLS", "AUTH_SWITCH", "AUTH_MORE", "OK", "ERR"}
      /\ p.seq \in Nat /\ client.next \in Nat /\ client.state \in ClientState
  BY <1>2 DEF ServerPacket, TypeOK
<1> HIDE DEF p
<1>4. /\ p.kind = "TLS" => state = "secured"
      /\ p.kind # "TLS" /\ p.seq # client.next => state = "confused"
      /\ p.kind # "TLS" /\ p.seq = client.next =>
           /\ p.kind = "GREETING" => state = "greeted"
           /\ p.kind = "AUTH_SWITCH" /\ "PLUGIN_AUTH" \in client.caps => state = "switching"
           /\ p.kind = "AUTH_SWITCH" /\ "PLUGIN_AUTH" \notin client.caps => state = "confused"
           /\ p.kind = "AUTH_MORE" => state = client.state
           /\ p.kind = "OK" => state = "connected"
           /\ p.kind = "ERR" => state = "refused"
  <2>1. CASE p.kind = "TLS"
    <3>1. state = "secured"
      BY <2>1
    <3>2. QED  BY <2>1, <3>1
  <2>2. CASE p.kind # "TLS" /\ p.seq # client.next
    <3>1. state = "confused"
      BY <2>2
    <3>2. QED  BY <2>2, <3>1
  <2>3. CASE p.kind # "TLS" /\ p.seq = client.next
    <3>1. p.kind = "GREETING" => state = "greeted"
      BY <2>3
    <3>2. p.kind = "AUTH_SWITCH" =>
            state = IF "PLUGIN_AUTH" \in client.caps THEN "switching" ELSE "confused"
      BY <2>3
    <3>3. p.kind = "AUTH_MORE" => state = client.state
      BY <2>3
    <3>4. p.kind = "OK" => state = "connected"
      BY <2>3
    <3>5. p.kind = "ERR" => state = "refused"
      BY <2>3
    <3> HIDE DEF state
    <3>6. QED  BY <2>3, <3>1, <3>2, <3>3, <3>4, <3>5
  <2>4. QED  BY <2>1, <2>2, <2>3
<1>5. /\ p.kind = "TLS" => next = client.next
      /\ p.kind # "TLS" => next = p.seq + 1
      /\ next \in Nat
  BY <1>3
<1> HIDE DEF state, next
<1>6. /\ state \in ClientState
      /\ state = "connected" => p.kind = "OK" \/ client.state = "connected"
      /\ state = "refused" => p.kind = "ERR" \/ client.state = "refused"
  BY <1>3, <1>4
<1>7. /\ client'.state = state /\ client'.next = next /\ client'.caps = client.caps
      /\ client' \in [state : ClientState, next : Nat,
                      caps : SUBSET {"PLUGIN_AUTH", "SECURE_CONNECTION"}]
  BY <1>1, <1>5, <1>6 DEF TypeOK
<1>8. TypeOK'
  BY <1>1, <1>2, <1>7 DEF TypeOK, options, reader, session, callbacks
<1>9. /\ Input' = Input
      /\ UNCHANGED <<options, tls_offered, phase, cause, client_closed, session, seq, honest>>
  BY <1>1 DEF Input, options, reader, session
<1>10. /\ p.kind = "TLS" => client'.state = "secured" /\ client'.next = client.next
       /\ p.kind # "TLS" => client'.next = p.seq + 1
       /\ p.kind # "OK" /\ client.state # "connected" => client'.state # "connected"
       /\ p.kind # "ERR" /\ client.state # "refused" => client'.state # "refused"
       /\ p.seq = client.next =>
            /\ p.kind = "GREETING" => client'.state = "greeted"
            /\ p.kind = "AUTH_SWITCH" /\ "PLUGIN_AUTH" \in client.caps
                 => client'.state = "switching"
            /\ p.kind = "AUTH_MORE" => client'.state = client.state
            /\ p.kind = "OK" => client'.state = "connected"
            /\ p.kind = "ERR" => client'.state = "refused"
  BY <1>4, <1>5, <1>6, <1>7
<1>11. QED  BY <1>1, <1>2, <1>7, <1>8, <1>9, <1>10 DEF p

LEMMA ClientReadsStep ==
  ASSUME Inv, ClientReads
  PROVE  Inv'
<1> DEFINE p == Head(outbox)
           n == client.next
<1>0. TypeOK /\ Conversation /\ Verdict /\ outbox # <<>>
  BY DEF Inv, ClientReads
<1>1. /\ TypeOK'
      /\ p \in ServerPacket /\ outbox' = Tail(outbox)
      /\ client'.caps = client.caps
      /\ p.kind = "TLS" => client'.state = "secured" /\ client'.next = n
      /\ p.kind # "TLS" => client'.next = p.seq + 1
      /\ p.kind # "OK" /\ client.state # "connected" => client'.state # "connected"
      /\ p.kind # "ERR" /\ client.state # "refused" => client'.state # "refused"
      /\ p.seq = n =>
           /\ p.kind = "GREETING" => client'.state = "greeted"
           /\ p.kind = "AUTH_SWITCH" /\ "PLUGIN_AUTH" \in client.caps
                => client'.state = "switching"
           /\ p.kind = "AUTH_MORE" => client'.state = client.state
           /\ p.kind = "OK" => client'.state = "connected"
           /\ p.kind = "ERR" => client'.state = "refused"
      /\ Input' = Input
      /\ UNCHANGED <<options, tls_offered, phase, cause, client_closed, session, seq, honest>>
  BY <1>0, ClientReadsOutcome
<1>2. n \in Nat /\ n + 1 \in Nat
  BY <1>0 DEF TypeOK
<1>3. ASSUME NEW k \in {"GREETING", "TLS", "AUTH_SWITCH", "AUTH_MORE", "OK", "ERR"},
             NEW s \in Nat, outbox = <<Packet(k, s)>>
      PROVE  p.kind = k /\ p.seq = s /\ outbox' = <<>>
  <2>1. Packet(k, s) \in ServerPacket /\ Packet(k, s).kind = k /\ Packet(k, s).seq = s
    BY PacketType
  <2>2. QED  BY <1>1, <1>3, <2>1, FewPackets
<1>4. ASSUME NEW k \in {"OK", "ERR"},
             outbox = <<Packet("AUTH_MORE", n), Packet(k, n + 1)>>
      PROVE  p.kind = "AUTH_MORE" /\ p.seq = n /\ outbox' = <<Packet(k, n + 1)>>
  <2>1. /\ Packet("AUTH_MORE", n) \in ServerPacket /\ Packet(k, n + 1) \in ServerPacket
        /\ Packet("AUTH_MORE", n).kind = "AUTH_MORE" /\ Packet("AUTH_MORE", n).seq = n
    BY <1>2, PacketType
  <2>2. QED  BY <1>1, <1>4, <2>1, FewPackets
<1> HIDE DEF p, n
<1>5. Verdict'
  BY <1>0, <1>1, ClientKeepsVerdict
<1>6. ASSUME NEW k \in {"OK", "ERR"}, Answered(k)
      PROVE  \/ /\ outbox' = <<>>
                /\ client'.state = IF k = "OK" THEN "connected" ELSE "refused"
             \/ Answered(k)'
  <2>1. CASE outbox = <<Packet(k, n)>>
    BY <1>1, <1>2, <1>3, <2>1
  <2>2. CASE outbox = <<Packet("AUTH_MORE", n), Packet(k, n + 1)>>
    <3>1. outbox' = <<Packet(k, n + 1)>> /\ client'.next = n + 1 /\ client'.state = client.state
      BY <1>1, <1>4, <2>2
    <3>2. QED  BY <1>6, <3>1 DEF Answered
  <2>3. QED  BY <1>6, <2>1, <2>2 DEF Answered, n
<1>7. CASE phase = "response"
  <2>1. client.next = 0 /\ Len(Input) = 0 /\ outbox = <<Packet("GREETING", 0)>>
    BY <1>0, <1>7 DEF Conversation, AwaitsResponse
  <2>2. client'.state = "greeted" /\ client'.next = 1 /\ outbox' = <<>>
    BY <1>1, <1>3, <2>1 DEF n
  <2>3. Conversation'
    BY <1>1, <1>7, <2>1, <2>2 DEF Conversation, AwaitsResponse
  <2>4. QED  BY <1>1, <1>5, <2>3 DEF Inv
<1>8. CASE phase = "hello"
  BY <1>0, <1>8 DEF Conversation, AwaitsHello
<1>9. CASE phase = "tls_response"
  <2>1. seq = client.next - 1 /\ Len(Input) = 0 /\ outbox = <<Packet("TLS", 0)>>
    BY <1>0, <1>9 DEF Conversation, AwaitsTlsResponse
  <2>2. client'.state = "secured" /\ client'.next = client.next /\ outbox' = <<>>
    BY <1>1, <1>3, <2>1 DEF n
  <2>3. Conversation'
    BY <1>1, <1>9, <2>1, <2>2 DEF Conversation, AwaitsTlsResponse
  <2>4. QED  BY <1>1, <1>5, <2>3 DEF Inv
<1>10. CASE phase = "auth_switch"
  <2>1. /\ "PLUGIN_AUTH" \in client.caps /\ seq = n - 1 /\ Len(Input) = 0
        /\ outbox = <<Packet("AUTH_SWITCH", n)>>
    BY <1>0, <1>10 DEF Conversation, AwaitsAuthData, n
  <2>2. client'.state = "switching" /\ client'.next = n + 1 /\ outbox' = <<>>
    BY <1>1, <1>2, <1>3, <2>1
  <2>3. seq' = client'.next - 2
    BY <1>1, <1>2, <2>1, <2>2
  <2>4. Conversation'
    BY <1>1, <1>10, <2>1, <2>2, <2>3 DEF Conversation, AwaitsAuthData
  <2>5. QED  BY <1>1, <1>5, <2>4 DEF Inv
<1>11. CASE phase = "command"
  <2>1. Answered("OK")
    BY <1>0, <1>11 DEF Conversation, Connected
  <2>2. Connected'
    BY <1>6, <2>1 DEF Connected
  <2>3. Conversation'
    BY <1>1, <1>11, <2>2 DEF Conversation
  <2>4. QED  BY <1>1, <1>5, <2>3 DEF Inv
<1>12. CASE phase = "failed"
  <2>1. ASSUME NoOkTold PROVE NoOkTold'
    <3>1. /\ 1 \in DOMAIN outbox /\ p = outbox[1]
          /\ \A i \in DOMAIN outbox' : /\ i + 1 \in DOMAIN outbox /\ i + 1 # 1
                                       /\ outbox'[i] = outbox[i + 1]
      BY <1>0, <1>1 DEF TypeOK, p
    <3>2. p.kind # "OK" /\ client.state # "connected"
      BY <2>1, <3>1 DEF NoOkTold
    <3>3. \A i \in DOMAIN outbox' : outbox'[i].kind # "OK"
      BY <2>1, <3>1 DEF NoOkTold
    <3>4. ASSUME NEW i \in DOMAIN outbox', NEW j \in DOMAIN outbox',
                 outbox'[i].kind = "ERR", outbox'[j].kind = "ERR"
          PROVE  i = j /\ client'.state # "refused"
      <4>1. i + 1 = j + 1 /\ client.state # "refused"
        BY <2>1, <3>1, <3>4 DEF NoOkTold
      <4>2. p.kind # "ERR"
        BY <2>1, <3>1, <3>4 DEF NoOkTold
      <4>3. i \in Nat /\ j \in Nat
        BY <1>0, <1>1 DEF TypeOK
      <4>4. QED  BY <1>1, <4>1, <4>2, <4>3
    <3>5. QED  BY <1>1, <3>2, <3>3, <3>4 DEF NoOkTold
  <2>2. CASE cause = "backend"
    <3>1. Connected \/ Refused \/ Unanswered
      BY <1>0, <1>12, <2>2 DEF Conversation, Failed
    <3>2. (Connected \/ Refused \/ Unanswered)'
      <4>1. CASE Answered("OK")
        BY <1>6, <4>1 DEF Connected
      <4>2. CASE Answered("ERR")
        BY <1>6, <4>2 DEF Refused
      <4>3. CASE client.state \in {"responded", "switched"} /\ outbox = <<Packet("AUTH_MORE", n)>>
        BY <1>1, <1>2, <1>3, <4>3 DEF Unanswered
      <4>4. QED  BY <1>0, <3>1, <4>1, <4>2, <4>3 DEF Connected, Refused, Unanswered, n
    <3>3. Conversation'
      BY <1>1, <1>12, <2>2, <3>2 DEF Conversation, Failed
    <3>4. QED  BY <1>1, <1>5, <3>3 DEF Inv
  <2>3. CASE cause # "backend" /\ ~honest
    <3>1. NoOkTold'
      BY <1>0, <1>12, <2>1, <2>3 DEF Conversation, Failed
    <3>2. Conversation'
      BY <1>1, <1>12, <2>3, <3>1 DEF Conversation, Failed
    <3>3. QED  BY <1>1, <1>5, <3>2 DEF Inv
  <2>4. CASE honest /\ cause = "refused"
    <3>1. Answered("ERR") /\ NoOkTold'
      BY <1>0, <1>12, <2>1, <2>4 DEF Conversation, Failed, Refused
    <3>2. Refused'
      BY <1>6, <3>1 DEF Refused
    <3>3. Conversation'
      BY <1>1, <1>12, <2>4, <3>1, <3>2 DEF Conversation, Failed
    <3>4. QED  BY <1>1, <1>5, <3>3 DEF Inv
  <2>5. CASE honest /\ cause \notin {"refused", "backend"}
    <3>1. Abandoned /\ cause \notin {"sequence", "tls"} /\ NoOkTold'
      BY <1>0, <1>12, <2>1, <2>5 DEF Conversation, Failed
    <3>2. Abandoned'
      <4>1. CASE n = 0 /\ outbox = <<Packet("GREETING", 0)>>
        BY <1>1, <1>3, <4>1 DEF Abandoned
      <4>2. CASE outbox = <<Packet("TLS", 0)>>
        BY <1>1, <1>3, <4>2 DEF Abandoned
      <4>3. CASE "PLUGIN_AUTH" \in client.caps /\ outbox = <<Packet("AUTH_SWITCH", n)>>
        BY <1>1, <1>2, <1>3, <4>3 DEF Abandoned
      <4>4. QED  BY <1>0, <3>1, <4>1, <4>2, <4>3 DEF Abandoned, n
    <3>3. Conversation'
      BY <1>1, <1>12, <2>5, <3>1, <3>2 DEF Conversation, Failed
    <3>4. QED  BY <1>1, <1>5, <3>3 DEF Inv
  <2>6. QED  BY <1>0, <2>2, <2>3, <2>4, <2>5
<1>13. QED  BY <1>0, <1>7, <1>8, <1>9, <1>10, <1>11, <1>12 DEF TypeOK

-----------------------------------------------------------------------------
(* The connection phase's promises.                                        *)

LEMMA InitInv == Init => Inv
<1> SUFFICES ASSUME Init PROVE Inv
  OBVIOUS
<1>1. Packet("GREETING", 0) \in ServerPacket
  BY PacketType
<1>2. outbox \in Seq(ServerPacket)
  BY <1>1, FewPackets DEF Init
<1>3. TypeOK
  <2>1. buffer \in Seq(ClientPacket) /\ socket \in Seq(ClientPacket)
    BY EmptySeq, Zenon DEF Init
  <2>2. /\ client.state = "waiting" /\ client.next = 0 /\ client.caps = {}
        /\ client = [state |-> "waiting", next |-> 0, caps |-> {}]
    BY DEF Init
  <2>3. /\ tls_offered \in BOOLEAN /\ auth_timeout \in BOOLEAN /\ honest \in BOOLEAN
        /\ authenticated \in BOOLEAN /\ init_called \in BOOLEAN
        /\ phase = "response" /\ seq = 0 /\ handshake \in HandshakeResponse
    BY NoHandshakeType, Zenon DEF Init
  <2>4. client \in [state : {"waiting", "greeted", "requested_tls", "tls", "secured", "responded",
                            "switching", "switched", "confused", "connected", "refused"},
                   next : Nat, caps : SUBSET {"PLUGIN_AUTH", "SECURE_CONNECTION"}]
    BY <2>2
  <2>5. QED  BY <1>2, <2>1, <2>3, <2>4 DEF TypeOK
<1>4. Len(Input) = 0
  BY ShortConcat DEF Init, Input
<1>5. Conversation
  BY <1>4 DEF Init, Conversation, AwaitsResponse
<1>6. Verdict
  BY DEF Init, Verdict
<1>7. QED  BY <1>3, <1>5, <1>6 DEF Inv

LEMMA StepInv == Inv /\ [Next]_vars => Inv'
<1> SUFFICES ASSUME Inv, [Next]_vars PROVE Inv'
  OBVIOUS
<1>1. CASE ClientActs
  BY <1>1, SslRequestStep, TlsHelloStep, SendResponseStep, SendAuthDataStep, ClientReadsStep
     DEF ClientActs
<1>2. CASE ClientCloses
  BY <1>2, ClientClosesStep
<1>3. CASE Serve
  BY <1>3, ReadAheadStep, ReadResponseStep, AcceptTlsStep, ReadTlsResponseStep,
     ReadAuthSwitchStep, GivingUpStep DEF Serve
<1>4. CASE AuthTimeout
  BY <1>4, GivingUpStep
<1>5. CASE UNCHANGED vars
  <2>1. UNCHANGED <<options, phase, cause, reader, session, outbox, client, honest>>
    BY <1>5 DEF vars
  <2>2. TypeOK'
    BY <2>1 DEF Inv, TypeOK, options, reader, session, callbacks
  <2>3. Input' = Input
    BY <2>1 DEF Input, reader
  <2>4. Conversation'
    BY <2>1, <2>3 DEF Inv, Conversation, AwaitsResponse, AwaitsHello, AwaitsTlsResponse,
       AwaitsAuthData, Connected, Failed, Refused, Abandoned, Unanswered, Answered, NoOkTold, Sent, IsHello,
       options, session
  <2>5. Verdict'
    BY <2>1, ClientKeepsVerdict DEF Inv, reader
  <2>6. QED  BY <2>2, <2>4, <2>5 DEF Inv
<1>6. QED  BY <1>1, <1>2, <1>3, <1>4, <1>5 DEF Next

(* Server and client meet only in the ways the phases allow, whatever the  *)
(* capabilities, the responses and the frames of a packet.                 *)
THEOREM ConversationHolds == Spec => []Inv
<1>1. QED  BY InitInv, StepInv, PTL DEF Spec

(* No callback before authenticate said yes, and no command phase.         *)
THEOREM AuthenticationComesFirst == Spec => []AuthenticatedFirst
<1>1. Inv => AuthenticatedFirst
  BY DEF Inv, Verdict, AuthenticatedFirst
<1>2. QED  BY <1>1, ConversationHolds, PTL

(* A client that keeps the rules can place every packet it is sent.        *)
THEOREM ClientsFollow == Spec => []ClientFollows
<1>1. Inv => ClientFollows
  BY DEF Inv, TypeOK, Conversation, AwaitsResponse, AwaitsHello, AwaitsTlsResponse, AwaitsAuthData,
         Connected, Failed, Refused, Abandoned, Unanswered, Answered,
         ClientFollows
<1>2. QED  BY <1>1, ConversationHolds, PTL

(* ... and is not turned away for a sequence id, or at the switch to TLS.  *)
THEOREM HonestClientsAreNotRefused == Spec => []HonestNotRefused
<1>1. Inv => HonestNotRefused
  BY DEF Inv, TypeOK, Conversation, Failed, Verdict, HonestNotRefused
<1>2. QED  BY <1>1, ConversationHolds, PTL

(* A verdict on its way is the only one, and none has been read.           *)
LEMMA AnsweredOnce ==
  ASSUME NEW v \in {"OK", "ERR"}, Answered(v)
  PROVE  /\ client.state \notin {"connected", "refused"}
         /\ \A i, j \in DOMAIN outbox :
              outbox[i].kind \in {"OK", "ERR"} /\ outbox[j].kind \in {"OK", "ERR"} => i = j
         /\ Told(v) /\ \A k \in {"OK", "ERR"} : Told(k) => k = v
<1> DEFINE n == client.next
<1>1. CASE outbox = <<Packet(v, n)>>
  <2>1. outbox[1].kind = v /\ DOMAIN outbox = 1 .. 1
    BY <1>1 DEF Packet
  <2>2. QED  BY <2>1 DEF Answered, Told
<1>2. CASE outbox = <<Packet("AUTH_MORE", n), Packet(v, n + 1)>>
  <2>1. outbox[1].kind = "AUTH_MORE" /\ outbox[2].kind = v /\ DOMAIN outbox = 1 .. 2
    BY <1>2 DEF Packet
  <2>2. QED  BY <2>1 DEF Answered, Told
<1>3. QED  BY <1>1, <1>2 DEF Answered

(* At most one verdict is given, the command phase comes with OK, and OK   *)
(* comes with it unless on_init failed after it was called.                *)
THEOREM VerdictsAreUnique == Spec => []OneVerdict
<1>1. ASSUME Inv PROVE OneVerdict
  <2>0. TypeOK /\ Conversation /\ Verdict
    BY <1>1 DEF Inv
  <2>1. CASE phase = "command"
    <3>1. CASE Answered("OK")
      BY <2>1, <3>1, AnsweredOnce DEF OneVerdict
    <3>2. CASE client.state = "connected" /\ outbox = <<>>
      BY <2>1, <3>2 DEF Told, OneVerdict
    <3>3. QED  BY <2>0, <2>1, <3>1, <3>2 DEF Conversation, Connected
  <2>2. CASE phase = "failed" /\ cause = "backend"
    <3>0. init_called /\ (Connected \/ Refused \/ Unanswered)
      BY <2>0, <2>2 DEF Conversation, Failed, Verdict
    <3>1. CASE Answered("OK") \/ Answered("ERR")
      BY <2>2, <3>0, <3>1, AnsweredOnce DEF OneVerdict
    <3>2. CASE outbox = <<>>
      BY <2>2, <3>0, <3>2 DEF Told, OneVerdict
    <3>3. CASE client.state \in {"responded", "switched"} /\ outbox = <<Packet("AUTH_MORE", client.next)>>
      BY <2>2, <3>3 DEF Told, OneVerdict, Packet
    <3>4. QED  BY <3>0, <3>1, <3>2, <3>3 DEF Connected, Refused, Unanswered
  <2>3. CASE NoOkTold /\ phase # "command"
    BY <2>3 DEF NoOkTold, Told, OneVerdict
  <2>4. CASE Waiting
    BY <2>0, <2>3, <2>4, WaitingClient DEF Waiting
  <2>5. phase = "failed" /\ cause # "backend" => NoOkTold
    BY <2>0 DEF Conversation, Failed
  <2>6. QED  BY <2>0, <2>1, <2>2, <2>3, <2>4, <2>5 DEF TypeOK, Waiting
<1>2. QED  BY <1>1, ConversationHolds, PTL

(* An honest client whose connection fails is told ERR, unless it closed,  *)
(* let auth_timeout expire, lacks CLIENT_PROTOCOL_41 or its on_init failed.*)
THEOREM RefusalsAreTold == Spec => []RefusalsTold
<1>1. ASSUME Inv PROVE RefusalsTold
  <2>0. Conversation /\ Verdict
    BY <1>1 DEF Inv
  <2>1. ASSUME phase = "failed", honest, cause = "refused"
        PROVE  Told("ERR") \/ client.state = "refused"
    BY <2>0, <2>1, AnsweredOnce DEF Conversation, Failed, Refused
  <2>2. ASSUME phase = "failed", honest, cause # "refused"
        PROVE  /\ cause \in {"closed", "timeout", "protocol", "backend"}
               /\ cause = "closed" => client_closed
               /\ cause = "timeout" => auth_timeout
               /\ cause = "protocol" => ~handshake.protocol41
               /\ cause = "backend" => init_called
    BY <2>0, <2>2 DEF Conversation, Failed, Verdict
  <2>3. QED  BY <2>1, <2>2 DEF RefusalsTold
<1>2. QED  BY <1>1, ConversationHolds, PTL

=============================================================================
