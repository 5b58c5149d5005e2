------------------------------ MODULE Handshake ------------------------------
(***************************************************************************)
(* The connection phase: init_before_ssl_with_config_and_options, the      *)
(* switch to TLS of secure_run_with_options, and init_after_ssl (lib.rs,   *)
(* tls.rs), up to the first command.  Server and client take turns over a  *)
(* stream the client may run ahead on: it sends its TLS hello right behind *)
(* the SSLRequest, and the server's PacketReader may already hold it in    *)
(* its buffer when the stream is handed to the TLS acceptor.               *)
(*                                                                         *)
(* A packet is its kind, the sequence ids of its first and last frame, and *)
(* what init_after_ssl looks at.  The TLS records of the acceptor are one  *)
(* "hello".  The client continues the ids of the packets it reads, as long *)
(* as it is honest; otherwise it may skew one or send a malformed packet.  *)
(* What the server writes and flushes arrives.                             *)
(***************************************************************************)
EXTENDS Integers, SequencesExt

CONSTANTS
  ServerCapabilities,    \* the capabilities advertised
  Responses,             \* the handshake responses clients send
  ExpectedPlugin,        \* what auth_plugin_for_username answers
  RejectsWithoutDb,      \* the values of reject_connection_on_dbname_absence
  MaxFrames              \* bound: frames of one client packet

Plugin == {"", "mysql_native_password", "caching_sha2_password"}
AuthData == {"empty", "zero", "digest", "other"}   \* zero: [0]; digest: 32 bytes

HandshakeResponse ==
  [protocol41 : BOOLEAN, caps : SUBSET {"PLUGIN_AUTH", "SECURE_CONNECTION"},
   utf8 : BOOLEAN, plugin : Plugin, auth : AuthData, db : {"none", "named", "badutf8"}]

ASSUME HandshakeAssumption ==
  /\ Responses \subseteq HandshakeResponse
  /\ ExpectedPlugin \subseteq Plugin
  /\ RejectsWithoutDb \subseteq BOOLEAN
  /\ MaxFrames \in Nat \ {0}

VARIABLES
  tls_offered,    \* tls_conf is Some, CLIENT_SSL is advertised; fixed
  auth_timeout,   \* opts.auth_timeout is Some; fixed
  phase,          \* what the server awaits, or "command" or "failed"
  cause,          \* why it failed, "" before
  buffer,         \* the PacketReader's buffered bytes
  socket,         \* client packets not read yet
  client_closed,  \* the client closed its side
  seq,            \* the last sequence id init_* read
  handshake,      \* the parsed response, once there is one
  expected,       \* auth_plugin_expect
  authenticated,  \* authenticate returned true
  init_called,    \* on_init was called
  outbox,         \* server packets not read yet
  client,         \* the client's state and the next sequence id it expects
  honest          \* history: the client broke no rule so far

options == <<tls_offered, auth_timeout>>
reader == <<buffer, socket, client_closed>>
callbacks == <<authenticated, init_called>>
session == <<seq, handshake, expected, callbacks>>
vars == <<options, phase, cause, reader, session, outbox, client, honest>>

NoHandshake == [protocol41 |-> FALSE, caps |-> {}, utf8 |-> FALSE, plugin |-> "",
                auth |-> "empty", db |-> "none"]

Packet(kind, s) == [kind |-> kind, seq |-> s]

Init ==
  /\ tls_offered \in BOOLEAN /\ auth_timeout \in BOOLEAN
  /\ phase = "response" /\ cause = ""
  /\ buffer = <<>> /\ socket = <<>> /\ client_closed = FALSE
  /\ seq = 0
  /\ handshake = NoHandshake /\ expected = ""
  /\ authenticated = FALSE /\ init_called = FALSE
  /\ outbox = <<Packet("GREETING", 0)>>
  /\ client = [state |-> "waiting", next |-> 0, caps |-> {}]
  /\ honest = TRUE

-----------------------------------------------------------------------------
(* The client.                                                             *)

ClientSends(kind, skew, frames, wellformed, body, state) ==
  LET first == client.next + skew
  IN  /\ ~client_closed
      /\ socket' = Append(socket, [kind |-> kind, first |-> first, last |-> first + frames - 1,
                                   wellformed |-> wellformed, body |-> body])
      /\ client' = [client EXCEPT !.state = state, !.next = first + frames, !.caps = body.caps]
      /\ honest' = (honest /\ skew = 0 /\ wellformed /\ (kind = "ssl_request" => tls_offered))
      /\ UNCHANGED <<options, phase, cause, buffer, client_closed, session, outbox>>

SslRequest ==
  /\ client.state = "greeted"
  /\ \E skew \in {0, 1}, wellformed \in BOOLEAN :
       ClientSends("ssl_request", skew, 1, wellformed, NoHandshake, "requested_tls")

(* The TLS handshake has no packet header; a bad one fails the acceptor.   *)
TlsHello ==
  /\ client.state = "requested_tls" /\ tls_offered /\ ~client_closed
  /\ \E wellformed \in BOOLEAN :
       /\ socket' = Append(socket, [kind |-> "hello", first |-> 0, last |-> 0,
                                    wellformed |-> wellformed, body |-> NoHandshake])
       /\ honest' = (honest /\ wellformed)
  /\ client' = [client EXCEPT !.state = "tls"]
  /\ UNCHANGED <<options, phase, cause, buffer, client_closed, session, outbox>>

SendResponse ==
  /\ client.state \in {"greeted", "secured"} \/ (client.state = "requested_tls" /\ ~tls_offered)
  /\ \E r \in Responses, skew \in {0, 1}, wellformed \in BOOLEAN, frames \in 1 .. MaxFrames :
       ClientSends("response", skew, frames, wellformed, r, "responded")

SendAuthData ==
  /\ client.state = "switching"
  /\ \E data \in AuthData, skew \in {0, 1}, frames \in 1 .. MaxFrames :
       ClientSends("auth_data", skew, frames, TRUE,
                   [NoHandshake EXCEPT !.auth = data, !.caps = client.caps], "switched")

ClientReads ==
  /\ outbox # <<>>
  /\ LET p == Head(outbox)
         state ==
           IF p.kind = "TLS" THEN "secured"                       \* no packet header
           ELSE IF p.seq # client.next THEN "confused"
           ELSE CASE p.kind = "GREETING" -> "greeted"
                  [] p.kind = "AUTH_SWITCH" ->
                       IF "PLUGIN_AUTH" \in client.caps THEN "switching" ELSE "confused"
                  [] p.kind = "AUTH_MORE" -> client.state
                  [] p.kind = "OK" -> "connected"
                  [] p.kind = "ERR" -> "refused"
     IN  client' = [client EXCEPT !.state = state,
                                  !.next = IF p.kind = "TLS" THEN @ ELSE p.seq + 1]
  /\ outbox' = Tail(outbox)
  /\ UNCHANGED <<options, phase, cause, reader, session, honest>>

ClientCloses ==
  /\ ~client_closed
  /\ client_closed' = TRUE
  /\ UNCHANGED <<options, phase, cause, buffer, socket, session, outbox, client, honest>>

-----------------------------------------------------------------------------
(* The server.                                                             *)

Waiting == phase \in {"response", "hello", "tls_response", "auth_switch"}

(* One read of the stream may bring several packets into the buffer.       *)
ReadAhead ==
  /\ Waiting /\ socket # <<>>
  /\ buffer' = Append(buffer, Head(socket))
  /\ socket' = Tail(socket)
  /\ UNCHANGED <<options, phase, cause, client_closed, session, outbox, client, honest>>

Reads(state) ==
  /\ phase = state /\ buffer # <<>>
  /\ UNCHANGED <<options, socket, client_closed, client, honest>>

Fails(why) == phase' = "failed" /\ cause' = why

FailsWithERR_silent(s) == Fails("refused") /\ UNCHANGED outbox
FailsWithERR(s) ==
  /\ Fails("refused")
  /\ outbox' = Append(outbox, Packet("ERR", s))

(* From the plugin's verdict on: the digest and its answer, authenticate,  *)
(* the initial database, OK.  s is the id of the server's next packet.     *)
AfterMoreData_sameId(s, more) == s
AfterMoreData(s, more) == IF more THEN s + 1 ELSE s

Admitted_anyway(plugin, accepted) == plugin = "" \/ accepted
Admitted(plugin, accepted) == accepted           \* AsyncMysqlShim::authenticate

(* What the initial database is answered: by on_init, through its          *)
(* InitWriter, where "pending" is no answer, or by the server; "none" when *)
(* there is nothing to answer.                                             *)
InitAnswers(db) ==
  CASE db = "named" -> {"OK", "ERR", "pending"}
    [] db = "badutf8" -> {"ERR"}
    [] db = "none" -> {IF rejects THEN "ERR" ELSE "none" : rejects \in RejectsWithoutDb}

(* on_init may return an error whatever it has answered (the ? is taken    *)
(* before the answer is looked at), and to return without one is an error. *)
InitFails(db, answer) ==
  IF db # "named" THEN {FALSE} ELSE IF answer = "pending" THEN {TRUE} ELSE BOOLEAN

NeedsDefaultOk_always(answer) == answer \in {"OK", "none"}
NeedsDefaultOk(answer) == answer = "none"

Authenticates(r, plugin, auth, s) ==
  LET sha2 == plugin = "caching_sha2_password"
      data == IF sha2 /\ auth = "zero" THEN "empty" ELSE auth
      more == sha2 /\ data = "digest"
      n == AfterMoreData(s, more)
  IN  IF sha2 /\ data \in {"zero", "other"}
        THEN FailsWithERR(s) /\ UNCHANGED callbacks
      ELSE \E accepted \in BOOLEAN :
        /\ authenticated' = accepted
        /\ IF ~Admitted(plugin, accepted) THEN FailsWithERR(s) /\ UNCHANGED init_called
           ELSE \E answer \in InitAnswers(r.db) : \E fails \in InitFails(r.db, answer) :
             LET told == IF answer \in {"OK", "ERR"} THEN <<answer>> ELSE <<>>
                 verdicts == told \o (IF NeedsDefaultOk(answer) THEN <<"OK">> ELSE <<>>)
                 packets == (IF more THEN <<Packet("AUTH_MORE", s)>> ELSE <<>>)
                              \o [i \in DOMAIN verdicts |-> Packet(verdicts[i], n + i - 1)]
             IN  /\ init_called' = (r.db = "named")
                 /\ IF fails      \* nothing is flushed: any of it may have left
                      THEN Fails("backend") /\ outbox' \in {outbox \o sent : sent \in Prefixes(packets)}
                    ELSE /\ outbox' = outbox \o packets
                         /\ IF answer = "ERR" THEN Fails("refused")
                                              ELSE phase' = "command" /\ UNCHANGED cause

(* init_after_ssl up to the plugin: protocol, collation, plugin.           *)
SwitchNeeded(negotiated, plugin, r) == negotiated /\ plugin # "" /\ r.plugin # plugin

CannotAuthenticate(caps, plugin) ==
  /\ "PLUGIN_AUTH" \notin caps
  /\ \/ "SECURE_CONNECTION" \notin caps
     \/ plugin \notin {"", "mysql_native_password"}

Admits(r, s) ==
  LET caps == ServerCapabilities \cap r.caps
  IN  /\ seq' = s
      /\ handshake' = r
      /\ IF ~r.protocol41 THEN Fails("protocol") /\ UNCHANGED <<outbox, expected, callbacks>>
         ELSE IF ~r.utf8 THEN FailsWithERR(s + 1) /\ UNCHANGED <<expected, callbacks>>
         ELSE \E plugin \in ExpectedPlugin :
           /\ expected' = plugin
           /\ IF CannotAuthenticate(caps, plugin)
                THEN FailsWithERR(s + 1) /\ UNCHANGED callbacks
              ELSE IF SwitchNeeded("PLUGIN_AUTH" \in caps, plugin, r)
                THEN /\ phase' = "auth_switch"
                     /\ outbox' = Append(outbox, Packet("AUTH_SWITCH", s + 1))
                     /\ UNCHANGED <<cause, callbacks>>
              ELSE Authenticates(r, plugin, r.auth, s + 1)

(* The PacketReader becomes the acceptor's input; its poll_read hands out  *)
(* what it has buffered first.                                             *)
Handover_dropped(rest) == <<>>
Handover(rest) == rest

(* The first packet: a response, or an SSLRequest.  A server without TLS   *)
(* that is asked for it awaits the response all the same (run_with_options *)
(* ignores the flag init_before_ssl returns).                              *)
ReadResponse ==
  /\ Reads("response")
  /\ LET p == Head(buffer)
         rest == Tail(buffer)
     IN  IF p.first # 1
           THEN /\ Fails("sequence") /\ buffer' = rest
                /\ UNCHANGED <<session, outbox>>
         ELSE IF ~p.wellformed
           THEN /\ FailsWithERR(p.last + 1) /\ buffer' = rest
                /\ UNCHANGED <<session>>
         ELSE IF p.kind = "ssl_request"
           THEN /\ phase' = (IF tls_offered THEN "hello" ELSE "tls_response")
                /\ seq' = p.last /\ buffer' = Handover(rest)
                /\ UNCHANGED <<cause, handshake, expected, callbacks, outbox>>
         ELSE Admits(p.body, p.last) /\ buffer' = rest

(* switch_to_tls: one read of the acceptor stands for the TLS handshake.   *)
AcceptTls ==
  /\ Reads("hello")
  /\ buffer' = Tail(buffer)
  /\ IF Head(buffer).kind = "hello" /\ Head(buffer).wellformed
       THEN /\ phase' = "tls_response" /\ outbox' = Append(outbox, Packet("TLS", 0))
            /\ UNCHANGED cause
       ELSE Fails("tls") /\ UNCHANGED outbox
  /\ UNCHANGED <<session>>

SeqAfterTls_restarted == 1
SeqAfterTls == seq + 1

(* The response after an SSLRequest.                                       *)
ReadTlsResponse ==
  /\ Reads("tls_response")
  /\ buffer' = Tail(buffer)
  /\ LET p == Head(buffer)
     IN  IF p.first # SeqAfterTls
           THEN Fails("sequence") /\ UNCHANGED <<session, outbox>>
         ELSE IF ~p.wellformed
           THEN FailsWithERR(p.last + 1) /\ UNCHANGED <<session>>
         ELSE Admits(p.body, p.last)

ReadAuthSwitch ==
  /\ Reads("auth_switch")
  /\ buffer' = Tail(buffer)
  /\ LET p == Head(buffer)
     IN  IF p.first # seq + 2
           THEN Fails("sequence") /\ UNCHANGED <<seq, callbacks, outbox>>
           ELSE seq' = p.last /\ Authenticates(handshake, expected, p.body.auth, p.last + 1)
  /\ UNCHANGED <<handshake, expected>>

(* The peer closed its side.                                               *)
EndOfStream ==
  /\ Waiting /\ buffer = <<>> /\ socket = <<>> /\ client_closed
  /\ Fails("closed")
  /\ UNCHANGED <<options, reader, session, outbox, client, honest>>

(* auth_timeout expires while a packet or the TLS handshake is awaited,    *)
(* perhaps with the client's packet on its way.                            *)
TimerArmed_packetsOnly == auth_timeout /\ phase # "hello"
TimerArmed == auth_timeout

AuthTimeout ==
  /\ TimerArmed
  /\ Waiting /\ buffer = <<>>
  /\ Fails("timeout")
  /\ UNCHANGED <<options, reader, session, outbox, client, honest>>

Serve == ReadAhead \/ ReadResponse \/ AcceptTls \/ ReadTlsResponse \/ ReadAuthSwitch \/ EndOfStream

ClientActs == SslRequest \/ TlsHello \/ SendResponse \/ SendAuthData \/ ClientReads

Next == ClientActs \/ ClientCloses \/ Serve \/ AuthTimeout

Spec == Init /\ [][Next]_vars

(* The runtime polls the task while there is input, and its timers fire.   *)
Fairness == WF_vars(Serve) /\ WF_vars(AuthTimeout)

FairSpec == Spec /\ Fairness

-----------------------------------------------------------------------------
Told(kind) == \E i \in DOMAIN outbox : outbox[i].kind = kind

(* The command phase is entered only when the backend accepted the client, *)
(* and no other callback runs before that.                                 *)
AuthenticatedFirst == (phase = "command" \/ init_called) => authenticated

(* A client that keeps the rules is never sent a packet it cannot place:   *)
(* the sequence ids run on through the SSLRequest, the auth switch, the    *)
(* fast authentication answer and fragmented packets, and a client without *)
(* PLUGIN_AUTH is never asked to switch.                                   *)
ClientFollows == honest => client.state # "confused"

(* ... and none of its packets is refused for a sequence id or as TLS.     *)
HonestNotRefused == honest => cause \notin {"sequence", "tls"}

(* A client is given at most one verdict, OK or ERR, over the whole phase. *)
(* Nobody enters the command phase without OK, and who is told OK is       *)
(* served, unless on_init failed after it was called: init_after_ssl hands *)
(* on its error without a look at what it has answered.                    *)
OneVerdict ==
  /\ phase = "command" => Told("OK") \/ client.state = "connected"
  /\ Told("OK") \/ client.state = "connected"
       => phase = "command" \/ (cause = "backend" /\ init_called)
  /\ \A i, j \in DOMAIN outbox :
       outbox[i].kind \in {"OK", "ERR"} /\ outbox[j].kind \in {"OK", "ERR"}
         => i = j /\ client.state \notin {"connected", "refused"}

(* An honest client whose connection ends in this phase is told ERR; the   *)
(* only ones dropped without a verdict of the server's own are a client    *)
(* that closed, one whose auth_timeout expired, one without                *)
(* CLIENT_PROTOCOL_41, and one whose on_init failed or did not answer.     *)
RefusalsTold ==
  phase = "failed" /\ honest =>
    \/ Told("ERR") \/ client.state = "refused"
    \/ cause = "closed" /\ client_closed
    \/ cause = "timeout" /\ auth_timeout
    \/ cause = "protocol" /\ ~handshake.protocol41
    \/ cause = "backend" /\ init_called

(* With auth_timeout every connection phase ends, whatever the client does *)
(* or fails to do, TLS included.                                           *)
HandshakeEnds == auth_timeout => <>(phase \in {"command", "failed"})

(* An honest client that takes its turns is connected or refused, even if  *)
(* its packets were read ahead of the switch to TLS.                       *)
HonestClientServed ==
  WF_vars(ClientActs) /\ [](honest /\ ~client_closed)
    => <>(phase \in {"command", "failed"})
=============================================================================
