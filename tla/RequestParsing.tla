-------------------------- MODULE RequestParsing --------------------------
(***************************************************************************)
(* From the payload of a packet to what the server does with it:           *)
(* client_handshake for the responses of the connection phase, parse for   *)
(* commands (commands.rs), and where run() takes a command's text (lib.rs).*)
(* Payloads are bytes.  A client sends a request in any dialect its        *)
(* capabilities select, or one that was cut short, lengthened or altered.  *)
(*                                                                         *)
(* Integers a parser only hands on stay the bytes they are.  A capability  *)
(* is a byte of the capability field and a bit of it.                      *)
(***************************************************************************)
EXTENDS Integers, SequencesExt

CONSTANTS
  Filler,        \* reserved bytes of a response: 23 in the code
  MaxLength,     \* bound: lengths above it are all one
  Responses,     \* what clients mean to send: [caps, user, auth, db, plugin]
  Commands,      \* and [sends, means]: bytes and what they should be taken for
  Trailing,      \* bytes behind a response, such as connection attributes
  AlteredTo      \* bytes an altered payload may hold instead

ASSUME ParsingAssumption == Filler \in Nat /\ MaxLength \in Nat /\ AlteredTo \subseteq 0 .. 255

VARIABLES
  process_use,   \* process_use_statement_on_query, fixed
  stage,         \* "plain", "tls", "commands" or "closed"
  packet,        \* the payload just parsed
  outcome,       \* what the server made of it
  meant          \* what the client meant, or <<>>

vars == <<process_use, stage, packet, outcome, meant>>

From(s, n) == SubSeq(s, n, Len(s))
Malformed == [kind |-> "malformed"]
NoOutcome == [kind |-> "none"]

-----------------------------------------------------------------------------
(* Capabilities.                                                           *)

CapabilityBit ==
  [CONNECT_WITH_DB |-> <<1, 8>>, PROTOCOL_41 |-> <<2, 2>>, SSL |-> <<2, 8>>,
   SECURE_CONNECTION |-> <<2, 128>>, PLUGIN_AUTH |-> <<3, 8>>, LENENC_CLIENT_DATA |-> <<3, 32>>]

Capabilities(bytes) ==
  {c \in DOMAIN CapabilityBit :
     LET at == CapabilityBit[c][1]
         bit == CapabilityBit[c][2]
     IN  at <= Len(bytes) /\ (bytes[at] \div bit) % 2 = 1}

-----------------------------------------------------------------------------
(* Parsers: what is left, whether all went well, and the bytes just taken. *)

Start(i) == [ok |-> TRUE, left |-> i, value |-> <<>>]
Failed(p) == [p EXCEPT !.ok = FALSE, !.value = <<>>]

Take(p, n) ==
  IF p.ok /\ Len(p.left) >= n
    THEN [ok |-> TRUE, left |-> From(p.left, n + 1), value |-> SubSeq(p.left, 1, n)]
    ELSE Failed(p)

(* take_until(0) and the tag.                                              *)
UntilNul(p) ==
  IF p.ok /\ 0 \in ToSet(p.left)
    THEN LET n == SelectInSeq(p.left, LAMBDA b : b = 0)
         IN  [Take(p, n) EXCEPT !.value = SubSeq(@, 1, n - 1)]
    ELSE Failed(p)

If(present, p, parsed) == IF present THEN parsed ELSE [p EXCEPT !.value = <<>>]

Number(bytes) ==
  FoldRight(LAMBDA b, n : IF n * 256 + b > MaxLength THEN MaxLength ELSE n * 256 + b, bytes, 0)

LengthBytes_wide == [b \in {252, 253, 254} |-> CASE b = 252 -> 2 [] b = 253 -> 3 [] b = 254 -> 4]
LengthBytes == [b \in {252, 253, 254} |-> CASE b = 252 -> 2 [] b = 253 -> 3 [] b = 254 -> 8]

ReadLengthEncodedNumber(p) ==
  LET first == Take(p, 1)
  IN  IF ~first.ok \/ first.value[1] \in {251, 255} THEN Failed(p)
      ELSE IF first.value[1] \in DOMAIN LengthBytes THEN Take(first, LengthBytes[first.value[1]])
      ELSE first

Sized(size) == Take(size, Number(size.value))

-----------------------------------------------------------------------------
(* client_handshake.                                                       *)

Response(caps, user, auth, db, plugin) ==
  [kind |-> "response", caps |-> caps, user |-> user, auth |-> auth, db |-> db, plugin |-> plugin]

(* No username: the client wants TLS and sends the rest behind it.         *)
SSLRequest(caps) == Response(caps, {}, <<>>, {}, <<>>)

Response41(i, after_tls) ==
  LET caps == Capabilities(i)
      head == Take(Start(i), 4 + 4 + 1 + Filler)
      user == UntilNul(head)
      auth == IF "LENENC_CLIENT_DATA" \in caps THEN Sized(ReadLengthEncodedNumber(user))
              ELSE IF "SECURE_CONNECTION" \in caps THEN Sized(Take(user, 1))
              ELSE UntilNul(user)
      with_db == "CONNECT_WITH_DB" \in caps
      db == If(with_db, auth, UntilNul(auth))
      plugin == If("PLUGIN_AUTH" \in caps, db, UntilNul(db))
  IN  IF head.ok /\ ~after_tls /\ "SSL" \in caps THEN SSLRequest(caps)
      ELSE IF ~plugin.ok THEN Malformed
      ELSE Response(caps, {user.value}, auth.value, IF with_db THEN {db.value} ELSE {}, plugin.value)

Response320(i) ==
  LET caps == Capabilities(Take(Start(i), 2).value)
      user == UntilNul(Take(Take(Start(i), 2), 3))
      with_db == "CONNECT_WITH_DB" \in caps
      auth == IF with_db THEN UntilNul(user) ELSE Take(user, Len(user.left))
      db == If(with_db, auth, UntilNul(auth))
  IN  IF ~db.ok THEN Malformed
      ELSE Response(caps, {user.value}, IF with_db THEN auth.value ELSE user.left,
                    IF with_db THEN {db.value} ELSE {}, <<>>)

ClientHandshake(i, after_tls) ==
  IF "PROTOCOL_41" \in Capabilities(Take(Start(i), 2).value)
    THEN Response41(i, after_tls) ELSE Response320(i)

-----------------------------------------------------------------------------
(* parse.                                                                  *)

Opcode ==
  [quit |-> 1, init |-> 2, query |-> 3, list_fields |-> 4, ping |-> 14, prepare |-> 22,
   execute |-> 23, send_long_data |-> 24, close |-> 25, reset |-> 26, fetch |-> 28,
   reset_connection |-> 31]

ArgWidths(op) ==
  CASE op = "execute" -> <<4, 1, 4>>          \* stmt, flags, iteration_count
    [] op = "send_long_data" -> <<4, 2>>      \* stmt, param
    [] op = "fetch" -> <<4, 4>>               \* stmt, rows
    [] op \in {"close", "reset"} -> <<4>>
    [] OTHER -> <<>>

TakesRest == {"query", "list_fields", "init", "prepare", "execute", "send_long_data"}

Offset(op, n) == 1 + FoldLeft(LAMBDA sum, w : sum + w, 0, SubSeq(ArgWidths(op), 1, n))
ArgsEnd(op) == Offset(op, Len(ArgWidths(op)))

(* all_consuming.                                                          *)
Consumes_prefix(op, i) == TRUE
Consumes(op, i) == op \in TakesRest \/ Len(i) = ArgsEnd(op)

Parses(i, op) == Len(i) >= ArgsEnd(op) /\ i[1] = Opcode[op] /\ Consumes(op, i)

Parse(i) ==
  {[kind |-> "command", op |-> op,
    args |-> [k \in DOMAIN ArgWidths(op) |-> SubSeq(i, Offset(op, k - 1) + 1, Offset(op, k))],
    rest |-> IF op \in TakesRest THEN From(i, ArgsEnd(op) + 1) ELSE <<>>] :
     op \in {op \in DOMAIN Opcode : Parses(i, op)}}

(* command_parse_error: a command the server knows, or not.                *)
CommandParseError(i) ==
  IF i = <<>> \/ i[1] \in {Opcode[op] : op \in DOMAIN Opcode} THEN Malformed ELSE [kind |-> "unsupported"]

-----------------------------------------------------------------------------
(* Where the text goes.  One byte stands for each prefix run() looks for,  *)
(* in either of its two spellings.                                         *)

SelectVariable == 64                          \* "SELECT @@"
Use == 85                                     \* "USE "
Space == 32
Semicolon == 59
Backtick == 96
IsUtf8(text) == 255 \notin ToSet(text)

TrimStart(s, c) ==
  LET kept == {k \in 1 .. Len(s) + 1 : \A j \in 1 .. k - 1 : s[j] = c}
  IN  From(s, CHOOSE k \in kept : \A j \in kept : j <= k)
TrimEnd(s, c) == Reverse(TrimStart(Reverse(s), c))
Trim(s, c) == TrimEnd(TrimStart(s, c), c)

Schema_semicolonLast(s) == TrimEnd(Trim(Trim(s, Space), Backtick), Semicolon)
Schema(s) == Trim(TrimEnd(Trim(s, Space), Semicolon), Backtick)

Calls(callback, text) == [kind |-> "calls", callback |-> callback, text |-> text]

Callback(c) ==
  LET text == c.rest
  IN  CASE c.op \in {"query", "prepare", "init"} /\ ~IsUtf8(text) -> Malformed
        [] c.op = "query" /\ IsUtf8(text) ->
             IF text # <<>> /\ Head(text) = SelectVariable THEN Calls("on_system_variable", text)
             ELSE IF text # <<>> /\ Head(text) = Use /\ ~process_use
               THEN Calls("on_init", Schema(Tail(text)))
             ELSE Calls("on_query", text)
        [] c.op = "prepare" /\ IsUtf8(text) -> Calls("on_prepare", text)
        [] c.op = "init" /\ IsUtf8(text) -> Calls("on_init", text)
        [] OTHER -> c

-----------------------------------------------------------------------------
(* The server.                                                             *)

ServesCommand(i) ==
  LET commands == Parse(i)
  IN  /\ outcome' = IF commands = {} THEN CommandParseError(i)
                    ELSE Callback(CHOOSE c \in commands : TRUE)
      /\ stage' = IF \E c \in commands : c.op = "quit" THEN "closed" ELSE "commands"

(* A response without PROTOCOL_41, or a malformed one, ends the connection.*)
ServesResponse(i) ==
  LET response == ClientHandshake(i, stage = "tls")
  IN  /\ outcome' = response
      /\ stage' = IF response.kind = "malformed" THEN "closed"
                  ELSE IF stage = "plain" /\ "SSL" \in response.caps THEN "tls"
                  ELSE IF "PROTOCOL_41" \notin response.caps THEN "closed"
                  ELSE "commands"

Serves(i) ==
  /\ packet' = i
  /\ IF stage = "commands" THEN ServesCommand(i) ELSE ServesResponse(i)
  /\ UNCHANGED process_use

-----------------------------------------------------------------------------
(* A client's encodings.                                                   *)

CapabilityBytes(caps) ==
  [at \in 1 .. 4 |->
     FoldLeft(LAMBDA sum, c : sum + (IF CapabilityBit[c][1] = at THEN CapabilityBit[c][2] ELSE 0), 0,
              SetToSeq(caps))]

LengthPrefixes(n) ==
  {<<n>>, <<252, n, 0>>, <<253, n, 0, 0>>, <<254, n, 0, 0, 0, 0, 0, 0, 0>>}

Nul(s) == s \o <<0>>
EachNul(set) == FlattenSeq([i \in 1 .. Len(SetToSeq(set)) |-> Nul(SetToSeq(set)[i])])

(* What follows the fixed part of a response.                              *)
Bodies(r) ==
  LET user == EachNul(r.user)
      tail == EachNul(r.db) \o (IF "PLUGIN_AUTH" \in r.caps THEN Nul(r.plugin) ELSE <<>>)
  IN  IF "PROTOCOL_41" \notin r.caps
        THEN {user \o (IF r.db = {} THEN r.auth ELSE Nul(r.auth)) \o EachNul(r.db)}
      ELSE IF "LENENC_CLIENT_DATA" \in r.caps
        THEN {user \o prefix \o r.auth \o tail : prefix \in LengthPrefixes(Len(r.auth))}
      ELSE IF "SECURE_CONNECTION" \in r.caps
        THEN {user \o <<Len(r.auth)>> \o r.auth \o tail}
      ELSE {user \o Nul(r.auth) \o tail}

FixedPart(caps) ==
  IF "PROTOCOL_41" \in caps
    THEN CapabilityBytes(caps) \o <<0, 0, 0, 1, 45>> \o [i \in 1 .. Filler |-> 0]
    ELSE SubSeq(CapabilityBytes(caps), 1, 2) \o <<0, 0, 1>>

(* Only a 4.1 response may have more behind it.                            *)
Extensions(r) == IF "PROTOCOL_41" \in r.caps THEN Trailing ELSE {<<>>}

Encodings(r) ==
  IF stage = "plain" /\ "SSL" \in r.caps THEN {FixedPart(r.caps)}
  ELSE {FixedPart(r.caps) \o body \o more : body \in Bodies(r), more \in Extensions(r)}

Encoded(c) == <<Opcode[c.op]>> \o FlattenSeq(c.args) \o c.rest

Altered(i) ==
  {SubSeq(i, 1, n) : n \in 0 .. Len(i)}
    \cup {Append(i, b) : b \in AlteredTo}
    \cup {[i EXCEPT ![k] = b] : k \in DOMAIN i, b \in AlteredTo}

MeantResponse(r) ==
  IF stage = "plain" /\ "SSL" \in r.caps THEN SSLRequest(r.caps)
  ELSE Response(r.caps, r.user, r.auth, r.db, r.plugin)

Init ==
  /\ process_use \in BOOLEAN /\ stage = "plain"
  /\ packet = <<>> /\ outcome = NoOutcome /\ meant = <<>>

Waits == outcome = NoOutcome

SendsResponse ==
  /\ Waits /\ stage \in {"plain", "tls"}
  /\ \E r \in Responses : \E i \in Encodings(r) : Serves(i) /\ meant' = <<MeantResponse(r)>>

SendsCommand ==
  /\ Waits /\ stage = "commands"
  /\ \E c \in Commands :
       /\ Serves(c.sends)
       /\ meant' = IF process_use /\ Use \in ToSet(c.sends) THEN <<>> ELSE <<c.means>>

SendsAltered ==
  /\ Waits
  /\ \/ stage = "commands" /\ \E c \in Commands : \E i \in Altered(c.sends) : Serves(i)
     \/ stage # "commands"
          /\ \E r \in Responses : \E i \in Encodings(r) : \E j \in Altered(i) : Serves(j)
  /\ meant' = <<>>

(* The server has answered, and reads again.                               *)
ReadsOn ==
  /\ ~Waits /\ stage # "closed"
  /\ packet' = <<>> /\ outcome' = NoOutcome /\ meant' = <<>>
  /\ UNCHANGED <<process_use, stage>>

Next == SendsResponse \/ SendsCommand \/ SendsAltered \/ ReadsOn

Spec == Init /\ [][Next]_vars

-----------------------------------------------------------------------------
(* Whatever dialect its capabilities select, an honest client's response   *)
(* and commands are understood as meant: every field, the callback that is *)
(* called and the text it is given; and a command the server does not know *)
(* is told from one it cannot read.                                        *)
HonestUnderstood == meant # <<>> => outcome = meant[1]

Punctuation == {Use, Space, Semicolon, Backtick}
Words(s) == SelectSeq(s, LAMBDA b : b \notin Punctuation)

(* Whatever bytes arrive, a request that is accepted is one a client could *)
(* have meant by exactly these bytes: no field is cut short, none runs     *)
(* into the next, and nothing is left over but behind a whole response.    *)
NoByteIgnored ==
  CASE outcome.kind = "command" -> packet = Encoded(outcome)
    [] outcome.kind = "calls" ->
         \/ \E op \in {"query", "prepare", "init"} : packet = <<Opcode[op]>> \o outcome.text
         \/ packet[1] = Opcode["query"] /\ outcome.callback = "on_init" /\ ~process_use
            /\ Words(outcome.text) = Words(Tail(packet))
    [] outcome.kind = "response" ->
         LET body == From(packet, Len(FixedPart(outcome.caps)) + 1)
         IN  \/ outcome.user = {} /\ Len(packet) >= Len(FixedPart(outcome.caps))
             \/ \E b \in Bodies(outcome) : IsPrefix(b, body)
    [] OTHER -> TRUE
=============================================================================
