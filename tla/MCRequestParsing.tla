--------------------------- MODULE MCRequestParsing ---------------------------
(* Instances of RequestParsing for TLC: every set of capabilities, empty   *)
(* and other strings, a NUL where a length is sent; every command.         *)
EXTENDS RequestParsing

Options == {"CONNECT_WITH_DB", "SSL", "SECURE_CONNECTION", "PLUGIN_AUTH", "LENENC_CLIENT_DATA"}

Auths(caps) ==
  IF caps \cap {"SECURE_CONNECTION", "LENENC_CLIENT_DATA"} # {} THEN {<<>>, <<0, 7>>} ELSE {<<>>, <<7>>}

ResponsesWith(caps, auths) ==
  [caps : {caps}, user : {{<<97>>}}, auth : auths,
   db : IF "CONNECT_WITH_DB" \in caps THEN {{<<>>}, {<<98>>}} ELSE {{}},
   plugin : IF "PLUGIN_AUTH" \in caps THEN {<<>>, <<99>>} ELSE {<<>>}]

MCResponses ==
  UNION {ResponsesWith(caps \cup {"PROTOCOL_41"}, Auths(caps)) : caps \in SUBSET Options}
    \cup UNION {ResponsesWith(caps, {<<7>>}) : caps \in SUBSET {"CONNECT_WITH_DB"}}

Command(op, args, rest) == [kind |-> "command", op |-> op, args |-> args, rest |-> rest]
AsItIs(command) == [sends |-> Encoded(command), means |-> command]
Text(op, text, means) == [sends |-> Encoded(Command(op, <<>>, text)), means |-> means]
Id == <<1, 2, 0, 0>>

MCTrailing == {<<>>, <<4, 0>>}

MCCommands ==
  {AsItIs(Command(op, <<>>, <<>>)) : op \in {"quit", "ping", "reset_connection"}}
    \cup {AsItIs(Command(op, <<Id>>, <<>>)) : op \in {"close", "reset"}}
    \cup {AsItIs(Command("fetch", <<Id, <<255, 255, 255, 255>> >>, <<>>)),
          AsItIs(Command("list_fields", <<>>, <<97, 0>>))}
    \cup {AsItIs(Command("execute", <<Id, <<1>>, <<1, 0, 0, 0>> >>, rest)) : rest \in {<<>>, <<0, 1>>}}
    \cup {AsItIs(Command("send_long_data", <<Id, <<1, 0>> >>, rest)) : rest \in {<<>>, <<7, 8>>}}
    \cup {Text(op, text, Calls("on_" \o op, text)) : op \in {"query", "prepare"}, text \in {<<>>, <<97, 32>>}}
    \cup {Text("init", text, Calls("on_init", text)) : text \in {<<97>>, <<Backtick, 97>>}}
    \cup {Text(op, <<97, 255>>, Malformed) : op \in {"query", "prepare", "init"}}
    \cup {Text("query", <<SelectVariable, 97>>, Calls("on_system_variable", <<SelectVariable, 97>>))}
    \cup {Text("query", <<Use>> \o text, Calls("on_init", <<97, 32, 98>>)) :
            text \in {<<97, 32, 98>>, <<Backtick, 97, 32, 98, Backtick>>,
                      <<Space, Backtick, 97, 32, 98, Backtick, Semicolon, Semicolon, Space>>,
                      <<97, 32, 98, Semicolon>>}}
    \cup {[sends |-> <<9>>, means |-> [kind |-> "unsupported"]], [sends |-> <<28, 1>>, means |-> Malformed],
          [sends |-> <<>>, means |-> Malformed]}
=============================================================================
