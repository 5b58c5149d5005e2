------------------------- MODULE StatementParameters -------------------------
(***************************************************************************)
(* The parameters of one prepared statement: ParamParser::validate, which  *)
(* checks an EXECUTE before the backend sees it, the Params iterator that  *)
(* decodes the same bytes again and unwraps what was checked, and the      *)
(* parameter types a statement remembers from one EXECUTE to the next      *)
(* (params.rs, the EXECUTE and RESET arms of lib.rs).                      *)
(*                                                                         *)
(* An EXECUTE carries a NULL bitmap, a flag, the types if the flag is set, *)
(* and the values that are neither NULL nor uploaded as long data.  Bytes  *)
(* are small numbers, a bitmap byte holds NullBits of them, and a type     *)
(* entry is one byte (its signedness, which changes no alignment, is left  *)
(* out).  The types stand for the classes parse_from tells apart.          *)
(***************************************************************************)
EXTENDS Integers, SequencesExt, Bits

CONSTANTS
  Params,     \* the statement's parameters
  NullBits,   \* columns a bitmap byte covers, 8 in the code
  UsedType    \* the types the client's own values have

ASSUME ParametersAssumption ==
  /\ Params \in Nat \ {0}
  /\ NullBits \in Nat \ {0}
  /\ UsedType \subseteq {"tiny", "blob", "date"}

Byte == 0 .. 4

(* What a type byte means: "tiny" is fixed in width, "blob" has a length   *)
(* and may be uploaded, "date" admits few lengths, "typed" is a            *)
(* ColumnType without a binary value, "unknown" is none.                   *)
TypeCode == <<"tiny", "blob", "date", "typed", "unknown">>
TypeOf(b) == TypeCode[b + 1]
ColumnType == {"tiny", "blob", "date", "typed"}
TemporalLengths == {0, 2}

Columns == 0 .. Params - 1

Null == [kind |-> "null", bytes |-> <<>>]
Uploaded == [kind |-> "long", bytes |-> <<>>]
Inline(s) == [kind |-> "inline", bytes |-> s]

VARIABLES
  bound_types,     \* StatementData::bound_types
  long_data,       \* the columns StatementData::long_data has an entry for
  pending_error,   \* StatementData::pending_error is Some
  wire,            \* the EXECUTE being served, <<>> when there is none
  nullmap,         \* Params::nullmap is Some
  input,           \* Params::input
  col,             \* Params::col
  produced,        \* what the iterator has returned
  ended,           \* the iterator has returned None
  panicked,        \* an unwrap, an index or a split_at failed
  client_types,    \* the types an honest client may leave out, or <<>>
  intended,        \* what the client means by the EXECUTE, or <<>> if nothing
  refused          \* the last EXECUTE: "", "long_data" or "malformed"

statement == <<bound_types, long_data, pending_error>>
iterator == <<nullmap, input, col, produced, ended>>
vars == <<statement, wire, iterator, panicked, client_types, intended, refused>>

Init ==
  /\ bound_types = <<>> /\ long_data = {} /\ pending_error = FALSE
  /\ wire = <<>>
  /\ nullmap = FALSE /\ input = <<>> /\ col = 0 /\ produced = <<>> /\ ended = FALSE
  /\ panicked = FALSE
  /\ client_types = <<>> /\ intended = <<>> /\ refused = ""

-----------------------------------------------------------------------------
(* The wire.                                                               *)

From(s, n) == SubSeq(s, n + 1, Len(s))

NullMapLen == (Params + NullBits - 1) \div NullBits

IsNull_resultRow(w, c) == LET k == c + 1 IN
  k \div NullBits < NullMapLen /\ IsSet(w[k \div NullBits + 1], k % NullBits)
IsNull(w, c) == IsSet(w[c \div NullBits + 1], c % NullBits)

NewParamsBound(w) == w[NullMapLen + 1] # 0

TypeMap(w) == SubSeq(w, NullMapLen + 2, NullMapLen + 1 + Params)

Values(w) == From(w, NullMapLen + 1 + (IF NewParamsBound(w) THEN Params ELSE 0))

HeaderComplete(w) ==
  /\ Len(w) > NullMapLen
  /\ NewParamsBound(w) => Len(w) >= NullMapLen + 1 + Params

(* bound_types after the type map: cleared, and pushed up to a bad type.   *)
Rebound(old, typmap) ==
  LET good == {n \in 0 .. Len(typmap) : \A i \in 1 .. n : TypeOf(typmap[i]) \in ColumnType}
      n == CHOOSE n \in good : \A k \in good : k <= n
  IN  [i \in 1 .. n |-> TypeOf(typmap[i])]

(* Value::parse_from succeeds, and the bytes it takes.                     *)
Parses(s, type) ==
  CASE type = "tiny" -> s # <<>>
    [] type = "blob" -> s # <<>> /\ s[1] < Len(s)
    [] type = "date" -> s # <<>> /\ s[1] < Len(s) /\ s[1] \in TemporalLengths
    [] OTHER -> FALSE

Width(s, type) == IF type = "tiny" THEN 1 ELSE 1 + s[1]

Parsed(s, type) == Inline(IF type = "tiny" THEN <<s[1]>> ELSE SubSeq(s, 2, 1 + s[1]))

-----------------------------------------------------------------------------
(* ParamParser::new.  Rest[c] is the input before column c: what is left   *)
(* to parse, or what went wrong.                                           *)

ColumnsChecked_butLast == Params - 1
ColumnsChecked == Params

Walk(w, types, uploads) ==
  LET Rest[c \in 0 .. Params] ==
        IF c = 0 THEN [error |-> "", left |-> Values(w)]
        ELSE LET before == Rest[c - 1]
                 type == types[c]
             IN  IF before.error # "" THEN before
                 ELSE IF c - 1 \in uploads
                   THEN IF type = "blob" THEN before ELSE [before EXCEPT !.error = "long_data"]
                 ELSE IF IsNull(w, c - 1) THEN before
                 ELSE IF Parses(before.left, type)
                   THEN [before EXCEPT !.left = From(@, Width(@, type))]
                 ELSE [before EXCEPT !.error = "malformed"]
  IN  Rest[ColumnsChecked]

TypesAfter(w) ==
  IF HeaderComplete(w) /\ NewParamsBound(w) THEN Rebound(bound_types, TypeMap(w)) ELSE bound_types

Trailing_ignored(walk) == FALSE
Trailing(walk) == walk.left # <<>>

Validate(w) ==
  IF ~HeaderComplete(w) \/ Len(TypesAfter(w)) < Params THEN "malformed"
  ELSE LET walk == Walk(w, TypesAfter(w), long_data)
       IN  IF walk.error # "" THEN walk.error
           ELSE IF Trailing(walk) THEN "malformed" ELSE ""

-----------------------------------------------------------------------------
(* The client.  An honest one sends the types unless the last EXECUTE that *)
(* was answered well had the same; it leaves out NULLs and the columns it  *)
(* uploaded.  Anything else is an honest packet cut, extended or altered.  *)

InlineValues(type) ==
  CASE type = "tiny" -> {<<0>>, <<3>>}
    [] type = "blob" -> {<<>>, <<1>>}
    [] type = "date" -> {<<>>, <<1, 0>>}

ClientTypes == [1 .. Params -> UsedType]

ClientValues(types) ==
  {vs \in [1 .. Params -> {Null, Uploaded} \cup
             UNION {{Inline(s) : s \in InlineValues(t)} : t \in UsedType}] :
     \A i \in 1 .. Params :
       IF i - 1 \in long_data THEN vs[i] = Uploaded
       ELSE vs[i] = Null \/ (vs[i].kind = "inline" /\ vs[i].bytes \in InlineValues(types[i]))}

BitmapByte(vs, k) ==
  LET bits == {b \in 0 .. NullBits - 1 :
                 LET c == (k - 1) * NullBits + b IN c \in Columns /\ vs[c + 1] = Null}
  IN  ByteOf(bits, NullBits)

EncodedValue(v, type) ==
  IF v.kind # "inline" THEN <<>> ELSE IF type = "tiny" THEN v.bytes ELSE <<Len(v.bytes)>> \o v.bytes

Encode(types, vs, sendTypes) ==
  [k \in 1 .. NullMapLen |-> BitmapByte(vs, k)]
    \o (IF sendTypes
          THEN <<1>> \o [i \in 1 .. Params |-> (CHOOSE n \in Byte : TypeOf(n) = types[i])]
          ELSE <<0>>)
    \o FlattenSeq([i \in 1 .. Params |-> EncodedValue(vs[i], types[i])])

Altered(w) ==
  {SubSeq(w, 1, n) : n \in 0 .. Len(w) - 1} \cup {Append(w, 0)}
    \cup {[w EXCEPT ![i] = b] : i \in DOMAIN w, b \in Byte}

-----------------------------------------------------------------------------
(* COM_STMT_EXECUTE.                                                       *)

Rejects(error) ==
  /\ long_data' = {}
  /\ client_types' = <<>> /\ refused' = error
  /\ UNCHANGED <<pending_error, wire, iterator, panicked>>

Serves(w) ==
  /\ wire' = w
  /\ nullmap' = FALSE /\ input' = w /\ col' = 0 /\ produced' = <<>> /\ ended' = FALSE
  /\ refused' = ""
  /\ UNCHANGED <<long_data, pending_error, panicked>>

Receives(w, types, meant) ==
  /\ bound_types' = TypesAfter(w)
  /\ intended' = meant
  /\ IF Validate(w) # "" THEN Rejects(Validate(w))
     ELSE Serves(w) /\ client_types' = types

Idle == wire = <<>> /\ ~panicked

Execute ==
  /\ Idle /\ ~pending_error
  /\ \E types \in ClientTypes :
     \E vs \in ClientValues(types), sendTypes \in BOOLEAN :
       /\ ~sendTypes => client_types = types
       /\ LET w == Encode(types, vs, sendTypes)
          IN  \/ Receives(w, types, vs)
              \/ \E a \in Altered(w) : Receives(a, <<>>, <<>>)

(* A pending error is answered before the parameters are looked at.        *)
ExecutePending ==
  /\ Idle /\ pending_error
  /\ client_types' = <<>> /\ intended' = <<>> /\ refused' = ""
  /\ UNCHANGED <<statement, wire, iterator, panicked>>

(* The first call of Params::next decodes the header again.                *)
NextParam ==
  /\ wire # <<>> /\ ~panicked /\ ~ended
  /\ LET types == IF nullmap \/ ~NewParamsBound(wire) THEN bound_types
                  ELSE Rebound(bound_types, TypeMap(wire))
         left == IF nullmap THEN input ELSE Values(wire)
         Returns(v, rest) ==
           /\ produced' = Append(produced, v) /\ col' = col + 1 /\ input' = rest
           /\ UNCHANGED <<ended, panicked>>
     IN  /\ nullmap' = TRUE /\ bound_types' = types
         /\ IF col >= Params
              THEN ended' = TRUE /\ input' = left /\ UNCHANGED <<col, produced, panicked>>
            ELSE IF col >= Len(types)
              THEN panicked' = TRUE /\ UNCHANGED <<input, col, produced, ended>>
            ELSE IF col \in long_data THEN Returns(Uploaded, left)
            ELSE IF IsNull(wire, col) THEN Returns(Null, left)
            ELSE IF Parses(left, types[col + 1])
              THEN Returns(Parsed(left, types[col + 1]), From(left, Width(left, types[col + 1])))
            ELSE panicked' = TRUE /\ UNCHANGED <<input, col, produced, ended>>
  /\ UNCHANGED <<long_data, pending_error, wire, client_types, intended, refused>>

(* on_execute returns, having read as many parameters as it wanted; the    *)
(* backend's own error leaves the client in doubt about the types.         *)
Answer ==
  /\ wire # <<>> /\ ~panicked
  /\ wire' = <<>> /\ long_data' = {}
  /\ nullmap' = FALSE /\ input' = <<>> /\ col' = 0 /\ produced' = <<>> /\ ended' = FALSE
  /\ client_types' \in {client_types, <<>>}
  /\ intended' = <<>>
  /\ UNCHANGED <<bound_types, pending_error, panicked, refused>>

SendLongData ==
  /\ Idle /\ ~pending_error
  /\ \/ \E c \in Columns : long_data' = long_data \cup {c} /\ UNCHANGED pending_error
     \/ pending_error' = TRUE /\ UNCHANGED long_data      \* no such column, or over a limit
  /\ intended' = <<>> /\ refused' = ""
  /\ UNCHANGED <<bound_types, wire, iterator, panicked, client_types>>

(* COM_STMT_RESET.                                                         *)
TypesAfterReset_cleared == <<>>
TypesAfterReset == bound_types

Reset ==
  /\ Idle
  /\ long_data' = {} /\ pending_error' = FALSE /\ bound_types' = TypesAfterReset
  /\ intended' = <<>> /\ refused' = ""
  /\ UNCHANGED <<wire, iterator, panicked, client_types>>

Next == Execute \/ ExecutePending \/ NextParam \/ Answer \/ SendLongData \/ Reset

Spec == Init /\ [][Next]_vars

-----------------------------------------------------------------------------
(* The iterator never unwraps an error: whatever packet arrives, what      *)
(* validate accepted is what Params::next can decode.                      *)
NeverPanics == ~panicked

(* The backend is handed the values the client meant, each under its own   *)
(* parameter, whether typed now or by an earlier EXECUTE, NULL, uploaded   *)
(* or inline.                                                              *)
ParametersAsSent ==
  wire # <<>> /\ intended # <<>> =>
    IF ended THEN produced = intended ELSE IsPrefix(produced, intended)

(* Even a packet no honest client sends is decoded to one value for every  *)
(* parameter, and to its last byte.                                        *)
AllConsumed == ended => Len(produced) = Params /\ input = <<>>

(* An honest EXECUTE is malformed to nobody, also one that relies on types *)
(* bound before a RESET or before uploads.                                 *)
HonestExecuteAccepted == intended # <<>> => refused # "malformed"
=============================================================================
