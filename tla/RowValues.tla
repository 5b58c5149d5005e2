----------------------------- MODULE RowValues -----------------------------
(***************************************************************************)
(* A row, value by value: RowWriter::write_col and end_row over the        *)
(* encodings of ValueEncoding, in either protocol, with a client that      *)
(* decodes each row it is sent (resultset.rs).  The backend writes values  *)
(* of its own, or echoes what the client sent as a parameter of the        *)
(* column's type, through a Rust type of its choice (ValueDecoding).       *)
(*                                                                         *)
(* The row under construction is a sequence of fields.  A bitmap byte      *)
(* holds BitmapBits bits.                                                  *)
(***************************************************************************)
EXTENDS ValueDecoding, SequencesExt, Bits

CONSTANTS
  Tables,         \* column lists; a column is [type, unsigned, notnull]
  Values(_),      \* the backend's own values, for the n-th column
  Numbers, Strings, Moments, Times,   \* what a client sends as parameters
  EchoColumns,    \* the columns it may echo a parameter in
  BitmapBits,     \* 8 in the code
  MaxPacketSize

Column ==
  [type : DOMAIN IntegerWidth \cup {"FLOAT", "DOUBLE", "STRING", "DATE", "DATETIME", "TIME"},
   unsigned : BOOLEAN, notnull : BOOLEAN]

(* What the Rust types can hold: a MySQL date or time is any bytes, while  *)
(* chrono's months, days and hours are those of the calendar.              *)
MomentTyped(t) == \A n \in {t.y, t.mo, t.d, t.h, t.mi, t.s, t.us} : n \in Nat
TimeTyped(t) == t.neg \in {0, 1} /\ \A n \in {t.d, t.h, t.mi, t.s, t.us} : n \in Nat
DurationTyped(t) == t.secs \in Nat /\ t.ns \in Nat /\ t.ns < 1000000000
ChronoTyped(t) ==
  t.y \in Int /\ t.mo \in 1 .. 12 /\ t.d \in 1 .. 31 /\ t.h \in 0 .. 23 /\ t.mi \in 0 .. 59 /\ t.s \in 0 .. 59

Typed(v) ==
  LET x == Unwrapped(v)
  IN  /\ x.type \in DOMAIN RustInteger \cup
           {"usize", "isize", "UInt", "Int", "f32", "f64", "Float", "Double", "bytes", "Bytes",
            "NaiveDate", "NaiveDateTime", "Date", "Duration", "Time", "None", "NULL"}
      /\ x.type \in DOMAIN RustInteger => x.is \in RustInteger[x.type]
      /\ x.type \in {"usize", "UInt"} => x.is \in RangeOf(8, FALSE)
      /\ x.type \in {"isize", "Int"} => x.is \in RangeOf(8, TRUE)
      /\ x.type \in {"f32", "Float"} => x.is \in RangeOf(4, FALSE)
      /\ x.type \in {"f64", "Double"} => x.is \in RangeOf(8, FALSE)
      /\ x.type \in {"bytes", "Bytes"} => x.is \in Seq(Nat)
      /\ x.type = "NaiveDate" => ChronoTyped(x.is) /\ x.is.h = 0 /\ x.is.mi = 0 /\ x.is.s = 0
      /\ x.type = "NaiveDateTime" => ChronoTyped(x.is) /\ x.is.ns \in Nat
      /\ x.type = "Date" => MomentTyped(x.is)
      /\ x.type = "Duration" => DurationTyped(x.is)
      /\ x.type = "Time" => TimeTyped(x.is)

(* One, two and four bytes hold the parts of any valid date or time.       *)
ASSUME RowAssumption ==
  /\ BitmapBits \in Nat \ {0} /\ MaxPacketSize \in Nat
  /\ 60 <= 2 * Half[1] /\ 10000 <= 2 * Half[2] /\ 1000000 <= 2 * Half[4]
  /\ Tables \subseteq Seq(Column)
  /\ \A table \in Tables : \A n \in 0 .. Len(table) - 1 : \A v \in Values(n) : Typed(v)
  /\ Numbers \subseteq Int /\ Strings \subseteq Seq(Nat)
  /\ \A t \in Moments : MomentTyped(t) /\ ValidDate(t)
  /\ \A t \in Times : TimeTyped(t) /\ ValidTimeParts(t) /\ ValidDuration(OfTime(t))

VARIABLES
  is_bin,       \* QueryResultWriter::is_bin
  columns,      \* RowWriter::columns
  data,         \* RowWriter::data
  col,          \* RowWriter::col
  panicked,     \* unreachable!() was reached
  meant,        \* what the accepted values of this row mean
  sent,         \* the row just sent, with what it should mean, or <<>>
  refusal       \* the value just refused, or <<>>

vars == <<is_bin, columns, data, col, panicked, meant, sent, refusal>>

Init ==
  /\ is_bin \in BOOLEAN /\ columns \in Tables
  /\ data = <<>> /\ col = 0 /\ panicked = FALSE
  /\ meant = <<>> /\ sent = <<>> /\ refusal = <<>>

SizeOf(fields) ==
  LET Upto[k \in 0 .. Len(fields)] == IF k = 0 THEN 0 ELSE Upto[k - 1] + fields[k].width
  IN  Upto[Len(fields)]

-----------------------------------------------------------------------------
(* What a value means, whatever carries it.                                *)

Means(form, parts) == [form |-> form, parts |-> parts]
Padded(parts) == [i \in 1 .. 7 |-> IF i <= Len(parts) THEN parts[i] ELSE 0]
Time(neg, secs, us) == Means("time", <<IF neg /\ <<secs, us>> # <<0, 0>> THEN -1 ELSE 1, secs, us>>)

Meaning(v) ==
  LET x == Unwrapped(v)
  IN  CASE x.type \in {"None", "NULL"} -> Means("null", <<>>)
        [] x.type \in {"bytes", "Bytes"} -> Means("string", x.is)
        [] x.type = "NaiveDate" -> Means("moment", Padded(MomentParts(x.is, 0)))
        [] x.type = "NaiveDateTime" -> Means("moment", MomentParts(x.is, x.is.ns \div 1000))
        [] x.type = "Date" -> Means("moment", MomentParts(x.is, x.is.us))
        [] x.type = "Duration" -> Time(FALSE, x.is.secs, x.is.ns \div 1000)
        [] x.type = "Time" -> Time(x.is.neg = 1, OfTime(x.is).secs, x.is.us)
        [] OTHER -> Means("number", <<x.is>>)

-----------------------------------------------------------------------------
(* The client's decoder.  It finds nothing where the widths are not those  *)
(* of the column.                                                          *)

MomentFieldCount == [n \in {0, 4, 7, 11} |-> CASE n = 0 -> 1 [] n = 4 -> 4 [] n = 7 -> 7 [] n = 11 -> 8]
TimeFieldCount == [n \in {0, 8, 12} |-> CASE n = 0 -> 1 [] n = 8 -> 6 [] n = 12 -> 7]

Widths(c, f) ==
  CASE IsInteger(c) -> <<Width(c)>>
    [] c.type = "FLOAT" -> <<4>>
    [] c.type = "DOUBLE" -> <<8>>
    [] c.type \in {"DATE", "DATETIME"} ->
         IF f.holds \in DOMAIN MomentFieldCount
           THEN SubSeq(MomentWidths, 1, MomentFieldCount[f.holds]) ELSE <<0>>
    [] c.type = "TIME" ->
         IF f.holds \in DOMAIN TimeFieldCount
           THEN SubSeq(<<1, 1, 4, 1, 1, 1, 4>>, 1, TimeFieldCount[f.holds]) ELSE <<0>>

Garbled == [meaning |-> Means("garbled", <<>>), fields |-> 0]

ReadsValue(c, left) ==
  LET found(form, parts, n) == [meaning |-> Means(form, parts), fields |-> n]
  IN  IF left = <<>> THEN Garbled
      ELSE IF c.type = "STRING" THEN
        IF left[1].form = "string" THEN found("string", left[1].holds, 1) ELSE Garbled
      ELSE IF left[1].form # "bits" THEN Garbled
      ELSE LET ws == Widths(c, left[1])
               bits == left[1].holds
               p == [i \in 1 .. 7 |-> IF i < Len(ws) THEN left[i + 1].holds ELSE 0]
           IN  IF \/ Len(ws) > Len(left)
                  \/ \E i \in DOMAIN ws : left[i].form # "bits" \/ left[i].width # ws[i]
                 THEN Garbled
               ELSE IF c.type \in {"DATE", "DATETIME"} THEN found("moment", p, Len(ws))
               ELSE IF c.type = "TIME" THEN
                 [meaning |-> Time(p[1] # 0, p[2] * 86400 + p[3] * 3600 + p[4] * 60 + p[5], p[6]),
                  fields |-> Len(ws)]
               ELSE IF IsInteger(c) /\ ~c.unsigned /\ bits >= Half[ws[1]]
                 THEN found("number", <<bits - 2 * Half[ws[1]]>>, 1)
               ELSE found("number", <<bits>>, 1)

ReadsText(f) ==
  CASE f.form = "moment" -> Means("moment", Padded(f.holds))
    [] f.form = "time" ->
         Time(f.holds[1] = -1, f.holds[2] * 3600 + f.holds[3] * 60 + f.holds[4],
              IF Len(f.holds) = 5 THEN f.holds[5] ELSE 0)
    [] OTHER -> Means(f.form, f.holds)

BitmapLen(n) == (n + BitmapBits - 1 + 2) \div BitmapBits

NullBit(packet, c) == IsSet(packet[2 + (c + 2) \div BitmapBits].holds, (c + 2) % BitmapBits)

ReadsRow(bin, cols, packet) ==
  IF ~bin THEN [i \in DOMAIN packet |-> ReadsText(packet[i])]
  ELSE LET n == Len(cols)
           header == 1 + (n + 2 + BitmapBits - 1) \div BitmapBits
           Upto[c \in 0 .. n] ==
             IF c = 0 THEN [left |-> SubSeq(packet, header + 1, Len(packet)), row |-> <<>>]
             ELSE LET before == Upto[c - 1]
                      value == ReadsValue(cols[c], before.left)
                  IN  IF NullBit(packet, c - 1)
                        THEN [before EXCEPT !.row = Append(@, Means("null", <<>>))]
                        ELSE [left |-> SubSeq(before.left, value.fields + 1, Len(before.left)),
                              row |-> Append(before.row, value.meaning)]
       IN  IF Len(packet) < header \/ Upto[n].left # <<>> THEN <<>> ELSE Upto[n].row

-----------------------------------------------------------------------------
(* write_col.                                                              *)

Header == [i \in 1 .. 1 + BitmapLen(Len(columns)) |-> Field(1, 0)]
WithHeader == IF is_bin /\ col = 0 THEN Header ELSE data

(* RowBufferWriter takes the writes that fit, up to the first that does    *)
(* not.                                                                    *)
Fitting(row, fields) ==
  LET fits == {k \in 0 .. Len(fields) : SizeOf(row \o SubSeq(fields, 1, k)) <= MaxPacketSize}
  IN  SubSeq(fields, 1, CHOOSE k \in fits : \A j \in fits : j <= k)

SetNullBit(row) ==
  [row EXCEPT ![2 + (col + 2) \div BitmapBits].holds = @ + Bit[(col + 2) % BitmapBits]]

(* data.truncate(checkpoint), from before the header.                      *)
AfterRefusal_kept(row, fields) == row \o Fitting(row, fields)
AfterRefusal(row, fields) == SubSeq(row \o Fitting(row, fields), 1, Len(data))

Accepts(row, meaning) ==
  /\ data' = row /\ col' = col + 1 /\ meant' = Append(meant, meaning)
  /\ refusal' = <<>> /\ UNCHANGED panicked

Refuses(row, v, fields) ==
  /\ data' = row
  /\ refusal' = <<[value |-> v, column |-> columns[col + 1],
                   size |-> SizeOf(WithHeader) + SizeOf(fields)]>>
  /\ UNCHANGED <<col, panicked, meant>>

WriteCol(v, meaning) ==
  LET c == columns[col + 1]
      outcome == IF is_bin THEN ToMysqlBin(v, c) ELSE ToMysqlText(v, c)
  IN  IF SizeOf(WithHeader) > MaxPacketSize THEN Refuses(data, v, <<>>)
      ELSE IF is_bin /\ IsNullValue(v) THEN
        IF c.notnull THEN Refuses(WithHeader, v, <<>>) ELSE Accepts(SetNullBit(WithHeader), meaning)
      ELSE IF is_bin /\ Unreachable(v) THEN
        panicked' = TRUE /\ refusal' = <<>> /\ UNCHANGED <<data, col, meant>>
      ELSE IF outcome.ok /\ Fitting(WithHeader, outcome.fields) = outcome.fields
        THEN Accepts(WithHeader \o outcome.fields, meaning)
      ELSE Refuses(AfterRefusal(WithHeader, outcome.fields), v, outcome.fields)

CanWrite == ~panicked /\ col < Len(columns)

WriteOwn ==
  /\ CanWrite
  /\ \E v \in Values(col) : WriteCol(v, Meaning(v))
  /\ sent' = <<>> /\ UNCHANGED <<is_bin, columns>>

-----------------------------------------------------------------------------
(* The echo of a parameter.                                                *)

ParamFields(c) ==
  CASE IsInteger(c) -> {Integer(n, c) : n \in Numbers \cap RangeOf(Width(c), Signed(c))}
    [] c.type = "FLOAT" -> {<<Field(4, n)>> : n \in Numbers \cap RangeOf(4, FALSE)}
    [] c.type = "DOUBLE" -> {<<Field(8, n)>> : n \in Numbers \cap RangeOf(4, FALSE)}
    [] c.type = "STRING" -> {LenencStr(s) : s \in Strings}
    [] c.type \in {"DATE", "DATETIME"} ->
         {MomentFields(DateLength(t), t, t.us) :
            t \in {t \in Moments : c.type = "DATE" => ~TimeOfDay(t) /\ t.us = 0}}
    [] c.type = "TIME" -> UNION {{EncodeTime(OfTime(t), t.neg, c).fields} : t \in Times}

RustTypes ==
  DOMAIN RustInteger \cup {"f32", "f64", "bytes", "str", "NaiveDate", "NaiveDateTime", "Duration"}

WriteEcho ==
  /\ CanWrite /\ col \in EchoColumns
  /\ LET c == columns[col + 1]
     IN  \E p \in ParamFields(c), type \in RustTypes :
         LET meaning == ReadsValue(c, p).meaning
             converted == TryFrom(type, ParseFrom(p, c))
         IN  IF converted = {}
               THEN /\ refusal' = <<[type |-> type, meaning |-> meaning, column |-> c]>>
                    /\ UNCHANGED <<data, col, panicked, meant>>
               ELSE \E v \in converted : WriteCol(v, meaning)
  /\ sent' = <<>> /\ UNCHANGED <<is_bin, columns>>

EndRow ==
  /\ ~panicked /\ col = Len(columns)
  /\ sent' = <<[packet |-> data, meant |-> meant]>>
  /\ data' = <<>> /\ col' = 0 /\ meant' = <<>> /\ refusal' = <<>>
  /\ UNCHANGED <<is_bin, columns, panicked>>

Next == WriteOwn \/ WriteEcho \/ EndRow

Spec == Init /\ [][Next]_vars

-----------------------------------------------------------------------------
(* What the backend may count on being accepted.                           *)

Holds(c, n) == IsInteger(c) /\ n \in RangeOf(Width(c), Signed(c))
HoldsAll(c, type) == Holds(c, Least(type)) /\ Holds(c, Greatest(type))

(* MySQL's TIME ends with 838:59:59, its dates with the year 9999.         *)
InTimeRange(secs, us) == us <= 999999 /\ (secs < 839 * 3600 - 1 \/ (secs = 839 * 3600 - 1 /\ us = 0))

InRange(meaning) ==
  /\ meaning.form = "time" => InTimeRange(meaning.parts[2], meaning.parts[3])
  /\ meaning.form = "moment" =>
       0 <= meaning.parts[1] /\ meaning.parts[1] <= 9999 /\ meaning.parts[7] <= 999999

(* Whether a column can hold what a value means.                           *)
CanHold(c, meaning) ==
  /\ meaning.form = "null" => ~c.notnull
  /\ meaning.form = "number" => Holds(c, meaning.parts[1]) \/ c.type \in {"FLOAT", "DOUBLE"}
  /\ meaning.form = "string" => c.type = "STRING"
  /\ meaning.form = "moment" =>
       c.type = "DATETIME" \/ (c.type = "DATE" /\ \A i \in 4 .. 7 : meaning.parts[i] = 0)
  /\ meaning.form = "time" => c.type = "TIME"

(* What the binary encoders ask of the value's Rust type besides: numbers  *)
(* go into columns of their kind, a double into no FLOAT, an integer of a  *)
(* fixed size into a column that is wider or holds all the type's numbers  *)
(* (a Value::UInt is taken for a u64, a Value::Int for what it needs), and *)
(* a chrono date into no DATETIME, nor a chrono datetime into a DATE.      *)
TypeFits(v, c) ==
  LET x == Unwrapped(v)
  IN  /\ x.type \in DOMAIN RustInteger \cup {"usize", "isize", "Int", "UInt"} => IsInteger(c)
      /\ x.type \in DOMAIN RustInteger => Width(c) > RustWidth[x.type] \/ HoldsAll(c, x.type)
      /\ x.type = "UInt" => HoldsAll(c, "u64")
      /\ x.type \in {"f32", "Float"} => c.type \in {"FLOAT", "DOUBLE"}
      /\ x.type \in {"f64", "Double"} => c.type = "DOUBLE"
      /\ x.type = "NaiveDate" => c.type = "DATE"
      /\ x.type = "NaiveDateTime" => c.type = "DATETIME"

Suits(v, c) == CanHold(c, Meaning(v)) /\ TypeFits(v, c)

(* A DATE column has no room for a moment's time of day, in text either.   *)
TooLateForDate(v, c) == c.type = "DATE" /\ Meaning(v).form = "moment" /\ ~CanHold(c, Meaning(v))

Representable(v) ==
  LET x == Unwrapped(v)
  IN  /\ x.type = "NaiveDate" => ChronoYear(x.is)
      /\ x.type = "NaiveDateTime" => ChronoYear(x.is) /\ x.is.ns < 1000000000
      /\ x.type = "Date" => ValidDate(x.is)
      /\ x.type = "Duration" => InTimeRange(x.is.secs, x.is.ns \div 1000)
      /\ x.type = "Time" => ValidTimeParts(x.is) /\ InTimeRange(OfTime(x.is).secs, x.is.us)

(* A parameter of this column's kind, and a value the Rust type can hold.  *)
Convertible(type, meaning, c) ==
  /\ type \in DOMAIN RustInteger => IsInteger(c) /\ meaning.parts[1] \in RustInteger[type]
  /\ type \in {"f32", "f64"} => c.type \in {"FLOAT", "DOUBLE"}
  /\ type \in {"bytes", "str"} => c.type = "STRING"
  /\ type = "str" => \A i \in DOMAIN meaning.parts : meaning.parts[i] # 255
  /\ type = "NaiveDate" => c.type = "DATE" /\ Calendar(meaning.parts)
  /\ type = "NaiveDateTime" => c.type = "DATETIME" /\ Calendar(meaning.parts)
  /\ type = "Duration" => c.type = "TIME" /\ meaning.parts[1] = 1

-----------------------------------------------------------------------------
(* The client decodes each row to what the accepted values mean, in either *)
(* protocol: after values that were refused, for being out of range or too *)
(* large in mid field, and for parameters it sent itself.  No date or time *)
(* is beyond what a client can hold.                                       *)
RowDecodes ==
  sent # <<>> =>
    /\ ReadsRow(is_bin, columns, sent[1].packet) = sent[1].meant
    /\ \A i \in DOMAIN columns : InRange(sent[1].meant[i])

(* A text row refuses no representable value but a moment with a time of   *)
(* day in a DATE column.  A binary row refuses what its column cannot hold *)
(* and, of what it can hold, only what comes in a Rust type that does not  *)
(* fit the column: a u8 of 5 in a signed TINY, a Value::UInt of 5 in an    *)
(* INT UNSIGNED, a NaiveDate in a DATETIME; but never a usize, an isize, a *)
(* Value::Int, or a number from a type narrower than the column, that the  *)
(* column holds.  Both refuse what would not fit in the packet.  A         *)
(* parameter converts to every type of its column's kind that can hold it. *)
RefusalsJustified ==
  refusal # <<>> =>
    LET r == refusal[1]
    IN  IF "value" \in DOMAIN r
          THEN \/ r.size > MaxPacketSize
               \/ ~Representable(r.value)
               \/ IF is_bin THEN ~Suits(r.value, r.column) ELSE TooLateForDate(r.value, r.column)
          ELSE ~Convertible(r.type, r.meaning, r.column)

(* "should be handled by NULL map" (value/encode.rs:78): in the binary     *)
(* protocol a NULL never reaches to_mysql_bin, which panics.               *)
NullsAreMapped == ~panicked
=============================================================================
