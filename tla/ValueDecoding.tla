--------------------------- MODULE ValueDecoding ---------------------------
(***************************************************************************)
(* What a backend gets out of a parameter: ValueInner::parse_from for the  *)
(* fields of one binary value, and the TryFrom conversions of Value into   *)
(* the Rust types (value/decode.rs).                                       *)
(***************************************************************************)
EXTENDS ValueEncoding

(* The ValueInner a value's fields parse to.  A temporal one keeps its     *)
(* fields, less the length.                                                *)
TemporalKind == [DATE |-> "Date", DATETIME |-> "Datetime", TIME |-> "Time"]

ParseFrom(fields, c) ==
  LET bits == fields[1].holds
      w == fields[1].width
  IN  CASE IsInteger(c) /\ c.unsigned -> [kind |-> "UInt", is |-> bits]
        [] IsInteger(c) /\ ~c.unsigned ->
             [kind |-> "Int", is |-> IF bits < Half[w] THEN bits ELSE bits - 2 * Half[w]]
        [] c.type \in {"FLOAT", "DOUBLE"} -> [kind |-> "Double", is |-> bits]
        [] c.type = "STRING" -> [kind |-> "Bytes", is |-> bits]
        [] OTHER -> [kind |-> TemporalKind[c.type], is |-> [i \in 1 .. Len(fields) - 1 |-> fields[i + 1].holds]]

-----------------------------------------------------------------------------
(* TryFrom: the converted value in a singleton, or nothing.                *)

Converted(ok, type, x) == IF ok THEN {[type |-> type, is |-> x]} ELSE {}

RustWidth == [u8 |-> 1, i8 |-> 1, u16 |-> 2, i16 |-> 2, u32 |-> 4, i32 |-> 4, u64 |-> 8, i64 |-> 8]
RustSigned(type) == type \in {"i8", "i16", "i32", "i64"}
RustInteger == [type \in DOMAIN RustWidth |-> RangeOf(RustWidth[type], RustSigned(type))]

(* The type's MIN and MAX.                                                 *)
Least(type) == IF RustSigned(type) THEN -Half[RustWidth[type]] ELSE 0
Greatest(type) == (IF RustSigned(type) THEN 1 ELSE 2) * Half[RustWidth[type]] - 1

(* try_into, which refuses what the type cannot hold, for either sign.     *)
TryInteger(type, inner) ==
  Converted(inner.kind \in {"UInt", "Int"} /\ inner.is \in RustInteger[type], type, inner.is)

TryFloat(type, inner) == Converted(inner.kind = "Double", type, inner.is)

TryBytes(inner) == Converted(inner.kind = "Bytes", "bytes", inner.is)

(* Byte 255 stands for what is not UTF-8.                                  *)
TryStr(inner) ==
  Converted(inner.kind = "Bytes" /\ \A i \in DOMAIN inner.is : inner.is[i] # 255, "bytes", inner.is)

(* from_ymd_opt knows no zero month or day (nor, here, a 31st).            *)
Calendar(p) == p[2] \in 1 .. 12 /\ p[3] \in 1 .. 30

TryNaiveDate(inner) ==
  Converted(inner.kind = "Date" /\ Len(inner.is) = 3 /\ Calendar(inner.is),
            "NaiveDate",
            [y |-> inner.is[1], mo |-> inner.is[2], d |-> inner.is[3], h |-> 0, mi |-> 0, s |-> 0])

(* Lengths 4, 7 and 11 have three, six and seven parts; 0 and 13 are       *)
(* refused.                                                                *)
TryNaiveDateTime(inner) ==
  LET n == Len(inner.is)
      p == [i \in 1 .. 7 |-> IF i <= n THEN inner.is[i] ELSE 0]
  IN  Converted(/\ inner.kind = "Datetime" /\ n \in {3, 6, 7} /\ Calendar(p)
                /\ p[4] <= 23 /\ p[5] <= 59 /\ p[6] <= 59 /\ p[7] < 1000000,
                "NaiveDateTime",
                [y |-> p[1], mo |-> p[2], d |-> p[3], h |-> p[4], mi |-> p[5], s |-> p[6],
                 ns |-> p[7] * 1000])

TryDuration(inner) ==
  LET p == [i \in 1 .. 6 |-> IF i <= Len(inner.is) THEN inner.is[i] ELSE 0]
  IN  Converted(inner.kind = "Time" /\ p[1] = 0 /\ p[6] < 1000000, "Duration",
                [secs |-> p[2] * 86400 + p[3] * 3600 + p[4] * 60 + p[5], ns |-> p[6] * 1000])

TryFrom(type, inner) ==
  CASE type \in DOMAIN RustInteger -> TryInteger(type, inner)
    [] type \in {"f32", "f64"} -> TryFloat(type, inner)
    [] type = "bytes" -> TryBytes(inner)
    [] type = "str" -> TryStr(inner)
    [] type = "NaiveDate" -> TryNaiveDate(inner)
    [] type = "NaiveDateTime" -> TryNaiveDateTime(inner)
    [] type = "Duration" -> TryDuration(inner)
=============================================================================
