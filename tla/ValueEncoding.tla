--------------------------- MODULE ValueEncoding ---------------------------
(***************************************************************************)
(* What the ToMysqlValue implementations make of a Rust value: the fields  *)
(* of a binary row (to_mysql_bin) or the text of a text row                *)
(* (to_mysql_text_with_column), or an error (value/encode.rs).             *)
(*                                                                         *)
(* A value is [type, is].  The types of mysql_common::Value are named      *)
(* after its variants ("Int", "Date", ...), the others after their Rust    *)
(* names; "bytes" stands for String, str, [u8] and Vec<u8>.  &v and        *)
(* Some(v) are values of the types "ref" and "Some".  Half[w] is half the  *)
(* number of values w bytes can hold, 2^(8w - 1) in the code.              *)
(***************************************************************************)
EXTENDS Integers, Sequences

CONSTANT Half

ASSUME WidthAssumption ==
  /\ Half \in [{1, 2, 4, 8} -> Nat \ {0}]
  /\ \A w, x \in {1, 2, 4, 8} : w < x => 2 * Half[w] <= Half[x]

-----------------------------------------------------------------------------
(* Fields and outcomes.                                                    *)

Field(w, n) == [form |-> "bits", width |-> w, holds |-> n % (2 * Half[w])]
Fields(widths, ns) == [i \in DOMAIN ns |-> Field(widths[i], ns[i])]
Text(form, parts) == <<[form |-> form, width |-> 1 + Len(parts), holds |-> parts]>>
LenencStr(s) == Text("string", s)

Writes(fields) == [ok |-> TRUE, fields |-> fields]
Refused == [ok |-> FALSE, fields |-> <<>>]
If(accepted, fields) == IF accepted THEN Writes(fields) ELSE Refused

-----------------------------------------------------------------------------
(* Integers.                                                               *)

IntegerWidth ==
  [TINY |-> 1, SHORT |-> 2, YEAR |-> 2, LONG |-> 4, INT24 |-> 4, LONGLONG |-> 8]
IsInteger(c) == c.type \in DOMAIN IntegerWidth
Width(c) == IntegerWidth[c.type]
Signed(c) == ~c.unsigned

RangeOf(w, signed) == IF signed THEN -Half[w] .. Half[w] - 1 ELSE 0 .. 2 * Half[w] - 1

Integer(n, c) == <<Field(Width(c), n)>>

(* usize and isize go wherever the number fits.                            *)
EncodeForgiving(n, c) ==
  If(IsInteger(c) /\ n \in RangeOf(Width(c), Signed(c)), Integer(n, c))

(* The others into their own column type, or a wider one that can hold the *)
(* number.                                                                 *)
EncodeSized(w, signed, n, c) ==
  If(/\ IsInteger(c)
     /\ \/ Width(c) = w /\ Signed(c) = signed
        \/ Width(c) > w /\ (Signed(c) \/ n >= 0),
     Integer(n, c))

EncodeU8(n, c)  == EncodeSized(1, FALSE, n, c)
EncodeI8(n, c)  == EncodeSized(1, TRUE, n, c)
EncodeU16(n, c) == EncodeSized(2, FALSE, n, c)
EncodeI16(n, c) == EncodeSized(2, TRUE, n, c)
EncodeU32(n, c) == EncodeSized(4, FALSE, n, c)
EncodeI32(n, c) == EncodeSized(4, TRUE, n, c)
EncodeU64(n, c) == EncodeSized(8, FALSE, n, c)
EncodeI64(n, c) == EncodeSized(8, TRUE, n, c)

(* Value::Int is cast to the smallest type of the column's sign that holds *)
(* it, and encoded as that.                                                *)
EncodeValueInt_asI64(n, c) == EncodeI64(n, c)
EncodeValueInt(n, c) ==
  IF ~Signed(c) /\ n < 0 THEN Refused
  ELSE LET holds == {w \in DOMAIN Half : n \in RangeOf(w, Signed(c))}
           w == CHOOSE w \in holds : \A x \in holds : w <= x
       IN  EncodeSized(w, Signed(c), n, c)

-----------------------------------------------------------------------------
(* Floats and strings.  The floats used are exact in either width.         *)

EncodeF32(x, c) ==
  If(c.type \in {"FLOAT", "DOUBLE"}, <<Field(IF c.type = "FLOAT" THEN 4 ELSE 8, x)>>)
EncodeF64(x, c) == If(c.type = "DOUBLE", <<Field(8, x)>>)

(* STRING stands for the fourteen types of strings, blobs and decimals.    *)
EncodeBytes(s, c) == If(c.type = "STRING", LenencStr(s))

-----------------------------------------------------------------------------
(* Dates.  A moment is [y, mo, d, h, mi, s, us]; chrono's has nanoseconds, *)
(* ns, instead of us.                                                      *)

MomentWidths == <<1, 2, 1, 1, 1, 1, 1, 4>>
MomentParts(t, us) == <<t.y, t.mo, t.d, t.h, t.mi, t.s, us>>
MomentFields(len, t, us) ==
  LET parts == CASE len = 0 -> 0 [] len = 4 -> 3 [] len = 7 -> 6 [] len = 11 -> 7
  IN  Fields(MomentWidths, <<len>> \o SubSeq(MomentParts(t, us), 1, parts))

ChronoYear(t) == 0 <= t.y /\ t.y <= 9999

NaiveDateText(t) == If(ChronoYear(t), Text("moment", SubSeq(MomentParts(t, 0), 1, 3)))

EncodeNaiveDate(t, c) == If(c.type = "DATE" /\ ChronoYear(t), MomentFields(4, t, 0))

ValidChronoDatetime(t) == ChronoYear(t) /\ t.ns < 1000000000

MomentText(t, us) == Text("moment", SubSeq(MomentParts(t, us), 1, IF us # 0 THEN 7 ELSE 6))

NaiveDateTimeText(t) == If(ValidChronoDatetime(t), MomentText(t, t.ns \div 1000))

EncodeNaiveDateTime(t, c) ==
  LET us == t.ns \div 1000
  IN  If(c.type = "DATETIME" /\ ValidChronoDatetime(t),
         MomentFields(IF us # 0 THEN 11 ELSE 7, t, us))

ValidDate(t) ==
  /\ t.y <= 9999 /\ t.mo <= 12 /\ t.d <= 31
  /\ t.h <= 23 /\ t.mi <= 59 /\ t.s <= 59 /\ t.us <= 999999

TimeOfDay(t) == <<t.h, t.mi, t.s>> # <<0, 0, 0>>

DateLength(t) ==
  CASE t.us # 0 -> 11
    [] t.us = 0 /\ TimeOfDay(t) -> 7
    [] OTHER -> IF <<t.y, t.mo, t.d>> # <<0, 0, 0>> THEN 4 ELSE 0

ValueDateText(t) == If(ValidDate(t), MomentText(t, t.us))

ValueDateTextInColumn(t, c) ==
  IF c.type # "DATE" THEN ValueDateText(t)
  ELSE If(ValidDate(t) /\ ~TimeOfDay(t) /\ t.us = 0,
          Text("moment", SubSeq(MomentParts(t, 0), 1, 3)))

EncodeValueDate(t, c) ==
  If(/\ ValidDate(t)
     /\ \/ c.type = "DATETIME"
        \/ c.type = "DATE" /\ ~TimeOfDay(t) /\ t.us = 0,
     MomentFields(DateLength(t), t, t.us))

-----------------------------------------------------------------------------
(* Times.  A duration is [secs, us], a MySQL time [neg, d, h, mi, s, us].  *)

MaxSeconds == 838 * 3600 + 59 * 60 + 59

ValidDuration_wholeSeconds(dur) == dur.secs <= MaxSeconds
ValidDuration(dur) == dur.secs < MaxSeconds \/ (dur.secs = MaxSeconds /\ dur.us = 0)

IsZero(dur) == dur.secs = 0 /\ dur.us = 0

TimeText(dur, neg) ==
  If(ValidDuration(dur),
     Text("time", <<IF neg = 1 /\ ~IsZero(dur) THEN -1 ELSE 1, dur.secs \div 3600,
                    (dur.secs % 3600) \div 60, dur.secs % 60>>
                  \o (IF dur.us # 0 THEN <<dur.us>> ELSE <<>>)))

EncodeTime(dur, neg, c) ==
  LET len == IF IsZero(dur) THEN 0 ELSE IF dur.us # 0 THEN 12 ELSE 8
      parts == <<neg, dur.secs \div 86400, (dur.secs % 86400) \div 3600,
                 (dur.secs % 3600) \div 60, dur.secs % 60, dur.us>>
      sent == CASE len = 0 -> 0 [] len = 8 -> 5 [] len = 12 -> 6
  IN  If(c.type = "TIME" /\ ValidDuration(dur),
         Fields(<<1, 1, 4, 1, 1, 1, 4>>, <<len>> \o SubSeq(parts, 1, sent)))

OfDuration(d) == [secs |-> d.secs, us |-> d.ns \div 1000]

ValidTimeParts(t) == t.h <= 23 /\ t.mi <= 59 /\ t.s <= 59 /\ t.us <= 999999
OfTime(t) == [secs |-> t.d * 86400 + t.h * 3600 + t.mi * 60 + t.s, us |-> t.us]

-----------------------------------------------------------------------------
(* All types together.                                                     *)

Unwrapped(v) == IF v.type \in {"ref", "Some"} THEN v.is ELSE v

(* is_null, which &T and Some(_) do not pass on.                           *)
IsNullValue(v) == v.type \in {"None", "NULL"}

(* unreachable!() in to_mysql_bin.                                         *)
Unreachable(v) == Unwrapped(v).type \in {"None", "NULL"}

ToMysqlBin(v, c) ==
  LET x == Unwrapped(v)
  IN  CASE x.type \in {"usize", "isize"} -> EncodeForgiving(x.is, c)
        [] x.type = "u8" -> EncodeU8(x.is, c)
        [] x.type = "i8" -> EncodeI8(x.is, c)
        [] x.type = "u16" -> EncodeU16(x.is, c)
        [] x.type = "i16" -> EncodeI16(x.is, c)
        [] x.type = "u32" -> EncodeU32(x.is, c)
        [] x.type = "i32" -> EncodeI32(x.is, c)
        [] x.type \in {"u64", "UInt"} -> EncodeU64(x.is, c)
        [] x.type = "i64" -> EncodeI64(x.is, c)
        [] x.type = "Int" -> EncodeValueInt(x.is, c)
        [] x.type \in {"f32", "Float"} -> EncodeF32(x.is, c)
        [] x.type \in {"f64", "Double"} -> EncodeF64(x.is, c)
        [] x.type \in {"bytes", "Bytes"} -> EncodeBytes(x.is, c)
        [] x.type = "NaiveDate" -> EncodeNaiveDate(x.is, c)
        [] x.type = "NaiveDateTime" -> EncodeNaiveDateTime(x.is, c)
        [] x.type = "Duration" -> EncodeTime(OfDuration(x.is), 0, c)
        [] x.type = "Date" -> EncodeValueDate(x.is, c)
        [] x.type = "Time" ->
             IF ValidTimeParts(x.is) THEN EncodeTime(OfTime(x.is), x.is.neg, c) ELSE Refused

ToMysqlText(v, c) ==
  LET x == Unwrapped(v)
  IN  CASE x.type \in {"None", "NULL"} -> Writes(Text("null", <<>>))
        [] x.type \in {"bytes", "Bytes"} -> Writes(LenencStr(x.is))
        [] x.type = "NaiveDate" -> NaiveDateText(x.is)
        [] x.type = "NaiveDateTime" -> NaiveDateTimeText(x.is)
        [] x.type = "Duration" -> TimeText(OfDuration(x.is), 0)
        [] x.type = "Date" -> ValueDateTextInColumn(x.is, c)
        [] x.type = "Time" ->
             IF ValidTimeParts(x.is) THEN TimeText(OfTime(x.is), x.is.neg) ELSE Refused
        [] OTHER -> Writes(Text("number", <<x.is>>))
=============================================================================
