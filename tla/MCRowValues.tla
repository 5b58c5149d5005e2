---------------------------- MODULE MCRowValues ----------------------------
(* Instances of RowValues for TLC: one and two bytes are real, four and    *)
(* eight bytes are cut to what TLC's integers hold.  The values lie at the *)
(* limits of the types and of the checks.                                  *)
EXTENDS RowValues

MCHalf == (1 :> 128) @@ (2 :> 32768) @@ (4 :> 2097152) @@ (8 :> 16777216)

MCNumbers ==
  {-2097153, -32769, -129, -128, -1, 0, 127, 128, 255, 256, 32767, 32768, 65536, 2097152,
   4194304, 33554431}

MCStrings == {<<>>, <<7, 255>>}

At(y, mo, d, h, mi, s, us) ==
  [y |-> y, mo |-> mo, d |-> d, h |-> h, mi |-> mi, s |-> s, us |-> us]
MCMoments ==
  {At(0, 0, 0, 0, 0, 0, 0), At(2024, 2, 9, 0, 0, 0, 0), At(2024, 2, 9, 23, 0, 59, 0),
   At(9999, 12, 30, 0, 0, 0, 1), At(2024, 0, 1, 1, 0, 0, 999999)}

For(neg, d, h, mi, s, us) == [neg |-> neg, d |-> d, h |-> h, mi |-> mi, s |-> s, us |-> us]
MCTimes ==
  {For(1, 0, 0, 0, 0, 0), For(0, 0, 0, 0, 0, 1), For(1, 2, 3, 4, 5, 0), For(0, 34, 22, 59, 59, 0),
   For(0, 1, 0, 0, 0, 0)}

Chrono(t, ns) == [y |-> t.y, mo |-> t.mo, d |-> t.d, h |-> t.h, mi |-> t.mi, s |-> t.s, ns |-> ns]

OfType(type, values) == {[type |-> type, is |-> x] : x \in values}

AllValues ==
  UNION {OfType(t, MCNumbers \cap RustInteger[t]) : t \in DOMAIN RustInteger}
    \cup OfType("usize", MCNumbers \cap RangeOf(8, FALSE)) \cup OfType("isize", MCNumbers \cap RangeOf(8, TRUE))
    \cup OfType("Int", MCNumbers \cap RangeOf(8, TRUE)) \cup OfType("UInt", MCNumbers \cap RangeOf(8, FALSE))
    \cup OfType("f32", {3}) \cup OfType("f64", {3}) \cup OfType("Float", {4}) \cup OfType("Double", {4})
    \cup OfType("bytes", MCStrings) \cup OfType("None", {0}) \cup OfType("NULL", {0})
    \cup OfType("NaiveDate", {Chrono(At(y, 1, 9, 0, 0, 0, 0), 0) : y \in {-1, 0, 9999, 10000}})
    \cup OfType("NaiveDateTime", {Chrono(At(2024, 1, 9, 7, 8, 9, 0), ns) : ns \in {0, 999, 1000, 999999999, 1000000000}})
    \cup OfType("Date", MCMoments \cup {At(10000, 1, 1, 0, 0, 0, 0), At(1, 1, 1, 24, 0, 0, 0)})
    \cup OfType("Duration", {[secs |-> s, ns |-> ns] : s \in {0, 86400, MaxSeconds, MaxSeconds + 1}, ns \in {0, 999, 1000}})
    \cup OfType("Time", MCTimes \cup {For(0, 34, 22, 59, 59, 1), For(1, 35, 0, 0, 0, 0), For(0, 0, 24, 0, 0, 0)})
    \cup OfType("ref", OfType("u8", {5})) \cup OfType("Some", OfType("Int", {-1}))

FewValues ==
  OfType("Int", {-1, 300}) \cup OfType("bytes", {<<7, 255>>}) \cup OfType("None", {0})
    \cup OfType("Date", {At(9999, 12, 30, 0, 0, 0, 1)}) \cup OfType("Time", {For(1, 2, 3, 4, 5, 0)})

(* Everything in the first column, a few values behind it. *)
MCValues(n) == IF n = 0 THEN AllValues ELSE FewValues

MCWrappedNulls(n) == OfType("ref", OfType("None", {0}) \cup OfType("NULL", {0})) \cup OfType("None", {0})

Nullable(type, unsigned) == [type |-> type, unsigned |-> unsigned, notnull |-> FALSE]
Required(type, unsigned) == [type |-> type, unsigned |-> unsigned, notnull |-> TRUE]

MCTables ==
  {<<Nullable(t, u), Nullable("TINY", FALSE)>> :
     t \in {"TINY", "SHORT", "YEAR", "LONG", "INT24", "LONGLONG"}, u \in BOOLEAN}
    \cup {<<Required(t, FALSE), Nullable("STRING", FALSE), Nullable("TIME", FALSE)>> :
            t \in {"FLOAT", "DOUBLE", "DATE", "DATETIME", "TIME", "STRING"}}
    \cup {<<Nullable("TIME", FALSE), Nullable("DATETIME", FALSE), Nullable("LONG", FALSE)>>}

MCNullTable == {<<Nullable("TINY", FALSE), Nullable(t, FALSE)>> : t \in {"LONG", "STRING"}}
=============================================================================
