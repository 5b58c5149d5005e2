----------------------------- MODULE ValueProofs -----------------------------
(***************************************************************************)
(* Proofs about the values and the rows of a result, for every width of    *)
(* the integers, every table, value, parameter and packet limit that       *)
(* WidthAssumption and RowAssumption admit.  In the order of the module:   *)
(*                                                                         *)
(*   - an integer written into a column is read back as the number that    *)
(*     was written, and refused only where it does not fit;                *)
(*   - what to_mysql_bin and to_mysql_text accept is read by the client as *)
(*     what the value means (BinaryCarries, TextShows);                    *)
(*   - a parameter means the same once it has been converted to a Rust     *)
(*     type (ParameterEchoes);                                             *)
(*   - the rows that are sent are read as they were meant (RowsDecode):    *)
(*     RowInv says that of the unfinished row, whatever fields follow it;  *)
(*   - what is refused is refused for a reason (RefusalsAreJustified).     *)
(*                                                                         *)
(* The model checker's widths are cut to its own integers; here Half is    *)
(* any function WidthAssumption admits, 2^(8w - 1) among them.             *)
(***************************************************************************)
EXTENDS RowValues, SequenceInduction

ByteWidths == {1, 2, 4, 8}

(* Two's complement: a number of either sign in a field of 2h values.      *)
LEMMA Wraps ==
  ASSUME NEW h \in Nat \ {0}, NEW n \in -h .. h - 1
  PROVE  n % (2 * h) = IF n >= 0 THEN n ELSE n + 2 * h
  BY SMT

(* A number that fits an unsigned field is kept as it is.                  *)
LEMMA Keeps ==
  ASSUME NEW h \in Nat \ {0}, NEW n \in 0 .. 2 * h - 1
  PROVE  n % (2 * h) = n
<1>1. 2 * h \in Nat \ {0}
  OBVIOUS
<1> QED
  BY <1>1, SMT

(* Each width of integers holds something.                                 *)
LEMMA HalfIsPositive ==
  ASSUME NEW w \in ByteWidths
  PROVE  Half[w] \in Nat \ {0}
  BY WidthAssumption DEF ByteWidths

(* An integer column is as wide as one of the integers of Rust.            *)
LEMMA ColumnWidth ==
  ASSUME NEW c, IsInteger(c)
  PROVE  Width(c) \in ByteWidths
  BY DEF IsInteger, Width, IntegerWidth, ByteWidths

(* A wider integer of the same sign, or a signed one, holds as much.       *)
LEMMA WiderHoldsMore ==
  ASSUME NEW v \in ByteWidths, NEW w \in ByteWidths, v < w,
         NEW from \in BOOLEAN, NEW to \in BOOLEAN,
         NEW n \in RangeOf(v, from), to \/ n >= 0
  PROVE  n \in RangeOf(w, to)
<1>1. 2 * Half[v] <= Half[w]
  BY WidthAssumption DEF ByteWidths
<1>2. Half[v] \in Nat \ {0} /\ Half[w] \in Nat \ {0}
  BY HalfIsPositive
<1> QED
  BY <1>1, <1>2 DEF RangeOf

(* parse_from for a signed integer.                                        *)
LEMMA ParsesSigned ==
  ASSUME NEW c, IsInteger(c), ~c.unsigned, NEW fields
  PROVE  ParseFrom(fields, c).is =
           IF fields[1].holds < Half[fields[1].width]
             THEN fields[1].holds ELSE fields[1].holds - 2 * Half[fields[1].width]
<1> DEFINE number == IF fields[1].holds < Half[fields[1].width]
                       THEN fields[1].holds ELSE fields[1].holds - 2 * Half[fields[1].width]
<1>1. c.type \notin {"FLOAT", "DOUBLE", "STRING"}
  BY DEF IsInteger, IntegerWidth
<1>2. ParseFrom(fields, c) = [kind |-> "Int", is |-> number]
  BY <1>1 DEF ParseFrom
<1> HIDE DEF number
<1>3. ParseFrom(fields, c).is = number
  BY <1>2
<1> QED
  BY <1>3 DEF number

(* A number in the range of its column's type survives the field.          *)
LEMMA FieldReadsBack ==
  ASSUME NEW c, c.unsigned \in BOOLEAN, IsInteger(c),
         NEW n, n \in RangeOf(Width(c), Signed(c))
  PROVE  ParseFrom(Integer(n, c), c).is = n
<1> DEFINE h == Half[Width(c)]
           field == Field(Width(c), n)
<1>1. h \in Nat \ {0}
  BY ColumnWidth, HalfIsPositive
<1>2. field.holds = n % (2 * h) /\ field.width = Width(c)
  BY DEF Field
<1>3. Integer(n, c)[1] = field
  BY DEF Integer
<1>4. CASE c.unsigned
  <2>1. n \in 0 .. 2 * h - 1
    BY <1>4 DEF RangeOf, Signed
  <2>2. field.holds = n
    BY <1>1, <1>2, <2>1, Keeps
  <2> QED
    BY <1>3, <1>4, <2>2 DEF ParseFrom
<1>5. CASE ~c.unsigned
  <2>1. n \in -h .. h - 1
    BY <1>5 DEF RangeOf, Signed
  <2>2. field.holds = IF n >= 0 THEN n ELSE n + 2 * h
    BY <1>1, <1>2, <2>1, Wraps
  <2>3. (IF field.holds < h THEN field.holds ELSE field.holds - 2 * h) = n
    BY <1>1, <2>1, <2>2
  <2>4. ParseFrom(Integer(n, c), c).is = IF field.holds < h THEN field.holds ELSE field.holds - 2 * h
    BY <1>2, <1>3, <1>5, ParsesSigned
  <2> QED
    BY <2>3, <2>4
<1> QED
  BY <1>4, <1>5

(* What the sized integers accept is in the range of the column's type.    *)
LEMMA SizedFits ==
  ASSUME NEW w \in ByteWidths, NEW signed \in BOOLEAN, NEW n \in RangeOf(w, signed),
         NEW c, c.unsigned \in BOOLEAN, EncodeSized(w, signed, n, c).ok
  PROVE  /\ IsInteger(c) /\ n \in RangeOf(Width(c), Signed(c))
         /\ EncodeSized(w, signed, n, c).fields = Integer(n, c)
<1>1. /\ IsInteger(c)
      /\ \/ Width(c) = w /\ Signed(c) = signed
         \/ Width(c) > w /\ (Signed(c) \/ n >= 0)
      /\ EncodeSized(w, signed, n, c).fields = Integer(n, c)
  BY DEF EncodeSized, If, Writes, Refused
<1>2. Width(c) \in ByteWidths /\ Signed(c) \in BOOLEAN
  BY <1>1, ColumnWidth DEF Signed
<1>3. CASE Width(c) = w /\ Signed(c) = signed
  BY <1>1, <1>3
<1>4. CASE Width(c) > w /\ (Signed(c) \/ n >= 0)
  <2>1. w < Width(c)
    BY <1>2, <1>4 DEF ByteWidths
  <2> QED
    BY <1>1, <1>2, <1>4, <2>1, WiderHoldsMore
<1> QED
  BY <1>1, <1>3, <1>4

-----------------------------------------------------------------------------
(* u8, i8, ... i64: a number that is written into a column, its own type's *)
(* or a wider one of either sign, is the number a client reads there.      *)
THEOREM SizedIntegersReadBack ==
  ASSUME NEW w \in ByteWidths, NEW signed \in BOOLEAN, NEW n \in RangeOf(w, signed),
         NEW c, c.unsigned \in BOOLEAN, EncodeSized(w, signed, n, c).ok
  PROVE  ParseFrom(EncodeSized(w, signed, n, c).fields, c).is = n
<1>1. /\ IsInteger(c) /\ n \in RangeOf(Width(c), Signed(c))
      /\ EncodeSized(w, signed, n, c).fields = Integer(n, c)
  BY SizedFits
<1>2. ParseFrom(Integer(n, c), c).is = n
  BY <1>1, FieldReadsBack
<1> QED
  BY <1>1, <1>2

(* usize and isize likewise.                                               *)
THEOREM ForgivingIntegersReadBack ==
  ASSUME NEW n \in Int, NEW c, c.unsigned \in BOOLEAN, EncodeForgiving(n, c).ok
  PROVE  ParseFrom(EncodeForgiving(n, c).fields, c).is = n
<1>1. /\ IsInteger(c) /\ n \in RangeOf(Width(c), Signed(c))
      /\ EncodeForgiving(n, c).fields = Integer(n, c)
  BY DEF EncodeForgiving, If, Writes, Refused
<1>2. ParseFrom(Integer(n, c), c).is = n
  BY <1>1, FieldReadsBack
<1> QED
  BY <1>1, <1>2

(* The type Value::Int is cast to is one that holds the number, and no     *)
(* wider than any that does.                                               *)
LEMMA SmallestHolder ==
  ASSUME NEW n \in RangeOf(8, TRUE), NEW signed \in BOOLEAN, signed \/ n >= 0
  PROVE  LET holds == {w \in DOMAIN Half : n \in RangeOf(w, signed)}
             w == CHOOSE w \in holds : \A x \in holds : w <= x
         IN  w \in holds /\ \A x \in holds : w <= x
<1> DEFINE holds == {w \in DOMAIN Half : n \in RangeOf(w, signed)}
<1>1. DOMAIN Half = ByteWidths
  BY WidthAssumption DEF ByteWidths
<1>2. n \in RangeOf(8, signed)
  BY HalfIsPositive DEF RangeOf, ByteWidths
<1>3. holds \subseteq {1, 2, 4, 8} /\ 8 \in holds
  BY <1>1, <1>2 DEF ByteWidths
<1>4. \E w \in holds : \A x \in holds : w <= x
  <2> HIDE DEF holds
  <2>1. CASE 1 \in holds
    BY <1>3, <2>1
  <2>2. CASE 1 \notin holds /\ 2 \in holds
    BY <1>3, <2>2
  <2>3. CASE 1 \notin holds /\ 2 \notin holds /\ 4 \in holds
    BY <1>3, <2>3
  <2>4. CASE 1 \notin holds /\ 2 \notin holds /\ 4 \notin holds
    BY <1>3, <2>4
  <2> QED
    BY <2>1, <2>2, <2>3, <2>4
<1> HIDE DEF holds
<1>5. LET w == CHOOSE w \in holds : \A x \in holds : w <= x
      IN  w \in holds /\ \A x \in holds : w <= x
  BY <1>4
<1> QED
  BY <1>5 DEF holds

(* Value::Int is written into an integer column exactly when the column's  *)
(* type can hold the number, and is then read back as that number.         *)
THEOREM ValueIntWrittenIfItFits ==
  ASSUME NEW n \in RangeOf(8, TRUE), NEW c, c.unsigned \in BOOLEAN
  PROVE  /\ EncodeValueInt(n, c).ok <=> IsInteger(c) /\ n \in RangeOf(Width(c), Signed(c))
         /\ EncodeValueInt(n, c).ok => ParseFrom(EncodeValueInt(n, c).fields, c).is = n
<1> DEFINE holds == {w \in DOMAIN Half : n \in RangeOf(w, Signed(c))}
           w == CHOOSE w \in holds : \A x \in holds : w <= x
<1>1. Signed(c) \in BOOLEAN
  BY DEF Signed
<1>2. n \in Int
  BY HalfIsPositive DEF RangeOf, ByteWidths
<1>3. CASE ~Signed(c) /\ n < 0
  <2>1. ~EncodeValueInt(n, c).ok
    BY <1>3 DEF EncodeValueInt, Refused
  <2>2. \A v : n \notin RangeOf(v, Signed(c))
    BY <1>2, <1>3 DEF RangeOf
  <2> QED
    BY <2>1, <2>2
<1>4. CASE Signed(c) \/ n >= 0
  <2>1. w \in holds /\ \A x \in holds : w <= x
    BY <1>1, <1>4, SmallestHolder
  <2>2. EncodeValueInt(n, c) = EncodeSized(w, Signed(c), n, c)
    BY <1>2, <1>4 DEF EncodeValueInt
  <2>3. DOMAIN Half = ByteWidths
    BY WidthAssumption DEF ByteWidths
  <2>4. w \in ByteWidths /\ n \in RangeOf(w, Signed(c))
    BY <2>1, <2>3
  <2>5. ASSUME IsInteger(c), n \in RangeOf(Width(c), Signed(c))
        PROVE  EncodeSized(w, Signed(c), n, c).ok
    <3>1. Width(c) \in ByteWidths
      BY <2>5, ColumnWidth
    <3>2. w <= Width(c)
      BY <2>1, <2>3, <2>5, <3>1
    <3> HIDE DEF w
    <3>3. Width(c) = w \/ Width(c) > w
      BY <2>4, <3>1, <3>2 DEF ByteWidths
    <3> QED
      BY <1>4, <2>5, <3>3 DEF EncodeSized, If, Writes
  <2>6. EncodeSized(w, Signed(c), n, c).ok => IsInteger(c) /\ n \in RangeOf(Width(c), Signed(c))
    <3> HIDE DEF w
    <3> QED
      BY <1>1, <2>4, SizedFits
  <2>7. EncodeSized(w, Signed(c), n, c).ok
          => ParseFrom(EncodeSized(w, Signed(c), n, c).fields, c).is = n
    <3> HIDE DEF w
    <3> QED
      BY <1>1, <2>4, SizedIntegersReadBack
  <2> HIDE DEF w
  <2> QED
    BY <2>2, <2>5, <2>6, <2>7
<1> QED
  BY <1>1, <1>2, <1>3, <1>4

-----------------------------------------------------------------------------
(* What the encodings write is decoded by the client.                      *)

AField ==
  [form : {"bits", "string", "moment", "time", "number", "null"}, width : Nat, holds : Nat \cup Seq(Int)]

(* The client finds a value in front of whatever follows, and all of it.   *)
Decodes(c, fields, meaning) ==
  \A rest \in Seq(AField) :
    ReadsValue(c, fields \o rest) = [meaning |-> meaning, fields |-> Len(fields)]

(* Fields of the given widths that hold the given numbers.                 *)
Holding(fields, widths, ns) ==
  /\ fields \in Seq(AField) /\ Len(fields) = Len(ns)
  /\ \A i \in 1 .. Len(ns) :
       fields[i].form = "bits" /\ fields[i].width = widths[i] /\ fields[i].holds = ns[i]

(* A field of bits holds the number that fits it.                          *)
LEMMA FieldHolds ==
  ASSUME NEW w \in ByteWidths, NEW n \in Nat, n < 2 * Half[w]
  PROVE  Field(w, n) \in AField /\ Field(w, n) = [form |-> "bits", width |-> w, holds |-> n]
<1>1. Half[w] \in Nat \ {0}
  BY HalfIsPositive
<1>2. n \in 0 .. 2 * Half[w] - 1
  BY <1>1
<1>3. n % (2 * Half[w]) = n
  BY <1>1, <1>2, Keeps
<1>4. Field(w, n) = [form |-> "bits", width |-> w, holds |-> n]
  BY <1>3 DEF Field
<1>5. w \in Nat
  BY DEF ByteWidths
<1>6. [form |-> "bits", width |-> w, holds |-> n] \in AField
  BY <1>5 DEF AField
<1> QED
  BY <1>4, <1>6

(* Fields of bits of the widths given hold the numbers that fit them.      *)
LEMMA FieldsHold ==
  ASSUME NEW widths, NEW ns \in Seq(Nat),
         \A i \in 1 .. Len(ns) : widths[i] \in ByteWidths /\ ns[i] < 2 * Half[widths[i]]
  PROVE  Holding(Fields(widths, ns), widths, ns)
<1> DEFINE fs == Fields(widths, ns)
           n == Len(ns)
<1>1. n \in Nat /\ DOMAIN ns = 1 .. n /\ \A i \in 1 .. n : ns[i] \in Nat
  OBVIOUS
<1>2. fs = [i \in 1 .. n |-> Field(widths[i], ns[i])]
  BY <1>1 DEF Fields
<1>3. \A i \in 1 .. n : fs[i] \in AField /\ fs[i] = [form |-> "bits", width |-> widths[i], holds |-> ns[i]]
  <2> SUFFICES ASSUME NEW i \in 1 .. n
               PROVE  fs[i] \in AField /\ fs[i] = [form |-> "bits", width |-> widths[i], holds |-> ns[i]]
    OBVIOUS
  <2>1. fs[i] = Field(widths[i], ns[i])
    BY <1>2
  <2> QED
    BY <1>1, <2>1, FieldHolds
<1> HIDE DEF fs, n
<1>4. fs = [i \in 1 .. n |-> fs[i]]
  BY <1>2
<1>5. fs \in Seq(AField) /\ Len(fs) = n
  BY <1>1, <1>3, <1>4, FunctionIsSequence
<1>6. ASSUME NEW i \in 1 .. n
      PROVE  fs[i].form = "bits" /\ fs[i].width = widths[i] /\ fs[i].holds = ns[i]
  <2>1. fs[i] = [form |-> "bits", width |-> widths[i], holds |-> ns[i]]
    BY <1>3
  <2> QED
    BY <2>1
<1>7. Holding(fs, widths, ns)
  BY <1>5, <1>6 DEF Holding, n
<1> QED
  BY <1>7 DEF fs

-----------------------------------------------------------------------------
(* Integers, floats and strings: one field.                                *)

(* A sequence of one field, and more.                                      *)
LEMMA OneField ==
  ASSUME NEW f \in AField, NEW rest \in Seq(AField)
  PROVE  /\ <<f>> \in Seq(AField) /\ Len(<<f>>) = 1
         /\ <<f>> \o rest # <<>> /\ Len(<<f>> \o rest) = 1 + Len(rest)
         /\ (<<f>> \o rest)[1] = f
OBVIOUS

(* The client reads one field of bits: below zero only in a signed integer *)
(* column.                                                                 *)
LEMMA BitsRead ==
  ASSUME NEW c, NEW w \in ByteWidths, NEW n \in Nat, n < 2 * Half[w], NEW rest \in Seq(AField),
         c.type \notin {"STRING", "DATE", "DATETIME", "TIME"},
         \A f : Widths(c, f) = <<w>>
  PROVE  ReadsValue(c, <<Field(w, n)>> \o rest) =
           IF IsInteger(c) /\ ~c.unsigned /\ n >= Half[w]
             THEN [meaning |-> Means("number", <<n - 2 * Half[w]>>), fields |-> 1]
             ELSE [meaning |-> Means("number", <<n>>), fields |-> 1]
<1> DEFINE f == Field(w, n)
           left == <<f>> \o rest
           ws == Widths(c, left[1])
<1>1. f \in AField /\ f.form = "bits" /\ f.width = w /\ f.holds = n
  BY FieldHolds
<1> HIDE DEF f
<1>2. left # <<>> /\ Len(left) = 1 + Len(rest) /\ left[1] = f
  BY <1>1, OneField
<1>3. ws = <<w>>
  OBVIOUS
<1> HIDE DEF left, ws
<1>4. Len(ws) = 1 /\ DOMAIN ws = {1} /\ ws[1] = w
  BY <1>3
<1>5. ~(\/ Len(ws) > Len(left) \/ \E i \in DOMAIN ws : left[i].form # "bits" \/ left[i].width # ws[i])
  BY <1>1, <1>2, <1>4
<1>6. ReadsValue(c, left) =
        IF IsInteger(c) /\ ~c.unsigned /\ left[1].holds >= Half[ws[1]]
          THEN [meaning |-> Means("number", <<left[1].holds - 2 * Half[ws[1]]>>), fields |-> 1]
          ELSE [meaning |-> Means("number", <<left[1].holds>>), fields |-> 1]
  <2>1. left[1].form = "bits"
    BY <1>1, <1>2
  <2>2. c.type # "STRING" /\ c.type \notin {"DATE", "DATETIME"} /\ c.type # "TIME"
    OBVIOUS
  <2> QED
    BY <1>2, <1>5, <2>1, <2>2 DEF ReadsValue, ws
<1>7. ReadsValue(c, left) =
        IF IsInteger(c) /\ ~c.unsigned /\ n >= Half[w]
          THEN [meaning |-> Means("number", <<n - 2 * Half[w]>>), fields |-> 1]
          ELSE [meaning |-> Means("number", <<n>>), fields |-> 1]
  BY <1>1, <1>2, <1>4, <1>6
<1> QED
  BY <1>7 DEF left, f

(* An integer column has one field, of the column's own width.             *)
LEMMA IntegerWidths ==
  ASSUME NEW c, IsInteger(c)
  PROVE  c.type \notin {"FLOAT", "DOUBLE", "STRING", "DATE", "DATETIME", "TIME"}
         /\ \A f : Widths(c, f) = <<Width(c)>>
<1>1. c.type \notin {"FLOAT", "DOUBLE", "STRING", "DATE", "DATETIME", "TIME"}
  BY DEF IsInteger, IntegerWidth
<1>2. \A f : Widths(c, f) = <<Width(c)>>
  BY <1>1 DEF Widths
<1> QED
  BY <1>1, <1>2

(* What write_le puts into an integer column is read back, signed or not.  *)
LEMMA IntegerDecodes ==
  ASSUME NEW c, c.unsigned \in BOOLEAN, IsInteger(c), NEW n \in RangeOf(Width(c), Signed(c))
  PROVE  /\ Integer(n, c) \in Seq(AField)
         /\ Decodes(c, Integer(n, c), Means("number", <<n>>))
<1> DEFINE w == Width(c)
           h == Half[w]
           held == IF n >= 0 THEN n ELSE n + 2 * h
<1>1. w \in ByteWidths /\ h \in Nat \ {0}
  BY ColumnWidth, HalfIsPositive
<1>2. n \in Int /\ held \in Nat /\ held < 2 * h
      /\ (~c.unsigned => n \in -h .. h - 1) /\ (c.unsigned => n \in 0 .. 2 * h - 1)
  BY <1>1 DEF RangeOf, Signed
<1>3. n % (2 * h) = held
  <2>1. CASE c.unsigned
    BY <1>1, <1>2, <2>1, Keeps
  <2>2. CASE ~c.unsigned
    BY <1>1, <1>2, <2>2, Wraps
  <2> QED
    BY <2>1, <2>2
<1>4. held % (2 * h) = held
  BY <1>1, <1>2, Keeps
<1>5. Integer(n, c) = <<Field(w, held)>>
  BY <1>3, <1>4 DEF Integer, Field
<1>6. Field(w, held) \in AField
  BY <1>1, <1>2, FieldHolds
<1>7. Integer(n, c) \in Seq(AField) /\ Len(Integer(n, c)) = 1
  BY <1>5, <1>6
<1>8. ASSUME NEW rest \in Seq(AField)
      PROVE  ReadsValue(c, Integer(n, c) \o rest) = [meaning |-> Means("number", <<n>>), fields |-> 1]
  <2>1. c.type \notin {"STRING", "DATE", "DATETIME", "TIME"} /\ \A f : Widths(c, f) = <<w>>
    BY IntegerWidths
  <2> HIDE DEF w, h, held
  <2>2. ReadsValue(c, <<Field(w, held)>> \o rest) =
          IF IsInteger(c) /\ ~c.unsigned /\ held >= Half[w]
            THEN [meaning |-> Means("number", <<held - 2 * Half[w]>>), fields |-> 1]
            ELSE [meaning |-> Means("number", <<held>>), fields |-> 1]
    BY <1>1, <1>2, <2>1, BitsRead DEF h
  <2>3. IF IsInteger(c) /\ ~c.unsigned /\ held >= Half[w] THEN held - 2 * Half[w] = n ELSE held = n
    BY <1>1, <1>2 DEF h, held
  <2> QED
    BY <1>5, <2>2, <2>3
<1> QED
  BY <1>7, <1>8 DEF Decodes

(* A float, in a column of its type.                                       *)
FloatFits(c, w, n) ==
  c.type \in {"FLOAT", "DOUBLE"} /\ w = (IF c.type = "FLOAT" THEN 4 ELSE 8) /\ n \in RangeOf(w, FALSE)

(* A float that fits its column is read back.                              *)
LEMMA FloatDecodes ==
  ASSUME NEW c, NEW w, NEW n, FloatFits(c, w, n)
  PROVE  /\ <<Field(w, n)>> \in Seq(AField) /\ Decodes(c, <<Field(w, n)>>, Means("number", <<n>>))
<1>0. /\ c.type \in {"FLOAT", "DOUBLE"} /\ n \in RangeOf(w, FALSE)
      /\ (c.type = "FLOAT" => w = 4) /\ (c.type = "DOUBLE" => w = 8)
  BY DEF FloatFits
<1>1. w \in ByteWidths /\ Half[w] \in Nat \ {0}
  BY <1>0, HalfIsPositive DEF ByteWidths
<1>2. n \in Nat /\ n < 2 * Half[w]
  BY <1>0, <1>1 DEF RangeOf
<1>3. ~IsInteger(c)
  BY <1>0 DEF IsInteger, IntegerWidth
<1>4. c.type \notin {"STRING", "DATE", "DATETIME", "TIME"} /\ \A f : Widths(c, f) = <<w>>
  BY <1>0, <1>3 DEF Widths
<1>5. <<Field(w, n)>> \in Seq(AField) /\ Len(<<Field(w, n)>>) = 1
  BY <1>1, <1>2, FieldHolds
<1>6. ASSUME NEW rest \in Seq(AField)
      PROVE  ReadsValue(c, <<Field(w, n)>> \o rest) = [meaning |-> Means("number", <<n>>), fields |-> 1]
  <2>1. ReadsValue(c, <<Field(w, n)>> \o rest) =
          IF IsInteger(c) /\ ~c.unsigned /\ n >= Half[w]
            THEN [meaning |-> Means("number", <<n - 2 * Half[w]>>), fields |-> 1]
            ELSE [meaning |-> Means("number", <<n>>), fields |-> 1]
    BY <1>1, <1>2, <1>4, BitsRead
  <2> QED
    BY <1>3, <2>1
<1> QED
  BY <1>5, <1>6 DEF Decodes

(* A length-encoded string is read back.                                   *)
LEMMA StringDecodes ==
  ASSUME NEW c, c.type = "STRING", NEW s \in Seq(Nat)
  PROVE  LenencStr(s) \in Seq(AField) /\ Decodes(c, LenencStr(s), Means("string", s))
<1> DEFINE f == [form |-> "string", width |-> 1 + Len(s), holds |-> s]
<1>1. f \in AField
  BY DEF AField
<1>2. LenencStr(s) = <<f>>
  BY DEF LenencStr, Text
<1>3. f.form = "string" /\ f.holds = s
  OBVIOUS
<1> HIDE DEF f
<1>4. ASSUME NEW rest \in Seq(AField)
      PROVE  ReadsValue(c, <<f>> \o rest) = [meaning |-> Means("string", s), fields |-> 1]
  <2> DEFINE left == <<f>> \o rest
  <2>1. left # <<>> /\ left[1] = f
    BY <1>1, OneField
  <2> HIDE DEF left
  <2>2. ReadsValue(c, left) = [meaning |-> Means("string", left[1].holds), fields |-> 1]
    <3>1. left[1].form = "string"
      BY <1>3, <2>1
    <3> QED
      BY <2>1, <3>1 DEF ReadsValue
  <2> QED
    BY <1>3, <2>1, <2>2 DEF left
<1> QED
  BY <1>1, <1>2, <1>4 DEF Decodes

-----------------------------------------------------------------------------
(* Dates and times: a length, and as many parts as it stands for.          *)

AfterLength(ns) == [i \in 1 .. 7 |-> IF i < Len(ns) THEN ns[i + 1] ELSE 0]

TemporalMeaning(c, p) ==
  IF c.type = "TIME" THEN Time(p[1] # 0, p[2] * 86400 + p[3] * 3600 + p[4] * 60 + p[5], p[6])
                     ELSE Means("moment", p)

(* Fields of the widths the client expects in the column.                  *)
LaidOut(c, fields, widths, ns) ==
  /\ c.type \in {"DATE", "DATETIME", "TIME"}
  /\ ns \in Seq(Nat) /\ Len(ns) \in 1 .. 8 /\ Holding(fields, widths, ns)
  /\ Widths(c, fields[1]) \in Seq(Nat) /\ Len(Widths(c, fields[1])) = Len(ns)
  /\ \A i \in 1 .. Len(ns) : Widths(c, fields[1])[i] = widths[i]

(* A date or time laid out as its length byte says means its parts.        *)
LEMMA TemporalReads ==
  ASSUME NEW c, NEW widths, NEW ns, NEW fields, LaidOut(c, fields, widths, ns)
  PROVE  /\ fields \in Seq(AField)
         /\ Decodes(c, fields, TemporalMeaning(c, AfterLength(ns)))
<1> DEFINE n == Len(ns)
           p == AfterLength(ns)
           m == TemporalMeaning(c, p)
<1>1. /\ fields \in Seq(AField) /\ Len(fields) = n /\ n \in 1 .. 8
      /\ \A i \in 1 .. n : fields[i].form = "bits" /\ fields[i].width = widths[i] /\ fields[i].holds = ns[i]
  BY DEF LaidOut, Holding
<1>0. /\ c.type \in {"DATE", "DATETIME", "TIME"} /\ ns \in Seq(Nat)
      /\ Widths(c, fields[1]) \in Seq(Nat) /\ Len(Widths(c, fields[1])) = n
      /\ \A i \in 1 .. n : Widths(c, fields[1])[i] = widths[i]
  BY DEF LaidOut
<1> HIDE DEF n, p, m
<1>2. ASSUME NEW rest \in Seq(AField)
      PROVE  ReadsValue(c, fields \o rest) = [meaning |-> m, fields |-> n]
  <2> DEFINE left == fields \o rest
             ws == Widths(c, left[1])
             q == [i \in 1 .. 7 |-> IF i < Len(ws) THEN left[i + 1].holds ELSE 0]
  <2>1. Len(left) = n + Len(rest) /\ \A i \in 1 .. n : left[i] = fields[i]
    BY <1>1, Concatenated
  <2>2. left[1] = fields[1] /\ left # <<>> /\ Len(rest) \in Nat
    BY <1>1, <2>1
  <2> HIDE DEF left
  <2>3. Len(ws) = n /\ DOMAIN ws = 1 .. n /\ \A i \in 1 .. n : ws[i] = widths[i]
    BY <1>0, <2>2
  <2> HIDE DEF ws
  <2>4. ~(\/ Len(ws) > Len(left) \/ \E i \in DOMAIN ws : left[i].form # "bits" \/ left[i].width # ws[i])
    <3>1. \A i \in DOMAIN ws : left[i] = fields[i] /\ fields[i].form = "bits" /\ fields[i].width = ws[i]
      BY <1>1, <2>1, <2>3
    <3>2. \A i \in DOMAIN ws : left[i].form = "bits" /\ left[i].width = ws[i]
      BY <3>1
    <3>3. ~(Len(ws) > Len(left))
      BY <1>1, <2>1, <2>2, <2>3
    <3> QED
      BY <3>2, <3>3
  <2>5. q = p
    <3>1. ASSUME NEW i \in 1 .. 7, i < n PROVE left[i + 1].holds = ns[i + 1]
      <4>1. i + 1 \in 1 .. n
        BY <1>1, <3>1
      <4>2. left[i + 1] = fields[i + 1] /\ fields[i + 1].holds = ns[i + 1]
        BY <1>1, <2>1, <4>1
      <4> QED
        BY <4>2
    <3>2. \A i \in 1 .. 7 : (IF i < Len(ws) THEN left[i + 1].holds ELSE 0) = IF i < n THEN ns[i + 1] ELSE 0
      BY <2>3, <3>1
    <3> QED
      BY <3>2 DEF p, AfterLength, n
  <2> HIDE DEF q
  <2>6. left[1].form = "bits"
    BY <1>1, <2>2
  <2>7. c.type # "STRING" /\ ~IsInteger(c)
    BY <1>0 DEF IsInteger, IntegerWidth
  <2>8. CASE c.type = "TIME"
    <3>1. ReadsValue(c, left) =
            [meaning |-> Time(q[1] # 0, q[2] * 86400 + q[3] * 3600 + q[4] * 60 + q[5], q[6]),
             fields |-> Len(ws)]
      <4>1. c.type \notin {"DATE", "DATETIME"}
        BY <2>8
      <4> QED
        BY SMT, <2>2, <2>4, <2>6, <2>7, <2>8, <4>1 DEF ReadsValue, ws, q
    <3> QED
      BY <2>3, <2>5, <2>8, <3>1 DEF left, m, TemporalMeaning
  <2>9. CASE c.type \in {"DATE", "DATETIME"}
    <3>1. ReadsValue(c, left) = [meaning |-> Means("moment", q), fields |-> Len(ws)]
      BY SMT, <2>2, <2>4, <2>6, <2>7, <2>9 DEF ReadsValue, ws, q
    <3>2. c.type # "TIME"
      BY <2>9
    <3> QED
      BY <2>3, <2>5, <3>1, <3>2 DEF left, m, TemporalMeaning
  <2> QED
    BY <1>0, <2>8, <2>9
<1>3. Decodes(c, fields, m)
  BY <1>1, <1>2 DEF Decodes
<1> QED
  BY <1>1, <1>3 DEF m, p

(* The numbers a length and the first k parts make.                        *)
LEMMA Counted ==
  ASSUME NEW parts \in Seq(Nat), NEW k \in 0 .. Len(parts), NEW len \in Nat
  PROVE  LET ns == <<len>> \o SubSeq(parts, 1, k)
         IN  /\ ns \in Seq(Nat) /\ Len(ns) = 1 + k /\ ns[1] = len
             /\ \A i \in 1 .. k : ns[i + 1] = parts[i]
<1> DEFINE s == SubSeq(parts, 1, k)
           one == <<len>>
           ns == one \o s
<1>1. s \in Seq(Nat) /\ Len(s) = k /\ \A i \in 1 .. k : s[i] = parts[i]
  OBVIOUS
<1>2. one \in Seq(Nat) /\ Len(one) = 1 /\ one[1] = len
  OBVIOUS
<1> HIDE DEF one, s
<1>3. /\ ns \in Seq(Nat) /\ Len(ns) = Len(one) + Len(s)
      /\ \A i \in 1 .. Len(one) : ns[i] = one[i]
      /\ \A i \in 1 .. Len(s) : ns[Len(one) + i] = s[i]
  <2>1. one \in Seq(Nat) /\ s \in Seq(Nat)
    BY <1>1, <1>2
  <2>2. ns \in Seq(Nat) /\ Len(ns) = Len(one) + Len(s)
    BY <2>1, Concatenated
  <2>3. \A i \in 1 .. Len(one) : ns[i] = one[i]
    BY <2>1, Concatenated
  <2>4. \A i \in 1 .. Len(s) : ns[Len(one) + i] = s[i]
    BY <2>1, Concatenated
  <2> QED
    BY <2>2, <2>3, <2>4
<1> HIDE DEF ns
<1>4. \A i \in 1 .. k : ns[i + 1] = parts[i]
  BY SMTT(60), <1>1, <1>2, <1>3
<1>5. Len(ns) = 1 + k /\ ns[1] = len
  BY <1>1, <1>2, <1>3
<1> QED
  BY <1>3, <1>4, <1>5 DEF ns, one, s

(* A moment that MySQL can hold, none of whose parts is lost with k.       *)
Shown(parts, k) ==
  /\ parts \in Seq(Nat) /\ Len(parts) = 7 /\ k \in 0 .. 7
  /\ parts[1] <= 9999 /\ parts[7] <= 999999
  /\ \A i \in 2 .. 6 : parts[i] <= 59
  /\ \A i \in 1 .. 7 : i > k => parts[i] = 0

(* The parts behind a length byte are those that were shown, the others    *)
(* zero.                                                                   *)
LEMMA ShownAfterLength ==
  ASSUME NEW parts, NEW k, Shown(parts, k), NEW ns, Len(ns) = 1 + k,
         \A i \in 1 .. k : ns[i + 1] = parts[i]
  PROVE  AfterLength(ns) = parts
<1>1. /\ parts = [i \in 1 .. 7 |-> parts[i]] /\ k \in 0 .. 7
      /\ \A i \in 1 .. 7 : i > k => parts[i] = 0
  BY SMT DEF Shown
<1>2. \A i \in 1 .. 7 : (IF i < Len(ns) THEN ns[i + 1] ELSE 0) = parts[i]
  BY SMTT(60), <1>1
<1> QED
  BY <1>1, <1>2 DEF AfterLength

(* Parts that are not shown are zero.                                      *)
LEMMA ShownPadded ==
  ASSUME NEW parts, NEW k, Shown(parts, k)
  PROVE  Padded(SubSeq(parts, 1, k)) = parts
<1> DEFINE s == SubSeq(parts, 1, k)
<1>1. /\ parts = [i \in 1 .. 7 |-> parts[i]] /\ k \in 0 .. 7 /\ parts \in Seq(Nat) /\ Len(parts) = 7
      /\ \A i \in 1 .. 7 : i > k => parts[i] = 0
  BY SMT DEF Shown
<1>2. Len(s) = k /\ \A i \in 1 .. k : s[i] = parts[i]
  BY <1>1
<1> HIDE DEF s
<1>3. ASSUME NEW i \in 1 .. 7 PROVE (IF i <= Len(s) THEN s[i] ELSE 0) = parts[i]
  <2>1. CASE i <= k
    BY SMTT(60), <1>1, <1>2, <2>1
  <2>2. CASE i > k
    BY <1>1, <1>2, <2>2
  <2> QED
    BY <1>1, <2>1, <2>2
<1>4. Padded(s) = parts
  BY <1>1, <1>3 DEF Padded
<1> QED
  BY <1>4 DEF s

(* The elements of a sequence.                                             *)
LEMMA SeqElements ==
  ASSUME NEW S, NEW s \in Seq(S), NEW n, n = Len(s)
  PROVE  \A i \in 1 .. n : s[i] \in S
OBVIOUS

LengthParts(len) == CASE len = 0 -> 0 [] len = 4 -> 3 [] len = 7 -> 6 [] len = 11 -> 7

(* A date or datetime of any of its four lengths is read back.             *)
LEMMA MomentDecodes ==
  ASSUME NEW c, c.type \in {"DATE", "DATETIME"}, NEW len \in {0, 4, 7, 11}, NEW t, NEW us,
         Shown(MomentParts(t, us), LengthParts(len))
  PROVE  /\ MomentFields(len, t, us) \in Seq(AField)
         /\ Decodes(c, MomentFields(len, t, us), Means("moment", MomentParts(t, us)))
         /\ Holding(MomentFields(len, t, us), MomentWidths,
                    <<len>> \o SubSeq(MomentParts(t, us), 1, LengthParts(len)))
<1> DEFINE parts == MomentParts(t, us)
           k == LengthParts(len)
           ns == <<len>> \o SubSeq(parts, 1, k)
           fields == MomentFields(len, t, us)
           ws == Widths(c, fields[1])
<1>1. k \in 0 .. 7 /\ k + 1 = MomentFieldCount[len] /\ len \in DOMAIN MomentFieldCount
  BY DEF LengthParts, MomentFieldCount
<1>2. fields = Fields(MomentWidths, ns)
  BY DEF MomentFields, LengthParts
<1> HIDE DEF parts, k, fields
<1>3. parts \in Seq(Nat) /\ Len(parts) = 7 /\ \A i \in 1 .. 7 : parts[i] \in Nat
  <2>1. parts \in Seq(Nat) /\ Len(parts) = 7
    BY SMT DEF Shown, parts
  <2> QED
    BY <2>1, SeqElements
<1>4. ns \in Seq(Nat) /\ Len(ns) = 1 + k /\ ns[1] = len /\ \A i \in 1 .. k : ns[i + 1] = parts[i]
  BY SMTT(60), <1>1, <1>3, Counted
<1> HIDE DEF ns
<1>5. \A i \in 1 .. Len(ns) : MomentWidths[i] \in ByteWidths /\ ns[i] < 2 * Half[MomentWidths[i]]
  <2>1. /\ parts[1] <= 9999 /\ parts[7] <= 999999 /\ \A i \in 2 .. 6 : parts[i] <= 59
    BY SMT DEF Shown, parts
  <2>2. 60 <= 2 * Half[1] /\ 10000 <= 2 * Half[2] /\ 1000000 <= 2 * Half[4]
    BY SMT, RowAssumption
  <2>3. Half[1] \in Nat /\ Half[2] \in Nat /\ Half[4] \in Nat
    BY HalfIsPositive DEF ByteWidths
  <2>4. \A i \in 1 .. 8 : MomentWidths[i] \in ByteWidths /\ MomentWidths[i] = IF i = 2 THEN 2 ELSE IF i = 8 THEN 4 ELSE 1
    BY DEF MomentWidths, ByteWidths
  <2> SUFFICES ASSUME NEW i \in 1 .. Len(ns) PROVE ns[i] < 2 * Half[MomentWidths[i]]
    <3>1. \A i \in 1 .. Len(ns) : i \in 1 .. 8
      <4>1. Len(ns) = 1 + k /\ k \in 0 .. 7
        BY Zenon, <1>1, <1>4
      <4> QED
        BY <4>1
    <3>2. \A i \in 1 .. Len(ns) : MomentWidths[i] \in ByteWidths
      BY <2>4, <3>1
    <3> QED
      BY <3>2
  <2>5. CASE i = 1
    BY SMTT(60), <1>4, <2>2, <2>3, <2>4, <2>5
  <2>6. CASE i # 1
    <3>1. i - 1 \in 1 .. k /\ i - 1 \in 1 .. 7 /\ ns[(i - 1) + 1] = parts[i - 1]
      BY <1>1, <1>4, <2>6
    <3>2. ns[i] = parts[i - 1] /\ ns[i] \in Nat
      BY SMTT(60), <1>3, <3>1
    <3>3. CASE i = 2
      BY SMT, <2>1, <2>2, <2>3, <2>4, <3>2, <3>3
    <3>4. CASE i = 8
      BY SMT, <2>1, <2>2, <2>3, <2>4, <3>2, <3>4
    <3>5. CASE i # 2 /\ i # 8
      <4>1. ns[i] <= 59
        BY SMT, <2>1, <3>1, <3>2, <3>5
      <4>2. MomentWidths[i] = 1
        BY <2>4, <3>1, <3>5
      <4> QED
        BY SMTT(60), <2>2, <2>3, <3>2, <4>1, <4>2
    <3> QED
      BY <3>3, <3>4, <3>5
  <2> QED
    BY <2>5, <2>6
<1>6. Holding(fields, MomentWidths, ns)
  BY <1>2, <1>4, <1>5, FieldsHold
<1>7. fields[1].holds = len
  BY <1>1, <1>4, <1>6 DEF Holding
<1>8. ws = SubSeq(MomentWidths, 1, k + 1)
  <2>1. ~IsInteger(c) /\ c.type \notin {"FLOAT", "DOUBLE"}
    BY DEF IsInteger, IntegerWidth
  <2> QED
    BY <1>1, <1>7, <2>1 DEF Widths
<1> HIDE DEF ws
<1>9. ws \in Seq(Nat) /\ Len(ws) = Len(ns) /\ \A i \in 1 .. Len(ns) : ws[i] = MomentWidths[i]
  <2>1. MomentWidths \in Seq(Nat) /\ Len(MomentWidths) = 8
    BY DEF MomentWidths
  <2> QED
    <3>1. k + 1 \in 1 .. 8
      BY <1>1
    <3>2. ws \in Seq(Nat) /\ Len(ws) = k + 1 /\ \A i \in 1 .. k + 1 : ws[i] = MomentWidths[i]
      <4>1. DEFINE j == k + 1
      <4>2. j \in 1 .. 8 /\ j \in 0 .. Len(MomentWidths) /\ ws = SubSeq(MomentWidths, 1, j)
        BY <1>8, <2>1, <3>1
      <4> HIDE DEF j
      <4>3. ws \in Seq(Nat) /\ Len(ws) = j
        BY SMTT(60), <2>1, <4>2
      <4>4. \A i \in 1 .. j : ws[i] = MomentWidths[i]
        BY <2>1, <4>2
      <4> QED
        BY <4>3, <4>4 DEF j
    <3>3. Len(ns) = k + 1
      BY <1>1, <1>4
    <3> QED
      BY <3>2, <3>3
<1>10. fields \in Seq(AField) /\ Decodes(c, fields, TemporalMeaning(c, AfterLength(ns)))
  <2>1. LaidOut(c, fields, MomentWidths, ns)
    BY <1>1, <1>4, <1>6, <1>9 DEF LaidOut, ws
  <2> QED
    BY <2>1, TemporalReads, Zenon
<1>11. AfterLength(ns) = parts
  BY <1>4, ShownAfterLength DEF parts, k
<1>12. TemporalMeaning(c, parts) = Means("moment", parts)
  BY DEF TemporalMeaning
<1> QED
  BY <1>6, <1>10, <1>11, <1>12 DEF fields, parts, ns, k

(* Days, hours, minutes and seconds make up the seconds they are taken     *)
(* from.                                                                   *)
LEMMA DayParts ==
  ASSUME NEW secs \in Nat, secs <= 3020399
  PROVE  /\ secs \div 86400 \in 0 .. 34 /\ (secs % 86400) \div 3600 \in 0 .. 23
         /\ (secs % 3600) \div 60 \in 0 .. 59 /\ secs % 60 \in 0 .. 59
         /\ (secs \div 86400) * 86400 + ((secs % 86400) \div 3600) * 3600
              + ((secs % 3600) \div 60) * 60 + (secs % 60) = secs
  BY SMT

(* Hours, minutes and seconds make up the seconds they are taken from.     *)
LEMMA HourParts ==
  ASSUME NEW secs \in Nat, secs <= 3020399
  PROVE  /\ secs \div 3600 \in Nat
         /\ (secs % 3600) \div 60 \in 0 .. 59 /\ secs % 60 \in 0 .. 59
         /\ (secs \div 3600) * 3600 + ((secs % 3600) \div 60) * 60 + (secs % 60) = secs
  BY SMT

TimeWidths == <<1, 1, 4, 1, 1, 1, 4>>

(* A duration a TIME can hold.                                             *)
Timed(dur) == dur.secs \in Nat /\ dur.us \in Nat /\ dur.us <= 999999 /\ ValidDuration(dur)

(* A duration that a column can hold is of at most 838:59:59 and less than *)
(* a second.                                                               *)
LEMMA TimedSeconds ==
  ASSUME NEW dur, Timed(dur)
  PROVE  dur.secs \in Nat /\ dur.secs <= 3020399 /\ dur.us \in Nat /\ dur.us <= 999999 /\ InTimeRange(dur.secs, dur.us)
  BY SMT DEF Timed, ValidDuration, MaxSeconds, InTimeRange

TimeParts(dur, neg) ==
  <<neg, dur.secs \div 86400, (dur.secs % 86400) \div 3600, (dur.secs % 3600) \div 60,
    dur.secs % 60, dur.us>>

MakesUp(parts, dur, neg) ==
  /\ parts \in Seq(Nat) /\ Len(parts) = 6
  /\ \A i \in 1 .. 6 : i = 6 \/ parts[i] <= 59
  /\ parts[6] <= 999999
  /\ parts[2] * 86400 + parts[3] * 3600 + parts[4] * 60 + parts[5] = dur.secs
  /\ parts[1] = neg /\ parts[6] = dur.us

(* The parts of a time make it up, and each fits its field.                *)
LEMMA TimePartsFit ==
  ASSUME NEW dur, Timed(dur), NEW neg \in {0, 1}
  PROVE  MakesUp(TimeParts(dur, neg), dur, neg)
<1> DEFINE s == dur.secs
           d == s \div 86400
           h == (s % 86400) \div 3600
           m == (s % 3600) \div 60
           z == s % 60
           u == dur.us
           parts == <<neg, d, h, m, z, u>>
<1>1. s \in Nat /\ s <= 3020399 /\ u \in Nat /\ u <= 999999
  BY SMT, TimedSeconds
<1> HIDE DEF s, u
<1>2. /\ d \in 0 .. 34 /\ h \in 0 .. 23 /\ m \in 0 .. 59 /\ z \in 0 .. 59
      /\ d * 86400 + h * 3600 + m * 60 + z = s
  BY SMT, <1>1, DayParts
<1> HIDE DEF d, h, m, z
<1>3. parts \in Seq(Nat) /\ Len(parts) = 6
  BY SMT, <1>1, <1>2
<1>4. parts[1] = neg /\ parts[2] = d /\ parts[3] = h /\ parts[4] = m /\ parts[5] = z /\ parts[6] = u
  OBVIOUS
<1> HIDE DEF parts
<1>5. \A i \in 1 .. 6 : i = 6 \/ parts[i] <= 59
  BY SMT, <1>2, <1>4
<1>6. parts[6] <= 999999
  BY SMT, <1>1, <1>4
<1>7. parts[2] * 86400 + parts[3] * 3600 + parts[4] * 60 + parts[5] = s
  BY SMT, <1>2, <1>4
<1>8. parts = TimeParts(dur, neg)
  BY SMT DEF TimeParts, parts, s, d, h, m, z, u
<1> QED
  BY SMT, <1>3, <1>4, <1>5, <1>6, <1>7, <1>8 DEF MakesUp, s, u

TimeLength(dur) == IF IsZero(dur) THEN 0 ELSE IF dur.us # 0 THEN 12 ELSE 8
TimeCount(len) == CASE len = 0 -> 0 [] len = 8 -> 5 [] len = 12 -> 6

(* A duration of either sign, in any of its three lengths, is read back.   *)
LEMMA TimeDecodes ==
  ASSUME NEW c, c.type = "TIME", NEW dur, Timed(dur), NEW neg \in {0, 1}
  PROVE  LET fields == EncodeTime(dur, neg, c).fields
             ns == <<TimeLength(dur)>> \o SubSeq(TimeParts(dur, neg), 1, TimeCount(TimeLength(dur)))
         IN  /\ EncodeTime(dur, neg, c).ok
             /\ fields \in Seq(AField)
             /\ Decodes(c, fields, Time(neg = 1, dur.secs, dur.us))
             /\ Holding(fields, TimeWidths, ns)
             /\ ns \in Seq(Nat) /\ Len(ns) = 1 + TimeCount(TimeLength(dur))
             /\ Time(neg = 1, dur.secs, dur.us) = TemporalMeaning(c, AfterLength(ns))
<1> DEFINE len == TimeLength(dur)
           k == TimeCount(len)
           parts == TimeParts(dur, neg)
           ns == <<len>> \o SubSeq(parts, 1, k)
           fields == Fields(TimeWidths, ns)
           ws == Widths(c, fields[1])
           p == AfterLength(ns)
<1> HIDE DEF len, k, ns, fields, ws, p
<1>1. /\ dur.secs \in Nat /\ dur.secs <= 3020399 /\ dur.us \in Nat /\ dur.us <= 999999
  BY SMT, TimedSeconds
<1>2. /\ parts \in Seq(Nat) /\ Len(parts) = 6
      /\ \A i \in 1 .. 6 : i = 6 \/ parts[i] <= 59
      /\ parts[6] <= 999999
      /\ parts[2] * 86400 + parts[3] * 3600 + parts[4] * 60 + parts[5] = dur.secs
      /\ parts[1] = neg /\ parts[6] = dur.us
  <2>1. MakesUp(TimeParts(dur, neg), dur, neg)
    BY TimePartsFit, Zenon
  <2>2. MakesUp(parts, dur, neg)
    BY <2>1
  <2> HIDE DEF parts
  <2> QED
    BY SMT, <2>2 DEF MakesUp
<1>3. EncodeTime(dur, neg, c) = If(c.type = "TIME" /\ ValidDuration(dur), fields)
  BY SMT DEF EncodeTime, TimeLength, TimeCount, TimeParts, TimeWidths, fields, ns, k, len
<1>4. ValidDuration(dur)
  BY SMT DEF Timed
<1>5. EncodeTime(dur, neg, c).ok /\ EncodeTime(dur, neg, c).fields = fields
  BY <1>3, <1>4 DEF If, Writes
<1>6. /\ len \in {0, 8, 12} /\ (len = 0 <=> IsZero(dur)) /\ (len = 8 => dur.us = 0)
      /\ k \in {0, 5, 6} /\ (k = 0 <=> IsZero(dur)) /\ (k = 5 => dur.us = 0)
      /\ k + 1 = TimeFieldCount[len] /\ len \in DOMAIN TimeFieldCount
  <2>1. /\ len \in {0, 8, 12} /\ (len = 0 <=> IsZero(dur)) /\ (len = 8 => dur.us = 0)
    BY DEF len, TimeLength, IsZero
  <2>2. /\ len = 0 => k = 0
        /\ len = 8 => k = 5
        /\ len = 12 => k = 6
    BY <2>1 DEF TimeCount, k
  <2>3. k + 1 = TimeFieldCount[len] /\ len \in DOMAIN TimeFieldCount
    BY <2>1, <2>2 DEF TimeFieldCount
  <2> QED
    BY <2>1, <2>2, <2>3
<1> HIDE DEF parts
<1>7. ns \in Seq(Nat) /\ Len(ns) = 1 + k /\ ns[1] = len /\ \A i \in 1 .. k : ns[i + 1] = parts[i]
  <2>1. k \in 0 .. Len(parts) /\ len \in Nat /\ parts \in Seq(Nat)
    BY SMT, <1>2, <1>6
  <2> QED
    BY <2>1, Counted DEF ns
<1>8. \A i \in 1 .. Len(ns) : TimeWidths[i] \in ByteWidths /\ ns[i] < 2 * Half[TimeWidths[i]]
  <2>1. 60 <= 2 * Half[1] /\ 1000000 <= 2 * Half[4]
    BY SMT, RowAssumption
  <2>2. Half[1] \in Nat /\ Half[4] \in Nat
    BY HalfIsPositive DEF ByteWidths
  <2>3. \A i \in 1 .. 7 : TimeWidths[i] \in ByteWidths /\ TimeWidths[i] = IF i = 3 \/ i = 7 THEN 4 ELSE 1
    BY DEF TimeWidths, ByteWidths
  <2>4. ASSUME NEW i \in 1 .. Len(ns) PROVE ns[i] < 2 * Half[TimeWidths[i]]
    <3>1. i \in 1 .. 7 /\ ns[i] \in Nat
      BY SMTT(60), <1>6, <1>7
    <3>2. CASE i = 1
      BY SMTT(60), <1>6, <1>7, <2>1, <2>2, <2>3, <3>2
    <3>3. CASE i # 1
      <4>1. i - 1 \in 1 .. k /\ i - 1 \in 1 .. 6 /\ ns[(i - 1) + 1] = parts[i - 1]
        BY <1>6, <1>7, <3>3
      <4>2. ns[i] = parts[i - 1]
        BY <3>1, <4>1
      <4>3. CASE i = 7
        BY SMTT(60), <1>2, <2>1, <2>2, <2>3, <3>1, <4>2, <4>3
      <4>4. CASE i # 7
        <5>1. ns[i] <= 59
          BY SMT, <1>2, <4>1, <4>2, <4>4
        <5>2. TimeWidths[i] \in {1, 4}
          BY <2>3, <3>1
        <5> QED
          BY SMT, <2>1, <2>2, <3>1, <5>1, <5>2
      <4> QED
        BY <4>3, <4>4
    <3> QED
      BY <3>2, <3>3
  <2>5. \A i \in 1 .. Len(ns) : i \in 1 .. 7
    BY <1>6, <1>7
  <2> QED
    BY <2>3, <2>4, <2>5
<1>9. Holding(fields, TimeWidths, ns)
  BY <1>7, <1>8, FieldsHold DEF fields
<1>10. LaidOut(c, fields, TimeWidths, ns)
  <2>1. fields[1].holds = len
    BY <1>6, <1>7, <1>9 DEF Holding
  <2>2. ws = SubSeq(TimeWidths, 1, k + 1)
    <3>1. ~IsInteger(c) /\ c.type \notin {"FLOAT", "DOUBLE"} /\ c.type \notin {"DATE", "DATETIME"}
      BY DEF IsInteger, IntegerWidth
    <3> QED
      BY <1>6, <2>1, <3>1 DEF Widths, TimeWidths, ws
  <2> DEFINE j == k + 1
  <2>3. TimeWidths \in Seq(Nat) /\ Len(TimeWidths) = 7
    BY DEF TimeWidths
  <2>4. j \in 1 .. 7 /\ j \in 0 .. Len(TimeWidths) /\ ws = SubSeq(TimeWidths, 1, j) /\ Len(ns) = j
    BY <1>6, <1>7, <2>2, <2>3
  <2> HIDE DEF j
  <2>5. ws \in Seq(Nat) /\ Len(ws) = j
    BY SMTT(60), <2>3, <2>4
  <2>6. \A i \in 1 .. j : ws[i] = TimeWidths[i]
    BY <2>3, <2>4
  <2> QED
    BY <1>7, <1>9, <2>4, <2>5, <2>6 DEF LaidOut, ws
<1>11. fields \in Seq(AField) /\ Decodes(c, fields, TemporalMeaning(c, p))
  BY <1>10, TemporalReads, Zenon DEF p
<1>12. TemporalMeaning(c, p) = Time(neg = 1, dur.secs, dur.us)
  <2>1. \A i \in 1 .. 7 : p[i] = IF i <= k THEN parts[i] ELSE 0
    BY <1>6, <1>7 DEF AfterLength, p
  <2>2. TemporalMeaning(c, p) = Time(p[1] # 0, p[2] * 86400 + p[3] * 3600 + p[4] * 60 + p[5], p[6])
    BY SMT DEF TemporalMeaning
  <2>3. CASE k = 0
    <3>1. p[1] = 0 /\ p[2] = 0 /\ p[3] = 0 /\ p[4] = 0 /\ p[5] = 0 /\ p[6] = 0
      BY <2>1, <2>3
    <3>2. p[2] * 86400 + p[3] * 3600 + p[4] * 60 + p[5] = 0
      BY SMT, <3>1
    <3>3. dur.secs = 0 /\ dur.us = 0
      BY <1>6, <2>3 DEF IsZero
    <3> QED
      BY SMT, <2>2, <3>1, <3>2, <3>3 DEF Time
  <2>4. CASE k # 0
    <3>1. p[1] = parts[1] /\ p[2] = parts[2] /\ p[3] = parts[3] /\ p[4] = parts[4] /\ p[5] = parts[5]
      BY <1>6, <2>1, <2>4
    <3>2. p[6] = dur.us
      BY SMT, <1>2, <1>6, <2>1, <2>4
    <3>3. p[2] * 86400 + p[3] * 3600 + p[4] * 60 + p[5] = dur.secs
      BY SMT, <1>2, <3>1
    <3>4. (p[1] # 0) = (neg = 1)
      BY SMT, <1>2, <3>1
    <3> QED
      BY SMT, <2>2, <3>2, <3>3, <3>4
  <2> QED
    BY <2>3, <2>4
<1> QED
  BY SMT, <1>5, <1>7, <1>9, <1>11, <1>12 DEF ns, parts, k, len, p

-----------------------------------------------------------------------------
(* What each type of value is encoded as, and what the client makes of it. *)

(* The types of a value that can be written.                               *)
SizedTypes == {"u8", "i8", "u16", "i16", "u32", "i32", "u64", "i64"}

(* The eight integer types, each with its width and sign.                  *)
LEMMA RustIntegers ==
  /\ DOMAIN RustInteger = SizedTypes
  /\ \A type \in SizedTypes :
       /\ RustInteger[type] = RangeOf(RustWidth[type], RustSigned(type))
       /\ RustWidth[type] \in ByteWidths /\ RustSigned(type) \in BOOLEAN
<1>1. DOMAIN RustWidth = SizedTypes
  BY DEF RustWidth, SizedTypes
<1>2. \A type \in SizedTypes : RustWidth[type] \in ByteWidths
  BY DEF RustWidth, SizedTypes, ByteWidths
<1>3. \A type \in SizedTypes : RustSigned(type) \in BOOLEAN
  BY DEF RustSigned
<1>4. /\ DOMAIN RustInteger = SizedTypes
      /\ \A type \in SizedTypes : RustInteger[type] = RangeOf(RustWidth[type], RustSigned(type))
  BY <1>1 DEF RustInteger
<1> QED
  BY <1>2, <1>3, <1>4

OtherTypes ==
  {"usize", "isize", "UInt", "Int", "f32", "f64", "Float", "Double", "bytes", "Bytes", "NaiveDate",
   "NaiveDateTime", "Date", "Duration", "Time", "None", "NULL"}

(* A typed value, below its Some and &, is of a type that can be written,  *)
(* in its range.                                                           *)
LEMMA TypedIs ==
  ASSUME NEW v, Typed(v)
  PROVE  LET x == Unwrapped(v)
         IN  /\ x.type \in SizedTypes \cup OtherTypes
             /\ x.type \in SizedTypes => x.is \in RangeOf(RustWidth[x.type], RustSigned(x.type))
<1> DEFINE x == Unwrapped(v)
<1>1. DOMAIN RustInteger = SizedTypes
  BY RustIntegers
<1>2. \A type \in SizedTypes : RustInteger[type] = RangeOf(RustWidth[type], RustSigned(type))
  BY RustIntegers
<1>3. /\ x.type \in DOMAIN RustInteger \cup OtherTypes
      /\ x.type \in DOMAIN RustInteger => x.is \in RustInteger[x.type]
  BY Zenon DEF Typed, OtherTypes
<1> HIDE DEF x
<1>4. x.type \in SizedTypes => x.is \in RangeOf(RustWidth[x.type], RustSigned(x.type))
  BY <1>1, <1>2, <1>3
<1> QED
  BY <1>1, <1>3, <1>4 DEF x

(* The encoding that a type has in the binary protocol.                    *)
LEMMA BinaryEncodings ==
  ASSUME NEW v, NEW c
  PROVE  LET x == Unwrapped(v)
             b == ToMysqlBin(v, c)
         IN  /\ x.type \in {"usize", "isize"} => b = EncodeForgiving(x.is, c)
             /\ x.type \in SizedTypes => b = EncodeSized(RustWidth[x.type], RustSigned(x.type), x.is, c)
             /\ x.type = "UInt" => b = EncodeSized(8, FALSE, x.is, c)
             /\ x.type = "Int" => b = EncodeValueInt(x.is, c)
             /\ x.type \in {"f32", "Float"} => b = EncodeF32(x.is, c)
             /\ x.type \in {"f64", "Double"} => b = EncodeF64(x.is, c)
             /\ x.type \in {"bytes", "Bytes"} => b = EncodeBytes(x.is, c)
             /\ x.type = "NaiveDate" => b = EncodeNaiveDate(x.is, c)
             /\ x.type = "NaiveDateTime" => b = EncodeNaiveDateTime(x.is, c)
             /\ x.type = "Duration" => b = EncodeTime(OfDuration(x.is), 0, c)
             /\ x.type = "Date" => b = EncodeValueDate(x.is, c)
             /\ x.type = "Time" =>
                  b = IF ValidTimeParts(x.is) THEN EncodeTime(OfTime(x.is), x.is.neg, c) ELSE Refused
<1> DEFINE x == Unwrapped(v)
           b == ToMysqlBin(v, c)
<1> HIDE DEF x
<1>1. b = CASE x.type \in {"usize", "isize"} -> EncodeForgiving(x.is, c)
            [] x.type = "u8" -> EncodeU8(x.is, c)
            [] x.type = "i8" -> EncodeI8(x.is, c)
            [] x.type = "u16" -> EncodeU16(x.is, c)
            [] x.type = "i16" -> EncodeI16(x.is, c)
            [] x.type = "u32" -> EncodeU32(x.is, c)
            [] x.type = "i32" -> EncodeI32(x.is, c)
            [] x.type \in {"u64", "UInt"} -> EncodeU64(x.is, c)
            [] x.type = "i64" -> EncodeI64(x.is, c)
            [] x.type = "Int" -> EncodeValueInt(x.is, c)
            [] x.type \in {"f32", "Float"} -> EncodeF32(x.is, c)
            [] x.type \in {"f64", "Double"} -> EncodeF64(x.is, c)
            [] x.type \in {"bytes", "Bytes"} -> EncodeBytes(x.is, c)
            [] x.type = "NaiveDate" -> EncodeNaiveDate(x.is, c)
            [] x.type = "NaiveDateTime" -> EncodeNaiveDateTime(x.is, c)
            [] x.type = "Duration" -> EncodeTime(OfDuration(x.is), 0, c)
            [] x.type = "Date" -> EncodeValueDate(x.is, c)
            [] x.type = "Time" ->
                 IF ValidTimeParts(x.is) THEN EncodeTime(OfTime(x.is), x.is.neg, c) ELSE Refused
  BY DEF ToMysqlBin, x
<1> HIDE DEF b
<1>2. /\ x.type = "u8" => b = EncodeU8(x.is, c)
      /\ x.type = "i8" => b = EncodeI8(x.is, c)
      /\ x.type = "u16" => b = EncodeU16(x.is, c)
      /\ x.type = "i16" => b = EncodeI16(x.is, c)
      /\ x.type = "u32" => b = EncodeU32(x.is, c)
      /\ x.type = "i32" => b = EncodeI32(x.is, c)
      /\ x.type \in {"u64", "UInt"} => b = EncodeU64(x.is, c)
      /\ x.type = "i64" => b = EncodeI64(x.is, c)
  BY SMT, <1>1
<1>3. x.type \in SizedTypes => b = EncodeSized(RustWidth[x.type], RustSigned(x.type), x.is, c)
  <2>1. CASE x.type = "u8"
    <3>1. RustWidth[x.type] = 1 /\ RustSigned(x.type) = FALSE
      BY <2>1 DEF RustWidth, RustSigned
    <3> QED
      BY <1>2, <2>1, <3>1 DEF EncodeU8
  <2>2. CASE x.type = "i8"
    <3>1. RustWidth[x.type] = 1 /\ RustSigned(x.type) = TRUE
      BY <2>2 DEF RustWidth, RustSigned
    <3> QED
      BY <1>2, <2>2, <3>1 DEF EncodeI8
  <2>3. CASE x.type = "u16"
    <3>1. RustWidth[x.type] = 2 /\ RustSigned(x.type) = FALSE
      BY <2>3 DEF RustWidth, RustSigned
    <3> QED
      BY <1>2, <2>3, <3>1 DEF EncodeU16
  <2>4. CASE x.type = "i16"
    <3>1. RustWidth[x.type] = 2 /\ RustSigned(x.type) = TRUE
      BY <2>4 DEF RustWidth, RustSigned
    <3> QED
      BY <1>2, <2>4, <3>1 DEF EncodeI16
  <2>5. CASE x.type = "u32"
    <3>1. RustWidth[x.type] = 4 /\ RustSigned(x.type) = FALSE
      BY <2>5 DEF RustWidth, RustSigned
    <3> QED
      BY <1>2, <2>5, <3>1 DEF EncodeU32
  <2>6. CASE x.type = "i32"
    <3>1. RustWidth[x.type] = 4 /\ RustSigned(x.type) = TRUE
      BY <2>6 DEF RustWidth, RustSigned
    <3> QED
      BY <1>2, <2>6, <3>1 DEF EncodeI32
  <2>7. CASE x.type = "u64"
    <3>1. RustWidth[x.type] = 8 /\ RustSigned(x.type) = FALSE
      BY <2>7 DEF RustWidth, RustSigned
    <3> QED
      BY <1>2, <2>7, <3>1 DEF EncodeU64
  <2>8. CASE x.type = "i64"
    <3>1. RustWidth[x.type] = 8 /\ RustSigned(x.type) = TRUE
      BY <2>8 DEF RustWidth, RustSigned
    <3> QED
      BY <1>2, <2>8, <3>1 DEF EncodeI64
  <2> QED
    BY <2>1, <2>2, <2>3, <2>4, <2>5, <2>6, <2>7, <2>8 DEF SizedTypes
<1>4. x.type = "UInt" => b = EncodeSized(8, FALSE, x.is, c)
  BY <1>2 DEF EncodeU64
<1>5. /\ x.type \in {"usize", "isize"} => b = EncodeForgiving(x.is, c)
      /\ x.type = "Int" => b = EncodeValueInt(x.is, c)
      /\ x.type \in {"f32", "Float"} => b = EncodeF32(x.is, c)
      /\ x.type \in {"f64", "Double"} => b = EncodeF64(x.is, c)
      /\ x.type \in {"bytes", "Bytes"} => b = EncodeBytes(x.is, c)
  BY SMT, <1>1
<1>6. /\ x.type = "NaiveDate" => b = EncodeNaiveDate(x.is, c)
      /\ x.type = "NaiveDateTime" => b = EncodeNaiveDateTime(x.is, c)
      /\ x.type = "Duration" => b = EncodeTime(OfDuration(x.is), 0, c)
      /\ x.type = "Date" => b = EncodeValueDate(x.is, c)
      /\ x.type = "Time" =>
           b = IF ValidTimeParts(x.is) THEN EncodeTime(OfTime(x.is), x.is.neg, c) ELSE Refused
  BY SMT, <1>1
<1> QED
  BY <1>3, <1>4, <1>5, <1>6 DEF x, b

(* How to_mysql_text writes each type of value.                            *)
LEMMA TextEncodings ==
  ASSUME NEW v, NEW c
  PROVE  LET x == Unwrapped(v)
             b == ToMysqlText(v, c)
         IN  /\ x.type \in {"None", "NULL"} => b = Writes(Text("null", <<>>))
             /\ x.type \in {"bytes", "Bytes"} => b = Writes(LenencStr(x.is))
             /\ x.type = "NaiveDate" => b = NaiveDateText(x.is)
             /\ x.type = "NaiveDateTime" => b = NaiveDateTimeText(x.is)
             /\ x.type = "Duration" => b = TimeText(OfDuration(x.is), 0)
             /\ x.type = "Date" => b = ValueDateTextInColumn(x.is, c)
             /\ x.type = "Time" =>
                  b = IF ValidTimeParts(x.is) THEN TimeText(OfTime(x.is), x.is.neg) ELSE Refused
             /\ x.type \notin {"None", "NULL", "bytes", "Bytes", "NaiveDate", "NaiveDateTime", "Duration",
                               "Date", "Time"}
                  => b = Writes(Text("number", <<x.is>>))
<1> DEFINE x == Unwrapped(v)
<1> HIDE DEF x
<1>1. ToMysqlText(v, c) =
        CASE x.type \in {"None", "NULL"} -> Writes(Text("null", <<>>))
          [] x.type \in {"bytes", "Bytes"} -> Writes(LenencStr(x.is))
          [] x.type = "NaiveDate" -> NaiveDateText(x.is)
          [] x.type = "NaiveDateTime" -> NaiveDateTimeText(x.is)
          [] x.type = "Duration" -> TimeText(OfDuration(x.is), 0)
          [] x.type = "Date" -> ValueDateTextInColumn(x.is, c)
          [] x.type = "Time" ->
               IF ValidTimeParts(x.is) THEN TimeText(OfTime(x.is), x.is.neg) ELSE Refused
          [] OTHER -> Writes(Text("number", <<x.is>>))
  BY DEF ToMysqlText, x
<1> QED
  BY SMT, <1>1 DEF x

DurationMeaning(d) == Time(FALSE, d.secs, d.ns \div 1000)
TimeMeaning(t) == Time(t.neg = 1, OfTime(t).secs, t.us)

(* What each type of value means.                                          *)
LEMMA MeaningIs ==
  ASSUME NEW v
  PROVE  LET x == Unwrapped(v)
             m == Meaning(v)
         IN  /\ x.type \in {"None", "NULL"} => m = Means("null", <<>>)
             /\ x.type \in {"bytes", "Bytes"} => m = Means("string", x.is)
             /\ x.type = "NaiveDate" => m = Means("moment", Padded(MomentParts(x.is, 0)))
             /\ x.type = "NaiveDateTime" => m = Means("moment", MomentParts(x.is, x.is.ns \div 1000))
             /\ x.type = "Date" => m = Means("moment", MomentParts(x.is, x.is.us))
             /\ x.type = "Duration" => m = DurationMeaning(x.is)
             /\ x.type = "Time" => m = TimeMeaning(x.is)
             /\ x.type \notin {"None", "NULL", "bytes", "Bytes", "NaiveDate", "NaiveDateTime", "Duration",
                               "Date", "Time"}
                  => m = Means("number", <<x.is>>)
<1> DEFINE x == Unwrapped(v)
<1> HIDE DEF x
<1> DEFINE duration == DurationMeaning(x.is)
           time == TimeMeaning(x.is)
<1> HIDE DEF duration, time
<1>1. Meaning(v) =
        CASE x.type \in {"None", "NULL"} -> Means("null", <<>>)
          [] x.type \in {"bytes", "Bytes"} -> Means("string", x.is)
          [] x.type = "NaiveDate" -> Means("moment", Padded(MomentParts(x.is, 0)))
          [] x.type = "NaiveDateTime" -> Means("moment", MomentParts(x.is, x.is.ns \div 1000))
          [] x.type = "Date" -> Means("moment", MomentParts(x.is, x.is.us))
          [] x.type = "Duration" -> duration
          [] x.type = "Time" -> time
          [] OTHER -> Means("number", <<x.is>>)
  BY Zenon DEF Meaning, x, duration, time, DurationMeaning, TimeMeaning
<1>2. /\ x.type = "Duration" => Meaning(v) = duration
      /\ x.type = "Time" => Meaning(v) = time
  BY SMT, <1>1
<1>3. /\ x.type \in {"None", "NULL"} => Meaning(v) = Means("null", <<>>)
      /\ x.type \in {"bytes", "Bytes"} => Meaning(v) = Means("string", x.is)
      /\ x.type = "NaiveDate" => Meaning(v) = Means("moment", Padded(MomentParts(x.is, 0)))
      /\ x.type = "NaiveDateTime" => Meaning(v) = Means("moment", MomentParts(x.is, x.is.ns \div 1000))
      /\ x.type = "Date" => Meaning(v) = Means("moment", MomentParts(x.is, x.is.us))
      /\ x.type \notin {"None", "NULL", "bytes", "Bytes", "NaiveDate", "NaiveDateTime", "Duration",
                        "Date", "Time"}
           => Meaning(v) = Means("number", <<x.is>>)
  BY SMT, <1>1
<1> QED
  BY <1>2, <1>3 DEF x, duration, time

(* Only dates and times have a range to keep.                              *)
LEMMA Unbounded ==
  ASSUME NEW form \in {"null", "string", "number"}, NEW parts
  PROVE  InRange(Means(form, parts))
<1>1. Means(form, parts).form = form
  BY DEF Means
<1>2. form # "time" /\ form # "moment"
  OBVIOUS
<1> QED
  BY SMT, <1>1, <1>2 DEF InRange

(* A moment that is shown by its parts is in the protocol's range.         *)
LEMMA ShownInRange ==
  ASSUME NEW parts, NEW k, Shown(parts, k)
  PROVE  InRange(Means("moment", parts))
<1>1. Means("moment", parts).form = "moment" /\ Means("moment", parts).parts = parts
  BY DEF Means
<1>2. parts \in Seq(Nat) /\ Len(parts) = 7 /\ parts[1] <= 9999 /\ parts[7] <= 999999
  BY SMT DEF Shown
<1>3. \A i \in 1 .. 7 : parts[i] \in Nat
  <2>1. parts \in Seq(Nat) /\ Len(parts) = 7
    BY SMT, <1>2
  <2> QED
    BY <2>1, SeqElements
<1>4. 0 <= parts[1]
  BY SMT, <1>3
<1> QED
  BY SMT, <1>1, <1>2, <1>4 DEF InRange

(* So is a duration that a column can hold.                                *)
LEMMA TimedInRange ==
  ASSUME NEW dur, Timed(dur), NEW neg \in BOOLEAN
  PROVE  InRange(Time(neg, dur.secs, dur.us))
<1> DEFINE m == Time(neg, dur.secs, dur.us)
<1>1. m.form = "time" /\ m.parts[2] = dur.secs /\ m.parts[3] = dur.us
  BY SMT DEF Time, Means
<1>2. InTimeRange(dur.secs, dur.us)
  BY SMT, TimedSeconds
<1> HIDE DEF m
<1>3. InTimeRange(m.parts[2], m.parts[3])
  BY <1>1, <1>2
<1>4. m.form # "moment"
  BY <1>1
<1>5. InRange(m)
  BY SMT, <1>3, <1>4 DEF InRange
<1> QED
  BY <1>5 DEF m

(* A client gets the meaning out of the fields, and it is in range.        *)
Carries(c, fields, meaning) ==
  fields \in Seq(AField) /\ Decodes(c, fields, meaning) /\ InRange(meaning)

(* An integer written by write_le is carried to the client.                *)
LEMMA IntegerCarries ==
  ASSUME NEW c, c.unsigned \in BOOLEAN, IsInteger(c), NEW n \in RangeOf(Width(c), Signed(c))
  PROVE  Carries(c, Integer(n, c), Means("number", <<n>>))
BY IntegerDecodes, Unbounded DEF Carries

(* So is an integer of any Rust type that its column accepts,              *)
LEMMA SizedCarries ==
  ASSUME NEW w \in ByteWidths, NEW signed \in BOOLEAN, NEW n \in RangeOf(w, signed),
         NEW c, c.unsigned \in BOOLEAN, EncodeSized(w, signed, n, c).ok
  PROVE  Carries(c, EncodeSized(w, signed, n, c).fields, Means("number", <<n>>))
<1>1. /\ IsInteger(c) /\ n \in RangeOf(Width(c), Signed(c))
      /\ EncodeSized(w, signed, n, c).fields = Integer(n, c)
  BY SizedFits
<1> QED
  BY <1>1, IntegerCarries

(* one the forgiving macros accept,                                        *)
LEMMA ForgivingCarries ==
  ASSUME NEW n, NEW c, c.unsigned \in BOOLEAN, EncodeForgiving(n, c).ok
  PROVE  Carries(c, EncodeForgiving(n, c).fields, Means("number", <<n>>))
<1>1. /\ IsInteger(c) /\ n \in RangeOf(Width(c), Signed(c))
      /\ EncodeForgiving(n, c).fields = Integer(n, c)
  BY DEF EncodeForgiving, If, Writes, Refused
<1> QED
  BY <1>1, IntegerCarries

FitsI64(n) == n \in RangeOf(8, TRUE)

(* a Value::Int the column accepts,                                        *)
LEMMA ValueIntCarries ==
  ASSUME NEW n, FitsI64(n), NEW c, c.unsigned \in BOOLEAN, EncodeValueInt(n, c).ok
  PROVE  Carries(c, EncodeValueInt(n, c).fields, Means("number", <<n>>))
<1> DEFINE holds == {w \in DOMAIN Half : n \in RangeOf(w, Signed(c))}
           w == CHOOSE w \in holds : \A x \in holds : w <= x
<1>1. Signed(c) \in BOOLEAN
  BY DEF Signed
<1>2. n \in Int
  BY HalfIsPositive DEF FitsI64, RangeOf, ByteWidths
<1>3. Signed(c) \/ n >= 0
  BY <1>2 DEF EncodeValueInt, Refused
<1>4. w \in holds /\ \A x \in holds : w <= x
  BY <1>1, <1>3, SmallestHolder DEF FitsI64
<1>5. EncodeValueInt(n, c) = EncodeSized(w, Signed(c), n, c)
  BY <1>2, <1>3 DEF EncodeValueInt
<1>6. DOMAIN Half = ByteWidths
  BY WidthAssumption DEF ByteWidths
<1>7. w \in ByteWidths /\ n \in RangeOf(w, Signed(c))
  BY <1>4, <1>6
<1> HIDE DEF w
<1> QED
  BY <1>1, <1>5, <1>7, SizedCarries

(* and a float that fits its column.                                       *)
LEMMA FloatCarries ==
  ASSUME NEW c, NEW w, NEW n, FloatFits(c, w, n)
  PROVE  Carries(c, <<Field(w, n)>>, Means("number", <<n>>))
<1>1. <<Field(w, n)>> \in Seq(AField) /\ Decodes(c, <<Field(w, n)>>, Means("number", <<n>>))
  BY FloatDecodes, Zenon
<1>2. InRange(Means("number", <<n>>))
  BY Unbounded
<1> QED
  BY <1>1, <1>2 DEF Carries

(* A date or datetime is carried to the client,                            *)
LEMMA MomentCarries ==
  ASSUME NEW c, c.type \in {"DATE", "DATETIME"}, NEW len \in {0, 4, 7, 11}, NEW t, NEW us,
         Shown(MomentParts(t, us), LengthParts(len))
  PROVE  Carries(c, MomentFields(len, t, us), Means("moment", MomentParts(t, us)))
BY MomentDecodes, ShownInRange DEF Carries

(* and so is a duration.                                                   *)
LEMMA TimeCarries ==
  ASSUME NEW c, c.type = "TIME", NEW dur, Timed(dur), NEW neg \in {0, 1}
  PROVE  /\ EncodeTime(dur, neg, c).ok
         /\ Carries(c, EncodeTime(dur, neg, c).fields, Time(neg = 1, dur.secs, dur.us))
<1>1. InRange(Time(neg = 1, dur.secs, dur.us))
  BY TimedInRange, (neg = 1) \in BOOLEAN
<1>2. /\ EncodeTime(dur, neg, c).ok
      /\ EncodeTime(dur, neg, c).fields \in Seq(AField)
      /\ Decodes(c, EncodeTime(dur, neg, c).fields, Time(neg = 1, dur.secs, dur.us))
  BY TimeDecodes, Zenon
<1> QED
  BY <1>1, <1>2, Zenon DEF Carries

-----------------------------------------------------------------------------
(* Which moments are shown by how many parts.                              *)

Years(n) == n \in Nat /\ n <= 9999
Micros(n) == n \in Nat /\ n <= 999999

(* Parts that k of them show.                                              *)
ShownBy(k, y, mo, d, h, mi, s, us) ==
  /\ k \in {0, 3, 6, 7} /\ Years(y) /\ Micros(us)
  /\ mo \in Nat /\ mo <= 59 /\ d \in Nat /\ d <= 59 /\ h \in Nat /\ h <= 59
  /\ mi \in Nat /\ mi <= 59 /\ s \in Nat /\ s <= 59
  /\ k < 7 => us = 0
  /\ k < 6 => h = 0 /\ mi = 0 /\ s = 0
  /\ k < 3 => y = 0 /\ mo = 0 /\ d = 0

(* Seven parts of which the first k are shown.                             *)
LEMMA PartsShown ==
  ASSUME NEW k, NEW y, NEW mo, NEW d, NEW h, NEW mi, NEW s, NEW us,
         ShownBy(k, y, mo, d, h, mi, s, us)
  PROVE  Shown(<<y, mo, d, h, mi, s, us>>, k)
<1> DEFINE parts == <<y, mo, d, h, mi, s, us>>
<1>0. /\ k \in {0, 3, 6, 7} /\ y \in Nat /\ us \in Nat /\ mo \in Nat /\ d \in Nat /\ h \in Nat
      /\ mi \in Nat /\ s \in Nat /\ mo <= 59 /\ d <= 59 /\ h <= 59 /\ mi <= 59 /\ s <= 59
      /\ k < 7 => us = 0
      /\ k < 6 => h = 0 /\ mi = 0 /\ s = 0
      /\ k < 3 => y = 0 /\ mo = 0 /\ d = 0
  BY SMT DEF ShownBy, Years, Micros
<1>7. Years(y) /\ Micros(us)
  BY DEF ShownBy
<1>1. parts \in Seq(Nat) /\ Len(parts) = 7
  BY <1>0
<1>2. parts[1] = y /\ parts[2] = mo /\ parts[3] = d /\ parts[4] = h /\ parts[5] = mi /\ parts[6] = s /\ parts[7] = us
  OBVIOUS
<1> HIDE DEF parts
<1>3. \A i \in 2 .. 6 : parts[i] <= 59
  BY SMT, <1>0, <1>2
<1>4. \A i \in 1 .. 7 : i > k => parts[i] = 0
  BY SMT, <1>0, <1>2
<1>5. Shown(parts, k)
  BY SMT, <1>0, <1>7, <1>1, <1>2, <1>3, <1>4 DEF Shown, Years, Micros
<1> QED
  BY <1>5 DEF parts

(* A NaiveDate whose year the protocol can hold is shown by its date.      *)
LEMMA NaiveDateShown ==
  ASSUME NEW t, ChronoTyped(t), t.h = 0, t.mi = 0, t.s = 0, ChronoYear(t)
  PROVE  Shown(MomentParts(t, 0), 3)
<1>1. /\ Years(t.y) /\ t.mo \in Nat /\ t.mo <= 59 /\ t.d \in Nat /\ t.d <= 59
      /\ t.h \in Nat /\ t.h <= 59 /\ t.mi \in Nat /\ t.mi <= 59 /\ t.s \in Nat /\ t.s <= 59
  BY SMT DEF ChronoTyped, ChronoYear, Years
<1>2. Shown(<<t.y, t.mo, t.d, t.h, t.mi, t.s, 0>>, 3)
  <2>1. Micros(0)
    BY SMT DEF Micros
  <2> QED
    <3>1. ShownBy(3, t.y, t.mo, t.d, t.h, t.mi, t.s, 0)
      BY SMT, <1>1, <2>1 DEF ShownBy
    <3> QED
      BY <3>1, PartsShown, Zenon
<1> QED
  BY <1>2, Zenon DEF MomentParts

(* A NaiveDateTime is shown with its microseconds only when it has some.   *)
LEMMA NaiveDateTimeShown ==
  ASSUME NEW t, ChronoTyped(t), t.ns \in Nat, ValidChronoDatetime(t)
  PROVE  LET us == t.ns \div 1000
         IN  Micros(us) /\ Shown(MomentParts(t, us), IF us # 0 THEN 7 ELSE 6)
<1> DEFINE us == t.ns \div 1000
<1>0. Micros(us)
  BY SMT DEF ValidChronoDatetime, Micros
<1>1. /\ Years(t.y) /\ t.mo \in Nat /\ t.mo <= 59 /\ t.d \in Nat /\ t.d <= 59
      /\ t.h \in Nat /\ t.h <= 59 /\ t.mi \in Nat /\ t.mi <= 59 /\ t.s \in Nat /\ t.s <= 59
  BY SMT DEF ChronoTyped, ChronoYear, ValidChronoDatetime, Years
<1> HIDE DEF us
<1>2. Shown(<<t.y, t.mo, t.d, t.h, t.mi, t.s, us>>, IF us # 0 THEN 7 ELSE 6)
  <2>1. ShownBy(IF us # 0 THEN 7 ELSE 6, t.y, t.mo, t.d, t.h, t.mi, t.s, us)
    BY SMT, <1>0, <1>1 DEF ShownBy
  <2> QED
    BY <2>1, PartsShown, Zenon
<1>3. Shown(MomentParts(t, us), IF us # 0 THEN 7 ELSE 6)
  BY <1>2, Zenon DEF MomentParts
<1> QED
  BY SMT, <1>0, <1>3 DEF us

(* The parts of a Value::Date that passed the check of its parts.          *)
LEMMA DateTyped ==
  ASSUME NEW t, MomentTyped(t), ValidDate(t)
  PROVE  /\ Years(t.y) /\ t.mo \in Nat /\ t.mo <= 59 /\ t.d \in Nat /\ t.d <= 59
         /\ t.h \in Nat /\ t.h <= 59 /\ t.mi \in Nat /\ t.mi <= 59 /\ t.s \in Nat /\ t.s <= 59
         /\ Micros(t.us)
  BY SMT DEF MomentTyped, ValidDate, Years, Micros

(* A moment without a time of day is at midnight.                          *)
LEMMA TimeOfDayIs ==
  ASSUME NEW t
  PROVE  ~TimeOfDay(t) <=> t.h = 0 /\ t.mi = 0 /\ t.s = 0
  BY DEF TimeOfDay

(* A Value::Date is shown by as many parts as its length stands for.       *)
LEMMA DateShown ==
  ASSUME NEW t, MomentTyped(t), ValidDate(t)
  PROVE  DateLength(t) \in {0, 4, 7, 11} /\ Shown(MomentParts(t, t.us), LengthParts(DateLength(t)))
<1> DEFINE len == DateLength(t)
           k == LengthParts(len)
<1>1. /\ len \in {0, 4, 7, 11}
      /\ len # 11 => t.us = 0
      /\ len < 7 => t.h = 0 /\ t.mi = 0 /\ t.s = 0
      /\ len < 4 => t.y = 0 /\ t.mo = 0 /\ t.d = 0
  BY TimeOfDayIs DEF DateLength
<1> HIDE DEF len
<1>2. /\ k \in {0, 3, 6, 7} /\ (k < 7 => len # 11) /\ (k < 6 => len < 7) /\ (k < 3 => len < 4)
  BY <1>1 DEF LengthParts
<1> HIDE DEF k
<1>3. Shown(<<t.y, t.mo, t.d, t.h, t.mi, t.s, t.us>>, k)
  <2>1. /\ Years(t.y) /\ Micros(t.us) /\ t.mo \in Nat /\ t.mo <= 59 /\ t.d \in Nat /\ t.d <= 59
        /\ t.h \in Nat /\ t.h <= 59 /\ t.mi \in Nat /\ t.mi <= 59 /\ t.s \in Nat /\ t.s <= 59
    BY DateTyped
  <2>2. ShownBy(k, t.y, t.mo, t.d, t.h, t.mi, t.s, t.us)
    BY SMT, <1>1, <1>2, <2>1 DEF ShownBy
  <2> QED
    BY <2>2, PartsShown, Zenon
<1>4. Shown(MomentParts(t, t.us), k)
  BY <1>3, Zenon DEF MomentParts
<1> QED
  BY <1>1, <1>4 DEF k, len

(* A Value::Time in range is a duration that a column can hold,            *)
LEMMA OfTimeTimed ==
  ASSUME NEW t, TimeTyped(t), ValidTimeParts(t), ValidDuration(OfTime(t))
  PROVE  Timed(OfTime(t))
<1>1. /\ t.d \in Nat /\ t.h \in Nat /\ t.mi \in Nat /\ t.s \in Nat /\ t.us \in Nat /\ t.us <= 999999
  BY SMT DEF TimeTyped, ValidTimeParts
<1>2. OfTime(t).secs \in Nat /\ OfTime(t).us = t.us
  BY SMT, <1>1 DEF OfTime
<1> QED
  BY SMT, <1>1, <1>2 DEF Timed

(* and so is a Duration in range, cut to microseconds.                     *)
LEMMA OfDurationTimed ==
  ASSUME NEW d, DurationTyped(d), ValidDuration(OfDuration(d))
  PROVE  Timed(OfDuration(d)) /\ OfDuration(d).secs = d.secs /\ OfDuration(d).us = d.ns \div 1000
<1>1. d.secs \in Nat /\ d.ns \div 1000 \in Nat /\ d.ns \div 1000 <= 999999
  BY SMT DEF DurationTyped
<1>2. OfDuration(d).secs = d.secs /\ OfDuration(d).us = d.ns \div 1000
  BY SMT DEF OfDuration
<1> QED
  BY SMT, <1>1, <1>2 DEF Timed

(* What k parts show, all seven show.                                      *)
LEMMA ShownByMore ==
  ASSUME NEW parts, NEW k, Shown(parts, k)
  PROVE  Shown(parts, 7)
BY SMT DEF Shown

(* Seven parts need no padding.                                            *)
LEMMA ShownWhole ==
  ASSUME NEW parts, Shown(parts, 7)
  PROVE  Padded(parts) = parts
<1>1. parts = [i \in 1 .. 7 |-> parts[i]] /\ Len(parts) = 7
  BY SMT DEF Shown
<1>2. \A i \in 1 .. 7 : (IF i <= Len(parts) THEN parts[i] ELSE 0) = parts[i]
  BY <1>1
<1>3. Padded(parts) = [i \in 1 .. 7 |-> parts[i]]
  BY <1>2 DEF Padded
<1> QED
  BY <1>1, <1>3

(* encode.rs writes no other times, and into no other column.              *)
LEMMA TimeEncodes ==
  ASSUME NEW dur, NEW neg, NEW c, EncodeTime(dur, neg, c).ok
  PROVE  c.type = "TIME" /\ ValidDuration(dur)
BY SMT DEF EncodeTime, If, Refused

(* Every value that to_mysql_bin (value/encode.rs) accepts for a column is *)
(* written as fields a client reads, whatever follows them, as what the    *)
(* value means.                                                            *)
THEOREM BinaryCarries ==
  ASSUME NEW v, Typed(v), NEW c, c.unsigned \in BOOLEAN, ~Unreachable(v), ToMysqlBin(v, c).ok
  PROVE  Carries(c, ToMysqlBin(v, c).fields, Meaning(v))
<1> DEFINE x == Unwrapped(v)
           b == ToMysqlBin(v, c)
           m == Meaning(v)
<1>1. /\ x.type \in SizedTypes \cup OtherTypes
      /\ x.type \in SizedTypes => x.is \in RangeOf(RustWidth[x.type], RustSigned(x.type))
  BY TypedIs
<1>2. x.type \notin {"None", "NULL"}
  BY DEF Unreachable
<1>3. /\ x.type \in {"usize", "UInt"} => x.is \in RangeOf(8, FALSE)
      /\ x.type \in {"isize", "Int"} => x.is \in RangeOf(8, TRUE)
      /\ x.type \in {"f32", "Float"} => x.is \in RangeOf(4, FALSE)
      /\ x.type \in {"f64", "Double"} => x.is \in RangeOf(8, FALSE)
      /\ x.type \in {"bytes", "Bytes"} => x.is \in Seq(Nat)
      /\ x.type = "NaiveDate" => ChronoTyped(x.is) /\ x.is.h = 0 /\ x.is.mi = 0 /\ x.is.s = 0
      /\ x.type = "NaiveDateTime" => ChronoTyped(x.is) /\ x.is.ns \in Nat
      /\ x.type = "Date" => MomentTyped(x.is)
      /\ x.type = "Duration" => DurationTyped(x.is)
      /\ x.type = "Time" => TimeTyped(x.is)
  BY Zenon DEF Typed
<1>4. /\ x.type \in {"usize", "isize"} => b = EncodeForgiving(x.is, c)
      /\ x.type \in SizedTypes => b = EncodeSized(RustWidth[x.type], RustSigned(x.type), x.is, c)
      /\ x.type = "UInt" => b = EncodeSized(8, FALSE, x.is, c)
      /\ x.type = "Int" => b = EncodeValueInt(x.is, c)
      /\ x.type \in {"f32", "Float"} => b = EncodeF32(x.is, c)
      /\ x.type \in {"f64", "Double"} => b = EncodeF64(x.is, c)
      /\ x.type \in {"bytes", "Bytes"} => b = EncodeBytes(x.is, c)
      /\ x.type = "NaiveDate" => b = EncodeNaiveDate(x.is, c)
      /\ x.type = "NaiveDateTime" => b = EncodeNaiveDateTime(x.is, c)
      /\ x.type = "Duration" => b = EncodeTime(OfDuration(x.is), 0, c)
      /\ x.type = "Date" => b = EncodeValueDate(x.is, c)
      /\ x.type = "Time" =>
           b = IF ValidTimeParts(x.is) THEN EncodeTime(OfTime(x.is), x.is.neg, c) ELSE Refused
  BY BinaryEncodings, Zenon
<1>5. /\ x.type \in {"bytes", "Bytes"} => m = Means("string", x.is)
      /\ x.type = "NaiveDate" => m = Means("moment", Padded(MomentParts(x.is, 0)))
      /\ x.type = "NaiveDateTime" => m = Means("moment", MomentParts(x.is, x.is.ns \div 1000))
      /\ x.type = "Date" => m = Means("moment", MomentParts(x.is, x.is.us))
      /\ x.type = "Duration" => m = DurationMeaning(x.is)
      /\ x.type = "Time" => m = TimeMeaning(x.is)
      /\ x.type \notin {"None", "NULL", "bytes", "Bytes", "NaiveDate", "NaiveDateTime", "Duration",
                        "Date", "Time"}
           => m = Means("number", <<x.is>>)
  BY MeaningIs
<1>6. b.ok
  OBVIOUS
<1> HIDE DEF x, b, m
<1>7. CASE x.type \in {"usize", "isize"}
  <2>1. b = EncodeForgiving(x.is, c)
    BY <1>4, <1>7
  <2>2. m = Means("number", <<x.is>>)
    BY <1>5, <1>7
  <2>3. Carries(c, EncodeForgiving(x.is, c).fields, Means("number", <<x.is>>))
    BY <1>6, <2>1, ForgivingCarries
  <2> QED
    BY <2>1, <2>2, <2>3 DEF b, m
<1>8. CASE x.type \in SizedTypes
  <2>1. b = EncodeSized(RustWidth[x.type], RustSigned(x.type), x.is, c)
    BY <1>4, <1>8
  <2>2. m = Means("number", <<x.is>>)
    BY <1>5, <1>8 DEF SizedTypes
  <2> DEFINE w == RustWidth[x.type]
             signed == RustSigned(x.type)
  <2>3. w \in ByteWidths /\ signed \in BOOLEAN /\ x.is \in RangeOf(w, signed)
    BY <1>1, <1>8, RustIntegers
  <2> HIDE DEF w, signed
  <2>4. Carries(c, EncodeSized(w, signed, x.is, c).fields, Means("number", <<x.is>>))
    BY <1>6, <2>1, <2>3, SizedCarries DEF w, signed
  <2> QED
    BY <2>1, <2>2, <2>4 DEF b, m, w, signed
<1>9. CASE x.type = "UInt"
  <2>1. b = EncodeSized(8, FALSE, x.is, c) /\ m = Means("number", <<x.is>>) /\ x.is \in RangeOf(8, FALSE)
    BY <1>3, <1>4, <1>5, <1>9
  <2> DEFINE w == 8
             signed == FALSE
  <2>2. EncodeSized(w, signed, x.is, c).ok /\ w \in ByteWidths /\ signed \in BOOLEAN /\ x.is \in RangeOf(w, signed)
    BY <1>6, <2>1 DEF ByteWidths
  <2> HIDE DEF w, signed
  <2>3. Carries(c, EncodeSized(w, signed, x.is, c).fields, Means("number", <<x.is>>))
    BY <2>2, SizedCarries
  <2> QED
    BY <2>1, <2>3 DEF b, m, w, signed
<1>10. CASE x.type = "Int"
  <2>1. b = EncodeValueInt(x.is, c) /\ m = Means("number", <<x.is>>) /\ x.is \in RangeOf(8, TRUE)
    BY <1>3, <1>4, <1>5, <1>10
  <2>2. Carries(c, EncodeValueInt(x.is, c).fields, Means("number", <<x.is>>))
    <3>1. EncodeValueInt(x.is, c).ok /\ FitsI64(x.is)
      BY <1>6, <2>1 DEF FitsI64
    <3> QED
      BY <3>1, ValueIntCarries
  <2> QED
    BY <2>1, <2>2 DEF b, m
<1>11. CASE x.type \in {"f32", "Float"}
  <2>1. b = EncodeF32(x.is, c) /\ m = Means("number", <<x.is>>) /\ x.is \in RangeOf(4, FALSE)
    BY <1>3, <1>4, <1>5, <1>11
  <2> DEFINE w == IF c.type = "FLOAT" THEN 4 ELSE 8
  <2>2. c.type \in {"FLOAT", "DOUBLE"} /\ b.fields = <<Field(w, x.is)>>
    BY <1>6, <2>1 DEF EncodeF32, If, Writes, Refused
  <2>3. x.is \in RangeOf(8, FALSE)
    <3>1. FALSE \in BOOLEAN /\ (FALSE \/ x.is >= 0)
      BY <2>1, HalfIsPositive DEF RangeOf, ByteWidths
    <3>2. 4 \in ByteWidths /\ 8 \in ByteWidths /\ 4 < 8
      BY DEF ByteWidths
    <3>3. 2 * Half[4] <= Half[8] /\ Half[4] \in Nat /\ Half[8] \in Nat
      BY WidthAssumption, HalfIsPositive, <3>2
    <3> QED
      BY <2>1, <3>3 DEF RangeOf
  <2>4. FloatFits(c, w, x.is)
    BY <2>1, <2>2, <2>3 DEF FloatFits
  <2> HIDE DEF w
  <2>5. Carries(c, <<Field(w, x.is)>>, Means("number", <<x.is>>))
    BY <2>4, FloatCarries, Zenon
  <2> QED
    BY <2>1, <2>2, <2>5 DEF b, m
<1>12. CASE x.type \in {"f64", "Double"}
  <2>1. b = EncodeF64(x.is, c) /\ m = Means("number", <<x.is>>) /\ x.is \in RangeOf(8, FALSE)
    BY <1>3, <1>4, <1>5, <1>12
  <2>2. c.type = "DOUBLE" /\ b.fields = <<Field(8, x.is)>>
    BY <1>6, <2>1 DEF EncodeF64, If, Writes, Refused
  <2>3. FloatFits(c, 8, x.is)
    BY <2>1, <2>2 DEF FloatFits
  <2>4. Carries(c, <<Field(8, x.is)>>, Means("number", <<x.is>>))
    BY <2>3, FloatCarries, Zenon
  <2> QED
    BY <2>1, <2>2, <2>4 DEF b, m
<1>13. CASE x.type \in {"bytes", "Bytes"}
  <2>1. b = EncodeBytes(x.is, c) /\ m = Means("string", x.is) /\ x.is \in Seq(Nat)
    BY <1>3, <1>4, <1>5, <1>13
  <2>2. c.type = "STRING" /\ b.fields = LenencStr(x.is)
    BY <1>6, <2>1 DEF EncodeBytes, If, Writes, Refused
  <2>3. Carries(c, LenencStr(x.is), Means("string", x.is))
    BY <2>1, <2>2, StringDecodes, Unbounded DEF Carries
  <2> QED
    BY <2>1, <2>2, <2>3 DEF b, m
<1>14. CASE x.type = "NaiveDate"
  <2> DEFINE t == x.is
  <2>1. /\ b = EncodeNaiveDate(t, c) /\ m = Means("moment", Padded(MomentParts(t, 0)))
        /\ ChronoTyped(t) /\ t.h = 0 /\ t.mi = 0 /\ t.s = 0
    BY <1>3, <1>4, <1>5, <1>14
  <2> HIDE DEF t
  <2>2. c.type = "DATE" /\ ChronoYear(t) /\ b.fields = MomentFields(4, t, 0)
    BY <1>6, <2>1 DEF EncodeNaiveDate, If, Writes, Refused
  <2>3. Shown(MomentParts(t, 0), 3)
    BY <2>1, <2>2, NaiveDateShown
  <2>4. Shown(MomentParts(t, 0), LengthParts(4)) /\ Shown(MomentParts(t, 0), 7)
    <3>1. LengthParts(4) = 3
      BY DEF LengthParts
    <3> QED
      BY <2>3, <3>1, ShownByMore
  <2>5. Carries(c, MomentFields(4, t, 0), Means("moment", MomentParts(t, 0)))
    BY <2>2, <2>4, MomentCarries
  <2>6. Padded(MomentParts(t, 0)) = MomentParts(t, 0)
    BY <2>4, ShownWhole
  <2> QED
    BY <2>1, <2>2, <2>5, <2>6 DEF b, m
<1>15. CASE x.type = "NaiveDateTime"
  <2> DEFINE t == x.is
             us == t.ns \div 1000
             len == IF us # 0 THEN 11 ELSE 7
  <2>1. /\ b = EncodeNaiveDateTime(t, c) /\ m = Means("moment", MomentParts(t, us))
        /\ ChronoTyped(t) /\ t.ns \in Nat
    BY <1>3, <1>4, <1>5, <1>15
  <2> HIDE DEF t
  <2>2. c.type = "DATETIME" /\ ValidChronoDatetime(t) /\ b.fields = MomentFields(len, t, us)
    BY <1>6, <2>1 DEF EncodeNaiveDateTime, If, Writes, Refused
  <2>3. Shown(MomentParts(t, us), IF us # 0 THEN 7 ELSE 6)
    BY <2>1, <2>2, NaiveDateTimeShown
  <2>4. LengthParts(len) = (IF us # 0 THEN 7 ELSE 6) /\ len \in {0, 4, 7, 11}
    BY DEF LengthParts
  <2> HIDE DEF us, len
  <2>5. Carries(c, MomentFields(len, t, us), Means("moment", MomentParts(t, us)))
    BY <2>2, <2>3, <2>4, MomentCarries
  <2> QED
    BY <2>1, <2>2, <2>5 DEF b, m
<1>16. CASE x.type = "Date"
  <2> DEFINE t == x.is
  <2>1. b = EncodeValueDate(t, c) /\ m = Means("moment", MomentParts(t, t.us)) /\ MomentTyped(t)
    BY <1>3, <1>4, <1>5, <1>16
  <2> HIDE DEF t
  <2>2. c.type \in {"DATE", "DATETIME"} /\ ValidDate(t) /\ b.fields = MomentFields(DateLength(t), t, t.us)
    BY <1>6, <2>1 DEF EncodeValueDate, If, Writes, Refused
  <2>3. DateLength(t) \in {0, 4, 7, 11} /\ Shown(MomentParts(t, t.us), LengthParts(DateLength(t)))
    BY <2>1, <2>2, DateShown
  <2>4. Carries(c, MomentFields(DateLength(t), t, t.us), Means("moment", MomentParts(t, t.us)))
    BY <2>2, <2>3, MomentCarries
  <2> QED
    BY <2>1, <2>2, <2>4 DEF b, m
<1>17. CASE x.type = "Duration"
  <2> DEFINE d == x.is
             dur == OfDuration(d)
  <2>1. b = EncodeTime(dur, 0, c) /\ m = Time(FALSE, d.secs, d.ns \div 1000) /\ DurationTyped(d)
    BY <1>3, <1>4, <1>5, <1>17, Zenon DEF DurationMeaning
  <2> HIDE DEF d
  <2>2. c.type = "TIME" /\ ValidDuration(dur)
    BY <1>6, <2>1, TimeEncodes
  <2>3. Timed(dur) /\ dur.secs = d.secs /\ dur.us = d.ns \div 1000
    BY <2>1, <2>2, OfDurationTimed
  <2> HIDE DEF dur
  <2>4. Carries(c, EncodeTime(dur, 0, c).fields, Time(0 = 1, dur.secs, dur.us))
    BY <2>2, <2>3, TimeCarries
  <2>5. Time(0 = 1, dur.secs, dur.us) = m
    <3>1. (0 = 1) = FALSE
      OBVIOUS
    <3>2. m = Time(FALSE, dur.secs, dur.us)
      BY <2>1, <2>3, Zenon
    <3> QED
      BY <3>1, <3>2, Zenon
  <2> QED
    BY <2>1, <2>4, <2>5, Zenon DEF b, m
<1>18. CASE x.type = "Time"
  <2> DEFINE t == x.is
             dur == OfTime(t)
  <2>1. /\ b = (IF ValidTimeParts(t) THEN EncodeTime(dur, t.neg, c) ELSE Refused)
        /\ m = Time(t.neg = 1, dur.secs, t.us) /\ TimeTyped(t)
    BY <1>3, <1>4, <1>5, <1>18, Zenon DEF TimeMeaning
  <2> HIDE DEF t
  <2>2. ValidTimeParts(t) /\ b = EncodeTime(dur, t.neg, c)
    BY <1>6, <2>1 DEF Refused
  <2>3. c.type = "TIME" /\ ValidDuration(dur)
    BY <1>6, <2>2, TimeEncodes
  <2>4. Timed(dur) /\ dur.us = t.us /\ t.neg \in {0, 1}
    BY <2>1, <2>2, <2>3, OfTimeTimed DEF OfTime, TimeTyped
  <2> HIDE DEF dur
  <2>5. Carries(c, EncodeTime(dur, t.neg, c).fields, Time(t.neg = 1, dur.secs, dur.us))
    BY <2>3, <2>4, TimeCarries
  <2> QED
    BY <2>1, <2>2, <2>4, <2>5, Zenon DEF b, m
<1> QED
  BY <1>1, <1>2, <1>7, <1>8, <1>9, <1>10, <1>11, <1>12, <1>13, <1>14, <1>15, <1>16, <1>17, <1>18 DEF OtherTypes

-----------------------------------------------------------------------------
(* The text protocol.                                                      *)

(* One field of text, which a client reads as the meaning.                 *)
Shows(fields, meaning) ==
  /\ fields \in Seq(AField) /\ Len(fields) = 1
  /\ ReadsText(fields[1]) = meaning /\ InRange(meaning)

(* Natural numbers are integers.                                           *)
LEMMA NaturalsAreIntegers ==
  ASSUME NEW s \in Seq(Nat)
  PROVE  s \in Seq(Int)
<1>1. s = [i \in 1 .. Len(s) |-> s[i]] /\ Len(s) \in Nat /\ \A i \in 1 .. Len(s) : s[i] \in Int
  OBVIOUS
<1> QED
  BY <1>1, FunctionIsSequence

(* A text field is one field, which keeps its form and its parts.          *)
LEMMA TextField ==
  ASSUME NEW form \in {"string", "moment", "time", "number", "null"}, NEW parts \in Seq(Int)
  PROVE  /\ Text(form, parts) \in Seq(AField) /\ Len(Text(form, parts)) = 1
         /\ Text(form, parts)[1].form = form /\ Text(form, parts)[1].holds = parts
<1> DEFINE f == [form |-> form, width |-> 1 + Len(parts), holds |-> parts]
<1>1. f \in AField /\ f.form = form /\ f.holds = parts
  BY DEF AField
<1>2. Text(form, parts) = <<f>>
  BY DEF Text
<1> HIDE DEF f
<1> QED
  BY <1>1, <1>2

(* A string, a number or NULL is shown in text.                            *)
LEMMA PlainShows ==
  ASSUME NEW form \in {"string", "number", "null"}, NEW parts \in Seq(Int)
  PROVE  Shows(Text(form, parts), Means(form, parts))
<1> DEFINE f == Text(form, parts)[1]
<1>1. f.form = form /\ f.holds = parts
  BY TextField
<1> HIDE DEF f
<1>2. f.form # "moment" /\ f.form # "time"
  BY <1>1
<1>3. ReadsText(f) = Means(f.form, f.holds)
  BY SMT, <1>2 DEF ReadsText
<1>4. InRange(Means(form, parts))
  BY Unbounded
<1> QED
  BY <1>1, <1>3, <1>4, TextField DEF Shows, f

(* A moment is shown in text by the parts that are not zero.               *)
LEMMA MomentShows ==
  ASSUME NEW parts, NEW k, Shown(parts, k)
  PROVE  Shows(Text("moment", SubSeq(parts, 1, k)), Means("moment", parts))
<1> DEFINE s == SubSeq(parts, 1, k)
           f == Text("moment", s)[1]
<1>1. s \in Seq(Int)
  <2>1. parts \in Seq(Nat) /\ Len(parts) = 7 /\ k \in 0 .. 7
    BY SMT DEF Shown
  <2>2. k \in 0 .. Len(parts)
    BY <2>1
  <2>3. s \in Seq(Nat)
    BY <2>1, <2>2, CutInTwo
  <2> HIDE DEF s
  <2> QED
    BY <2>3, NaturalsAreIntegers
<1>2. Padded(s) = parts
  BY ShownPadded
<1> HIDE DEF s
<1>3. f.form = "moment" /\ f.holds = s
  BY <1>1, TextField
<1>4. Text("moment", s) \in Seq(AField) /\ Len(Text("moment", s)) = 1
  BY <1>1, TextField
<1> HIDE DEF f
<1>5. ReadsText(f) = Means("moment", parts)
  BY SMT, <1>2, <1>3 DEF ReadsText
<1>6. InRange(Means("moment", parts))
  BY ShownInRange
<1> QED
  BY <1>4, <1>5, <1>6 DEF Shows, f, s

(* A duration of either sign is shown in text.                             *)
LEMMA TimeShows ==
  ASSUME NEW dur, Timed(dur), NEW neg \in {0, 1}
  PROVE  /\ TimeText(dur, neg).ok
         /\ Shows(TimeText(dur, neg).fields, Time(neg = 1, dur.secs, dur.us))
<1> DEFINE sign == IF neg = 1 /\ ~IsZero(dur) THEN -1 ELSE 1
           h == dur.secs \div 3600
           mi == (dur.secs % 3600) \div 60
           s == dur.secs % 60
           us == dur.us
           four == <<sign, h, mi, s>>
           tail == IF us # 0 THEN <<us>> ELSE <<>>
           parts == four \o tail
           f == Text("time", parts)[1]
<1>1. /\ dur.secs \in Nat /\ dur.secs <= 3020399 /\ us \in Nat
  BY SMT, TimedSeconds
<1>2. h \in Nat /\ mi \in Nat /\ s \in Nat /\ h * 3600 + mi * 60 + s = dur.secs
  <2> DEFINE secs == dur.secs
  <2>1. secs \in Nat /\ secs <= 3020399
    BY SMT, <1>1
  <2> HIDE DEF secs
  <2>2. /\ secs \div 3600 \in Nat
        /\ (secs % 3600) \div 60 \in 0 .. 59 /\ secs % 60 \in 0 .. 59
        /\ (secs \div 3600) * 3600 + ((secs % 3600) \div 60) * 60 + (secs % 60) = secs
    BY SMT, <2>1, HourParts
  <2> QED
    BY SMT, <2>2 DEF secs
<1>3. sign \in Int /\ ((sign = -1) <=> (neg = 1 /\ ~IsZero(dur)))
  OBVIOUS
<1>4. ValidDuration(dur)
  BY DEF Timed
<1>5. TimeText(dur, neg) = Writes(Text("time", parts))
  BY SMT, <1>4 DEF TimeText, If
<1> HIDE DEF sign, h, mi, s, us
<1>6. four \in Seq(Int) /\ Len(four) = 4 /\ four[1] = sign /\ four[2] = h /\ four[3] = mi /\ four[4] = s
  BY SMT, <1>2, <1>3
<1>7. tail \in Seq(Int) /\ Len(tail) = (IF us # 0 THEN 1 ELSE 0) /\ (us # 0 => tail[1] = us)
  BY SMT, <1>1
<1> HIDE DEF four, tail
<1>8. /\ parts \in Seq(Int) /\ Len(parts) = Len(four) + Len(tail)
      /\ \A i \in 1 .. Len(four) : parts[i] = four[i]
      /\ \A i \in 1 .. Len(tail) : parts[Len(four) + i] = tail[i]
  <2>1. four \in Seq(Int) /\ tail \in Seq(Int)
    BY SMT, <1>6, <1>7
  <2>2. parts \in Seq(Int) /\ Len(parts) = Len(four) + Len(tail)
    BY SMT, <2>1, Concatenated
  <2>3. \A i \in 1 .. Len(four) : parts[i] = four[i]
    BY SMT, <2>1, Concatenated
  <2>4. \A i \in 1 .. Len(tail) : parts[Len(four) + i] = tail[i]
    BY SMT, <2>1, Concatenated
  <2> QED
    BY SMT, <2>2, <2>3, <2>4
<1> HIDE DEF parts
<1>9. \A i \in 1 .. 4 : parts[i] = four[i]
  <2>1. Len(four) = 4 /\ \A i \in 1 .. Len(four) : parts[i] = four[i]
    BY SMT, <1>6, <1>8
  <2> QED
    BY SMT, <2>1
<1>10. us # 0 => parts[5] = us
  <2>1. us # 0 => 1 \in 1 .. Len(tail) /\ Len(four) + 1 = 5
    BY SMT, <1>6, <1>7
  <2> QED
    BY SMT, <1>7, <1>8, <2>1
<1>11. parts[1] = sign /\ parts[2] = h /\ parts[3] = mi /\ parts[4] = s
  BY SMT, <1>6, <1>9
<1>12. (IF Len(parts) = 5 THEN parts[5] ELSE 0) = us
  BY SMT, <1>1, <1>6, <1>7, <1>8, <1>10
<1>13. /\ Text("time", parts) \in Seq(AField) /\ Len(Text("time", parts)) = 1
       /\ f.form = "time" /\ f.holds = parts
  BY SMT, <1>8, TextField
<1> HIDE DEF f
<1> DEFINE negative == f.holds[1] = -1
           secs == f.holds[2] * 3600 + f.holds[3] * 60 + f.holds[4]
           micros == IF Len(f.holds) = 5 THEN f.holds[5] ELSE 0
<1>14. ReadsText(f) = Time(negative, secs, micros)
  BY SMT, <1>13 DEF ReadsText
<1>15. secs = dur.secs /\ micros = us /\ (negative <=> neg = 1 /\ ~IsZero(dur))
  BY SMTT(60), <1>2, <1>3, <1>11, <1>12, <1>13
<1> HIDE DEF negative, secs, micros
<1>16. Time(negative, secs, micros) = Time(neg = 1, dur.secs, dur.us)
  <2>1. IsZero(dur) <=> <<dur.secs, dur.us>> = <<0, 0>>
    BY SMT DEF IsZero
  <2>2. micros = dur.us
    BY SMT, <1>15 DEF us
  <2> QED
    BY SMT, <1>15, <2>1, <2>2 DEF Time
<1>17. InRange(Time(neg = 1, dur.secs, dur.us))
  BY TimedInRange, (neg = 1) \in BOOLEAN
<1>18. Shows(Text("time", parts), Time(neg = 1, dur.secs, dur.us))
  BY SMT, <1>13, <1>14, <1>16, <1>17 DEF Shows, f
<1> QED
  BY SMT, <1>5, <1>18 DEF Writes

(* Every value that to_mysql_text (value/encode.rs) accepts, in any        *)
(* column, is one text field, which a client reads as what the value       *)
(* means.                                                                  *)
THEOREM TextShows ==
  ASSUME NEW v, Typed(v), NEW c, ToMysqlText(v, c).ok
  PROVE  Shows(ToMysqlText(v, c).fields, Meaning(v))
<1> DEFINE x == Unwrapped(v)
           b == ToMysqlText(v, c)
           m == Meaning(v)
<1>1. /\ x.type \in SizedTypes \cup OtherTypes
      /\ x.type \in SizedTypes => x.is \in RangeOf(RustWidth[x.type], RustSigned(x.type))
  BY TypedIs
<1>3. /\ x.type \in {"usize", "UInt"} => x.is \in RangeOf(8, FALSE)
      /\ x.type \in {"isize", "Int"} => x.is \in RangeOf(8, TRUE)
      /\ x.type \in {"f32", "Float"} => x.is \in RangeOf(4, FALSE)
      /\ x.type \in {"f64", "Double"} => x.is \in RangeOf(8, FALSE)
      /\ x.type \in {"bytes", "Bytes"} => x.is \in Seq(Nat)
      /\ x.type = "NaiveDate" => ChronoTyped(x.is) /\ x.is.h = 0 /\ x.is.mi = 0 /\ x.is.s = 0
      /\ x.type = "NaiveDateTime" => ChronoTyped(x.is) /\ x.is.ns \in Nat
      /\ x.type = "Date" => MomentTyped(x.is)
      /\ x.type = "Duration" => DurationTyped(x.is)
      /\ x.type = "Time" => TimeTyped(x.is)
  BY Zenon DEF Typed
<1>4. /\ x.type \in {"None", "NULL"} => b = Writes(Text("null", <<>>))
      /\ x.type \in {"bytes", "Bytes"} => b = Writes(LenencStr(x.is))
      /\ x.type = "NaiveDate" => b = NaiveDateText(x.is)
      /\ x.type = "NaiveDateTime" => b = NaiveDateTimeText(x.is)
      /\ x.type = "Duration" => b = TimeText(OfDuration(x.is), 0)
      /\ x.type = "Date" => b = ValueDateTextInColumn(x.is, c)
      /\ x.type = "Time" =>
           b = IF ValidTimeParts(x.is) THEN TimeText(OfTime(x.is), x.is.neg) ELSE Refused
      /\ x.type \notin {"None", "NULL", "bytes", "Bytes", "NaiveDate", "NaiveDateTime", "Duration",
                        "Date", "Time"}
           => b = Writes(Text("number", <<x.is>>))
  BY TextEncodings
<1>5. /\ x.type \in {"None", "NULL"} => m = Means("null", <<>>)
      /\ x.type \in {"bytes", "Bytes"} => m = Means("string", x.is)
      /\ x.type = "NaiveDate" => m = Means("moment", Padded(MomentParts(x.is, 0)))
      /\ x.type = "NaiveDateTime" => m = Means("moment", MomentParts(x.is, x.is.ns \div 1000))
      /\ x.type = "Date" => m = Means("moment", MomentParts(x.is, x.is.us))
      /\ x.type = "Duration" => m = DurationMeaning(x.is)
      /\ x.type = "Time" => m = TimeMeaning(x.is)
      /\ x.type \notin {"None", "NULL", "bytes", "Bytes", "NaiveDate", "NaiveDateTime", "Duration",
                        "Date", "Time"}
           => m = Means("number", <<x.is>>)
  BY MeaningIs
<1>6. b.ok
  OBVIOUS
<1> HIDE DEF x, b, m
<1>7. CASE x.type \in {"None", "NULL"}
  <2>1. b.fields = Text("null", <<>>) /\ m = Means("null", <<>>)
    BY <1>4, <1>5, <1>7 DEF Writes
  <2>2. <<>> \in Seq(Int)
    OBVIOUS
  <2> QED
    BY <2>1, <2>2, PlainShows DEF b, m
<1>8. CASE x.type \in {"bytes", "Bytes"}
  <2>1. b.fields = Text("string", x.is) /\ m = Means("string", x.is) /\ x.is \in Seq(Int)
    BY <1>3, <1>4, <1>5, <1>8, NaturalsAreIntegers DEF Writes, LenencStr
  <2> QED
    BY <2>1, PlainShows DEF b, m
<1>9. CASE x.type = "NaiveDate"
  <2> DEFINE t == x.is
             parts == MomentParts(t, 0)
  <2>1. /\ b = NaiveDateText(t) /\ m = Means("moment", Padded(parts))
        /\ ChronoTyped(t) /\ t.h = 0 /\ t.mi = 0 /\ t.s = 0
    BY <1>3, <1>4, <1>5, <1>9
  <2> HIDE DEF t
  <2>2. ChronoYear(t) /\ b.fields = Text("moment", SubSeq(parts, 1, 3))
    BY SMT, <1>6, <2>1 DEF NaiveDateText, If, Writes, Refused
  <2>3. Shown(parts, 3) /\ Shown(parts, 7) /\ Padded(parts) = parts
    BY <2>1, <2>2, NaiveDateShown, ShownByMore, ShownWhole
  <2> HIDE DEF parts
  <2>4. Shows(Text("moment", SubSeq(parts, 1, 3)), Means("moment", parts))
    BY <2>3, MomentShows
  <2> QED
    BY <2>1, <2>2, <2>3, <2>4 DEF b, m
<1>10. CASE x.type = "NaiveDateTime"
  <2> DEFINE t == x.is
             us == t.ns \div 1000
             k == IF us # 0 THEN 7 ELSE 6
             parts == MomentParts(t, us)
  <2>1. /\ b = NaiveDateTimeText(t) /\ m = Means("moment", parts)
        /\ ChronoTyped(t) /\ t.ns \in Nat
    BY <1>3, <1>4, <1>5, <1>10
  <2> HIDE DEF t
  <2>2. ValidChronoDatetime(t) /\ b.fields = Text("moment", SubSeq(parts, 1, k))
    BY SMT, <1>6, <2>1 DEF NaiveDateTimeText, MomentText, If, Writes, Refused
  <2>3. Shown(parts, k)
    BY <2>1, <2>2, NaiveDateTimeShown
  <2> HIDE DEF parts, k
  <2>4. Shows(Text("moment", SubSeq(parts, 1, k)), Means("moment", parts))
    BY <2>3, MomentShows
  <2> QED
    BY <2>1, <2>2, <2>4 DEF b, m
<1>11. CASE x.type = "Date"
  <2> DEFINE t == x.is
             parts == MomentParts(t, t.us)
  <2>1. b = ValueDateTextInColumn(t, c) /\ m = Means("moment", parts) /\ MomentTyped(t)
    BY <1>3, <1>4, <1>5, <1>11
  <2> HIDE DEF t
  <2>2. PICK k \in {3, 6, 7} :
          /\ b.fields = Text("moment", SubSeq(parts, 1, k))
          /\ ValidDate(t) /\ (k < 7 => t.us = 0) /\ (k < 6 => t.h = 0 /\ t.mi = 0 /\ t.s = 0)
    <3>1. CASE c.type # "DATE"
      <4> DEFINE k == IF t.us # 0 THEN 7 ELSE 6
      <4>1. b = If(ValidDate(t), Text("moment", SubSeq(parts, 1, k)))
        BY SMT, <2>1, <3>1 DEF ValueDateTextInColumn, ValueDateText, MomentText
      <4>2. ValidDate(t) /\ b.fields = Text("moment", SubSeq(parts, 1, k))
        BY SMT, <1>6, <4>1 DEF If, Writes, Refused
      <4>3. k \in {3, 6, 7} /\ (k < 7 => t.us = 0) /\ ~(k < 6)
        BY SMT
      <4> HIDE DEF k, parts
      <4> QED
        BY <4>2, <4>3
    <3>2. CASE c.type = "DATE"
      <4>1. b = If(ValidDate(t) /\ ~TimeOfDay(t) /\ t.us = 0, Text("moment", SubSeq(MomentParts(t, 0), 1, 3)))
        BY SMT, <2>1, <3>2 DEF ValueDateTextInColumn
      <4>2. /\ ValidDate(t) /\ ~TimeOfDay(t) /\ t.us = 0
            /\ b.fields = Text("moment", SubSeq(MomentParts(t, 0), 1, 3))
        BY SMT, <1>6, <4>1 DEF If, Writes, Refused
      <4>3. b.fields = Text("moment", SubSeq(parts, 1, 3)) /\ t.h = 0 /\ t.mi = 0 /\ t.s = 0
        BY <4>2, TimeOfDayIs
      <4> HIDE DEF parts
      <4> QED
        BY <4>2, <4>3
    <3> QED
      BY <3>1, <3>2
  <2>3. Shown(parts, k)
    <3>1. /\ Years(t.y) /\ Micros(t.us) /\ t.mo \in Nat /\ t.mo <= 59 /\ t.d \in Nat /\ t.d <= 59
          /\ t.h \in Nat /\ t.h <= 59 /\ t.mi \in Nat /\ t.mi <= 59 /\ t.s \in Nat /\ t.s <= 59
      BY <2>1, <2>2, DateTyped
    <3>2. ShownBy(k, t.y, t.mo, t.d, t.h, t.mi, t.s, t.us)
      BY SMT, <2>2, <3>1 DEF ShownBy
    <3> QED
      BY <3>2, PartsShown, Zenon DEF MomentParts
  <2> HIDE DEF parts
  <2>4. Shows(Text("moment", SubSeq(parts, 1, k)), Means("moment", parts))
    BY <2>3, MomentShows
  <2> QED
    BY <2>1, <2>2, <2>4 DEF b, m
<1>12. CASE x.type = "Duration"
  <2> DEFINE d == x.is
             dur == OfDuration(d)
  <2>1. b = TimeText(dur, 0) /\ m = Time(FALSE, d.secs, d.ns \div 1000) /\ DurationTyped(d)
    BY <1>3, <1>4, <1>5, <1>12, Zenon DEF DurationMeaning
  <2> HIDE DEF d
  <2>2. ValidDuration(dur)
    BY SMT, <1>6, <2>1 DEF TimeText, If, Refused
  <2>3. Timed(dur) /\ dur.secs = d.secs /\ dur.us = d.ns \div 1000
    BY <2>1, <2>2, OfDurationTimed
  <2> HIDE DEF dur
  <2>4. Shows(TimeText(dur, 0).fields, Time(0 = 1, dur.secs, dur.us))
    BY <2>3, TimeShows
  <2>5. Time(0 = 1, dur.secs, dur.us) = m
    <3>1. (0 = 1) = FALSE
      OBVIOUS
    <3>2. m = Time(FALSE, dur.secs, dur.us)
      BY <2>1, <2>3, Zenon
    <3> QED
      BY <3>1, <3>2, Zenon
  <2> QED
    BY <2>1, <2>4, <2>5, Zenon DEF b, m
<1>13. CASE x.type = "Time"
  <2> DEFINE t == x.is
             dur == OfTime(t)
  <2>1. /\ b = (IF ValidTimeParts(t) THEN TimeText(dur, t.neg) ELSE Refused)
        /\ m = Time(t.neg = 1, dur.secs, t.us) /\ TimeTyped(t)
    BY <1>3, <1>4, <1>5, <1>13, Zenon DEF TimeMeaning
  <2> HIDE DEF t
  <2>2. ValidTimeParts(t) /\ b = TimeText(dur, t.neg)
    BY <1>6, <2>1 DEF Refused
  <2>3. ValidDuration(dur)
    BY SMT, <1>6, <2>2 DEF TimeText, If, Refused
  <2>4. Timed(dur) /\ dur.us = t.us /\ t.neg \in {0, 1}
    BY <2>1, <2>2, <2>3, OfTimeTimed DEF OfTime, TimeTyped
  <2> HIDE DEF dur
  <2>5. Shows(TimeText(dur, t.neg).fields, Time(t.neg = 1, dur.secs, dur.us))
    BY <2>4, TimeShows
  <2> QED
    BY <2>1, <2>2, <2>4, <2>5, Zenon DEF b, m
<1>14. CASE x.type \notin {"None", "NULL", "bytes", "Bytes", "NaiveDate", "NaiveDateTime", "Duration",
                           "Date", "Time"}
  <2>1. b.fields = Text("number", <<x.is>>) /\ m = Means("number", <<x.is>>)
    BY <1>4, <1>5, <1>14 DEF Writes
  <2>2. x.is \in Int
    <3>1. CASE x.type \in SizedTypes
      <4>1. Half[RustWidth[x.type]] \in Nat
        BY <3>1, RustIntegers, HalfIsPositive
      <4> QED
        BY <1>1, <3>1, <4>1 DEF RangeOf
    <3>2. CASE x.type \notin SizedTypes
      <4>1. Half[4] \in Nat /\ Half[8] \in Nat
        BY HalfIsPositive DEF ByteWidths
      <4>2. x.type \in {"usize", "UInt", "isize", "Int", "f32", "Float", "f64", "Double"}
        BY <1>1, <1>14, <3>2 DEF OtherTypes
      <4> QED
        BY <1>3, <4>1, <4>2 DEF RangeOf
    <3> QED
      BY <3>1, <3>2
  <2>3. <<x.is>> \in Seq(Int)
    BY <2>2
  <2>4. Shows(Text("number", <<x.is>>), Means("number", <<x.is>>))
    BY <2>3, PlainShows
  <2> QED
    BY <2>1, <2>4 DEF b, m
<1> QED
  BY <1>7, <1>8, <1>9, <1>10, <1>11, <1>12, <1>13, <1>14

-----------------------------------------------------------------------------
(* The echo: what a parameter means is what the converted value means.     *)

(* What decodes with more behind it decodes alone.                         *)
LEMMA DecodesAlone ==
  ASSUME NEW c, NEW fields \in Seq(AField), NEW m, Decodes(c, fields, m)
  PROVE  ReadsValue(c, fields).meaning = m
<1>1. <<>> \in Seq(AField) /\ fields \o <<>> = fields
  OBVIOUS
<1>2. ReadsValue(c, fields \o <<>>) = [meaning |-> m, fields |-> Len(fields)]
  BY <1>1, Zenon DEF Decodes
<1> QED
  BY <1>1, <1>2

TryFromTypes == {"f32", "f64", "bytes", "str", "NaiveDate", "NaiveDateTime", "Duration"}

(* The conversion from a Value that each Rust type has.                    *)
LEMMA TryFromIs ==
  ASSUME NEW type, NEW inner
  PROVE  /\ type \in SizedTypes => TryFrom(type, inner) = TryInteger(type, inner)
         /\ type \in {"f32", "f64"} => TryFrom(type, inner) = TryFloat(type, inner)
         /\ type = "bytes" => TryFrom(type, inner) = TryBytes(inner)
         /\ type = "str" => TryFrom(type, inner) = TryStr(inner)
         /\ type = "NaiveDate" => TryFrom(type, inner) = TryNaiveDate(inner)
         /\ type = "NaiveDateTime" => TryFrom(type, inner) = TryNaiveDateTime(inner)
         /\ type = "Duration" => TryFrom(type, inner) = TryDuration(inner)
<1>1. DOMAIN RustInteger = SizedTypes
  BY RustIntegers
<1>2. TryFrom(type, inner) =
        CASE type \in SizedTypes -> TryInteger(type, inner)
          [] type \in {"f32", "f64"} -> TryFloat(type, inner)
          [] type = "bytes" -> TryBytes(inner)
          [] type = "str" -> TryStr(inner)
          [] type = "NaiveDate" -> TryNaiveDate(inner)
          [] type = "NaiveDateTime" -> TryNaiveDateTime(inner)
          [] type = "Duration" -> TryDuration(inner)
  BY <1>1, Zenon DEF TryFrom
<1> QED
  BY SMT, <1>2 DEF SizedTypes

(* A conversion gives one value or, where it panics, none.                 *)
LEMMA ConvertedIs ==
  ASSUME NEW ok, NEW type, NEW x
  PROVE  /\ ok => Converted(ok, type, x) = {[type |-> type, is |-> x]}
         /\ ~ok => Converted(ok, type, x) = {}
  BY DEF Converted

(* A conversion finds nothing in a value of another kind.                  *)
LEMMA NothingConverted ==
  ASSUME NEW type \in RustTypes, NEW inner,
         type \in SizedTypes => inner.kind \notin {"UInt", "Int"},
         type \in {"f32", "f64"} => inner.kind # "Double",
         type \in {"bytes", "str"} => inner.kind # "Bytes",
         type = "NaiveDate" => inner.kind # "Date",
         type = "NaiveDateTime" => inner.kind # "Datetime",
         type = "Duration" => inner.kind # "Time"
  PROVE  TryFrom(type, inner) = {}
<1>1. CASE type \in SizedTypes
  BY <1>1, TryFromIs DEF TryInteger, Converted
<1>2. CASE type \in {"f32", "f64"}
  BY <1>2, TryFromIs DEF TryFloat, Converted
<1>3. CASE type = "bytes"
  BY <1>3, TryFromIs DEF TryBytes, Converted
<1>4. CASE type = "str"
  BY <1>4, TryFromIs, Zenon DEF TryStr, Converted
<1>5. CASE type = "NaiveDate"
  BY <1>5, TryFromIs, Zenon DEF TryNaiveDate, Converted
<1>6. CASE type = "NaiveDateTime"
  <2>1. TryNaiveDateTime(inner) = {}
    BY <1>6, SMT DEF TryNaiveDateTime, Converted
  <2> QED
    BY <1>6, <2>1, TryFromIs
<1>7. CASE type = "Duration"
  <2>1. TryDuration(inner) = {}
    BY <1>7, SMT DEF TryDuration, Converted
  <2> QED
    BY <1>7, <2>1, TryFromIs
<1>8. DOMAIN RustInteger = SizedTypes
  BY RustIntegers
<1> QED
  BY <1>1, <1>2, <1>3, <1>4, <1>5, <1>6, <1>7, <1>8 DEF RustTypes

(* What the echo of a parameter needs.                                     *)
Echoes(type, c, inner, meaning) ==
  /\ \A v \in TryFrom(type, inner) :
       /\ Typed(v) /\ Unwrapped(v) = v /\ ~IsNullValue(v) /\ Meaning(v) = meaning
  /\ Convertible(type, meaning, c) => TryFrom(type, inner) # {}

(* A value of one of the types that TryFrom converts to.                   *)
LEMMA TypedWhenNumber ==
  ASSUME NEW v, v.type \in SizedTypes \cup {"f32", "f64"}, Unwrapped(v) = v,
         v.type \in SizedTypes => v.is \in RustInteger[v.type],
         v.type = "f32" => v.is \in RangeOf(4, FALSE),
         v.type = "f64" => v.is \in RangeOf(8, FALSE)
  PROVE  Typed(v)
<1>1. DOMAIN RustInteger = SizedTypes
  BY RustIntegers
<1>2. v.type \notin {"usize", "isize", "UInt", "Int", "Float", "Double", "bytes", "Bytes", "NaiveDate",
                    "NaiveDateTime", "Date", "Duration", "Time", "None", "NULL"}
  BY DEF SizedTypes
<1>3. v.type \in SizedTypes => v.type \notin {"f32", "f64"}
  BY DEF SizedTypes
<1> DEFINE type == v.type
           is == v.is
<1>4. Unwrapped(v).type = type /\ Unwrapped(v).is = is
  OBVIOUS
<1> HIDE DEF type, is
<1>5. type \in SizedTypes \cup {"f32", "f64"}
  BY DEF type
<1> QED
  BY <1>1, <1>2, <1>3, <1>4, Zenon DEF Typed, type, is

(* A converted value that is not a number is a value of its type.          *)
LEMMA TypedWhenOther ==
  ASSUME NEW v, v.type \in {"bytes", "NaiveDate", "NaiveDateTime", "Duration"}, Unwrapped(v) = v,
         v.type = "bytes" => v.is \in Seq(Nat),
         v.type = "NaiveDate" => ChronoTyped(v.is) /\ v.is.h = 0 /\ v.is.mi = 0 /\ v.is.s = 0,
         v.type = "NaiveDateTime" => ChronoTyped(v.is) /\ v.is.ns \in Nat,
         v.type = "Duration" => DurationTyped(v.is)
  PROVE  Typed(v)
<1>1. DOMAIN RustInteger = SizedTypes
  BY RustIntegers
<1>2. v.type \notin SizedTypes
         /\ v.type \notin {"usize", "isize", "UInt", "Int", "f32", "f64", "Float", "Double", "Bytes",
                           "Date", "Time", "None", "NULL"}
  BY DEF SizedTypes
<1> QED
  BY <1>1, <1>2, Zenon DEF Typed

(* A converted value of one of the types, as Typed wants it.               *)
LEMMA NumberConverted ==
  ASSUME NEW type \in SizedTypes \cup {"f32", "f64"}, NEW n,
         type \in SizedTypes => n \in RustInteger[type],
         type \notin SizedTypes => n \in RangeOf(4, FALSE),
         NEW v, v = [type |-> type, is |-> n]
  PROVE  Typed(v) /\ Unwrapped(v) = v /\ ~IsNullValue(v) /\ Meaning(v) = Means("number", <<n>>)
<1>1. v.type = type /\ v.is = n
  OBVIOUS
<1>2. DOMAIN RustInteger = SizedTypes
  BY RustIntegers
<1>3. Unwrapped(v) = v
  BY <1>1 DEF Unwrapped, SizedTypes
<1>4. n \in RangeOf(4, FALSE) => n \in RangeOf(8, FALSE)
  <2>1. 2 * Half[4] <= Half[8] /\ Half[4] \in Nat /\ Half[8] \in Nat
    <3>1. 4 \in ByteWidths /\ 8 \in ByteWidths /\ 4 < 8
      BY DEF ByteWidths
    <3> QED
      BY <3>1, WidthAssumption, HalfIsPositive
  <2> QED
    BY <2>1 DEF RangeOf
<1>5. Typed(v)
  <2>1. type \in {"f32", "f64"} => type \notin SizedTypes
    BY DEF SizedTypes
  <2>2. v.type \in SizedTypes => v.is \in RustInteger[v.type]
    BY <1>1
  <2>3. v.type = "f32" => v.is \in RangeOf(4, FALSE)
    BY <1>1, <2>1
  <2>4. v.type = "f64" => v.is \in RangeOf(8, FALSE)
    BY <1>1, <1>4, <2>1
  <2> QED
    BY <1>1, <1>3, <2>2, <2>3, <2>4, TypedWhenNumber
<1>6. ~IsNullValue(v)
  BY <1>1 DEF IsNullValue, SizedTypes
<1>7. Meaning(v) = Means("number", <<v.is>>)
  <2>1. v.type \notin {"None", "NULL", "bytes", "Bytes", "NaiveDate", "NaiveDateTime", "Duration", "Date", "Time"}
    BY <1>1 DEF SizedTypes
  <2> QED
    BY <1>3, <2>1, MeaningIs
<1> QED
  BY <1>1, <1>3, <1>5, <1>6, <1>7

(* Bytes converted from a parameter mean the same string.                  *)
LEMMA BytesConverted ==
  ASSUME NEW s \in Seq(Nat), NEW v, v = [type |-> "bytes", is |-> s]
  PROVE  Typed(v) /\ Unwrapped(v) = v /\ ~IsNullValue(v) /\ Meaning(v) = Means("string", s)
<1>1. v.type = "bytes" /\ v.is = s
  OBVIOUS
<1>2. DOMAIN RustInteger = SizedTypes
  BY RustIntegers
<1>3. Unwrapped(v) = v /\ ~IsNullValue(v)
  BY <1>1 DEF Unwrapped, IsNullValue
<1>4. Typed(v)
  BY <1>1, <1>3, TypedWhenOther
<1>5. Meaning(v) = Means("string", v.is)
  <2>1. Unwrapped(v).type \in {"bytes", "Bytes"} /\ Unwrapped(v).is = v.is
    BY <1>1, <1>3
  <2>2. Meaning(v) = Means("string", Unwrapped(v).is)
    BY <2>1, MeaningIs, ZenonT(90)
  <2> QED
    BY <2>1, <2>2
<1> QED
  BY <1>1, <1>3, <1>4, <1>5

(* Integers.                                                               *)
LEMMA IntegerEchoes ==
  ASSUME NEW c \in Column, IsInteger(c), NEW n \in RangeOf(Width(c), Signed(c)), NEW type \in RustTypes
  PROVE  Echoes(type, c, ParseFrom(Integer(n, c), c), Means("number", <<n>>))
<1> DEFINE inner == ParseFrom(Integer(n, c), c)
           m == Means("number", <<n>>)
<1>1. c.unsigned \in BOOLEAN
  BY DEF Column
<1>2. inner.is = n
  BY <1>1, FieldReadsBack
<1>3. inner.kind \in {"UInt", "Int"}
  BY <1>1, IntegerWidths DEF ParseFrom
<1>4. DOMAIN RustInteger = SizedTypes
  BY RustIntegers
<1>5. m.parts[1] = n
  BY DEF Means
<1> HIDE DEF inner, m
<1>6. CASE type \in SizedTypes
  <2> DEFINE ok == inner.kind \in {"UInt", "Int"} /\ inner.is \in RustInteger[type]
  <2>1. TryFrom(type, inner) = Converted(ok, type, n)
    BY <1>2, <1>6, TryFromIs DEF TryInteger
  <2>2. ok <=> n \in RustInteger[type]
    BY <1>2, <1>3
  <2> HIDE DEF ok
  <2>3. ASSUME NEW v \in TryFrom(type, inner)
        PROVE  Typed(v) /\ Unwrapped(v) = v /\ ~IsNullValue(v) /\ Meaning(v) = m
    <3>1. ok /\ v = [type |-> type, is |-> n]
      BY <2>1, ConvertedIs
    <3> QED
      BY <1>6, <2>2, <3>1, NumberConverted DEF m
  <2>4. Convertible(type, m, c) => n \in RustInteger[type]
    BY <1>4, <1>5, <1>6 DEF Convertible
  <2>5. ok => TryFrom(type, inner) # {}
    <3>1. ok => TryFrom(type, inner) = {[type |-> type, is |-> n]}
      BY <2>1, ConvertedIs
    <3> QED
      BY <3>1
  <2> QED
    BY <2>2, <2>3, <2>4, <2>5 DEF Echoes, inner, m
<1>7. CASE type \in TryFromTypes
  <2>1. inner.kind \notin {"Double", "Bytes", "Date", "Datetime", "Time"}
    BY <1>3
  <2>2. TryFrom(type, inner) = {}
    BY <1>7, <2>1, NothingConverted DEF TryFromTypes, SizedTypes
  <2>3. ~Convertible(type, m, c)
    BY SMT, <1>7, IntegerWidths DEF Convertible, TryFromTypes
  <2> QED
    BY <2>2, <2>3 DEF Echoes, inner, m
<1> QED
  BY <1>4, <1>6, <1>7 DEF RustTypes, TryFromTypes

(* A float parameter means the same once it is converted.                  *)
LEMMA FloatEchoes ==
  ASSUME NEW c \in Column, NEW w, NEW n, n \in RangeOf(4, FALSE), FloatFits(c, w, n), NEW type \in RustTypes
  PROVE  Echoes(type, c, ParseFrom(<<Field(w, n)>>, c), Means("number", <<n>>))
<1> DEFINE inner == ParseFrom(<<Field(w, n)>>, c)
           m == Means("number", <<n>>)
<1>1. /\ c.type \in {"FLOAT", "DOUBLE"} /\ n \in RangeOf(w, FALSE)
      /\ (c.type = "FLOAT" => w = 4) /\ (c.type = "DOUBLE" => w = 8)
  BY DEF FloatFits
<1>2. ~IsInteger(c)
  BY <1>1 DEF IsInteger, IntegerWidth
<1>3. Field(w, n).holds = n
  <2>1. w \in ByteWidths /\ Half[w] \in Nat \ {0}
    BY <1>1, HalfIsPositive DEF ByteWidths
  <2>2. n \in Nat /\ n < 2 * Half[w]
    BY <1>1, <2>1 DEF RangeOf
  <2> QED
    BY <2>1, <2>2, FieldHolds
<1>4. inner = [kind |-> "Double", is |-> n]
  BY <1>1, <1>2, <1>3 DEF ParseFrom
<1>5. DOMAIN RustInteger = SizedTypes
  BY RustIntegers
<1>6. inner.kind = "Double" /\ inner.is = n
  BY <1>4
<1> HIDE DEF inner, m
<1>7. CASE type \in {"f32", "f64"}
  <2>1. TryFrom(type, inner) = {[type |-> type, is |-> n]}
    BY <1>6, <1>7, TryFromIs DEF TryFloat, Converted
  <2>2. ASSUME NEW v \in TryFrom(type, inner)
        PROVE  Typed(v) /\ Unwrapped(v) = v /\ ~IsNullValue(v) /\ Meaning(v) = m
    <3>1. v = [type |-> type, is |-> n] /\ type \notin SizedTypes
      BY <1>7, <2>1 DEF SizedTypes
    <3> QED
      BY <1>7, <3>1, NumberConverted DEF m
  <2> QED
    BY <2>1, <2>2 DEF Echoes, inner, m
<1>8. CASE type \in SizedTypes \cup {"bytes", "str", "NaiveDate", "NaiveDateTime", "Duration"}
  <2>1. TryFrom(type, inner) = {}
    BY <1>6, <1>8, NothingConverted DEF SizedTypes
  <2>2. ~Convertible(type, m, c)
    BY SMT, <1>1, <1>2, <1>5, <1>8 DEF Convertible
  <2> QED
    BY <2>1, <2>2 DEF Echoes, inner, m
<1> QED
  BY <1>5, <1>7, <1>8 DEF RustTypes

(* So does a string,                                                       *)
LEMMA StringEchoes ==
  ASSUME NEW c \in Column, c.type = "STRING", NEW s \in Seq(Nat), NEW type \in RustTypes
  PROVE  Echoes(type, c, ParseFrom(LenencStr(s), c), Means("string", s))
<1> DEFINE inner == ParseFrom(LenencStr(s), c)
           m == Means("string", s)
<1>1. ~IsInteger(c)
  BY DEF IsInteger, IntegerWidth
<1>2. inner = [kind |-> "Bytes", is |-> s]
  BY <1>1 DEF ParseFrom, LenencStr, Text
<1>3. DOMAIN RustInteger = SizedTypes
  BY RustIntegers
<1>4. inner.kind = "Bytes" /\ inner.is = s
  BY <1>2
<1>5. m.parts = s
  BY DEF Means
<1> HIDE DEF inner, m
<1>6. CASE type \in {"bytes", "str"}
  <2>1. TryFrom(type, inner) \subseteq {[type |-> "bytes", is |-> s]}
    BY <1>4, <1>6, TryFromIs DEF TryBytes, TryStr, Converted
  <2>2. ASSUME NEW v \in TryFrom(type, inner)
        PROVE  Typed(v) /\ Unwrapped(v) = v /\ ~IsNullValue(v) /\ Meaning(v) = m
    <3>1. v = [type |-> "bytes", is |-> s]
      BY <2>1
    <3> QED
      BY <3>1, BytesConverted DEF m
  <2>3. Convertible(type, m, c) => TryFrom(type, inner) = {[type |-> "bytes", is |-> s]}
    BY SMT, <1>4, <1>5, <1>6, TryFromIs DEF TryBytes, TryStr, Converted, Convertible
  <2> QED
    BY <2>2, <2>3 DEF Echoes, inner, m
<1>7. CASE type \in SizedTypes \cup {"f32", "f64", "NaiveDate", "NaiveDateTime", "Duration"}
  <2>1. TryFrom(type, inner) = {}
    BY <1>4, <1>7, NothingConverted DEF SizedTypes
  <2>2. ~Convertible(type, m, c)
    BY SMT, <1>1, <1>3, <1>7 DEF Convertible
  <2> QED
    BY <2>1, <2>2 DEF Echoes, inner, m
<1> QED
  BY <1>3, <1>6, <1>7 DEF RustTypes

(* A temporal parameter, as parse_from keeps it.                           *)
Parsed(inner, kind, parts, k) ==
  /\ inner.kind = kind /\ inner.is \in Seq(Nat) /\ Len(inner.is) = k
  /\ \A i \in 1 .. k : inner.is[i] = parts[i]

(* Fields of bits that hold a length byte and n parts.                     *)
Laid(fields, widths, ns, parts, n) ==
  /\ Holding(fields, widths, ns) /\ ns \in Seq(Nat) /\ Len(ns) = 1 + n
  /\ \A i \in 1 .. n : ns[i + 1] = parts[i]

(* parse_from keeps the parts that are behind the length byte of a date or *)
(* time.                                                                   *)
LEMMA TemporalParsed ==
  ASSUME NEW c, c.type \in {"DATE", "DATETIME", "TIME"}, NEW fields, NEW widths, NEW ns,
         NEW parts, NEW n \in Nat, Laid(fields, widths, ns, parts, n)
  PROVE  Parsed(ParseFrom(fields, c), TemporalKind[c.type], parts, n)
<1> DEFINE is == [i \in 1 .. Len(fields) - 1 |-> fields[i + 1].holds]
<1>1. ~IsInteger(c)
  BY DEF IsInteger, IntegerWidth
<1>2. ParseFrom(fields, c) = [kind |-> TemporalKind[c.type], is |-> is]
  BY <1>1 DEF ParseFrom
<1>. ns \in Seq(Nat) /\ Holding(fields, widths, ns)
  BY DEF Laid
<1>3. n \in Nat /\ Len(fields) - 1 = n
  BY DEF Holding, Laid
<1>4. \A i \in 1 .. n : i + 1 \in 1 .. Len(ns) /\ fields[i + 1].holds = ns[i + 1] /\ ns[i + 1] \in Nat
  BY <1>3 DEF Holding
<1>5. is = [i \in 1 .. n |-> ns[i + 1]]
  BY <1>3, <1>4
<1>6. is = [i \in 1 .. n |-> is[i]] /\ \A i \in 1 .. n : is[i] = ns[i + 1] /\ is[i] \in Nat
  BY <1>4, <1>5
<1> HIDE DEF is
<1>7. is \in Seq(Nat) /\ Len(is) = n
  BY <1>6, FunctionIsSequence, Zenon
<1>8. \A i \in 1 .. n : is[i] = parts[i]
  BY <1>6 DEF Laid
<1>9. ParseFrom(fields, c).kind = TemporalKind[c.type] /\ ParseFrom(fields, c).is = is
  BY <1>2
<1> QED
  BY <1>7, <1>8, <1>9, Zenon DEF Parsed

(* What a converted value needs to be.                                     *)
Echoed(v, meaning) ==
  Typed(v) /\ Unwrapped(v) = v /\ ~IsNullValue(v) /\ Meaning(v) = meaning

(* What a converted NaiveDateTime or Duration means.                       *)
LEMMA MeaningOf ==
  ASSUME NEW v, Unwrapped(v) = v
  PROVE  /\ v.type = "NaiveDateTime" => Meaning(v) = Means("moment", MomentParts(v.is, v.is.ns \div 1000))
         /\ v.type = "Duration" => Meaning(v) = DurationMeaning(v.is)
<1> DEFINE x == Unwrapped(v)
           m == Meaning(v)
<1>1. /\ x.type \in {"None", "NULL"} => m = Means("null", <<>>)
      /\ x.type \in {"bytes", "Bytes"} => m = Means("string", x.is)
      /\ x.type = "NaiveDate" => m = Means("moment", Padded(MomentParts(x.is, 0)))
      /\ x.type = "NaiveDateTime" => m = Means("moment", MomentParts(x.is, x.is.ns \div 1000))
      /\ x.type = "Date" => m = Means("moment", MomentParts(x.is, x.is.us))
      /\ x.type = "Duration" => m = DurationMeaning(x.is)
      /\ x.type = "Time" => m = TimeMeaning(x.is)
      /\ x.type \notin {"None", "NULL", "bytes", "Bytes", "NaiveDate", "NaiveDateTime", "Duration",
                        "Date", "Time"}
           => m = Means("number", <<x.is>>)
  BY MeaningIs
<1>2. x = v
  OBVIOUS
<1> HIDE DEF x, m
<1>3. /\ v.type = "NaiveDateTime" => m = Means("moment", MomentParts(v.is, v.is.ns \div 1000))
      /\ v.type = "Duration" => m = DurationMeaning(v.is)
  BY SMT, <1>1, <1>2
<1> QED
  BY <1>3 DEF m

(* The seven parts of a moment.                                            *)
LEMMA ShownParts ==
  ASSUME NEW parts, NEW k, Shown(parts, k)
  PROVE  /\ parts = <<parts[1], parts[2], parts[3], parts[4], parts[5], parts[6], parts[7]>>
         /\ \A i \in 1 .. 7 : parts[i] \in Nat
<1>1. parts \in Seq(Nat) /\ Len(parts) = 7
  BY DEF Shown
<1>2. \A i \in 1 .. 7 : parts[i] \in Nat
  BY <1>1, SeqElements
<1>3. parts = <<parts[1], parts[2], parts[3], parts[4], parts[5], parts[6], parts[7]>>
  BY <1>1
<1> QED
  BY <1>2, <1>3

(* A date converted to a NaiveDate means the same; a calendar date is      *)
(* converted.                                                              *)
LEMMA NaiveDateEchoed ==
  ASSUME NEW inner, NEW parts, NEW k, Parsed(inner, "Date", parts, k), Shown(parts, k)
  PROVE  /\ \A v \in TryNaiveDate(inner) : Echoed(v, Means("moment", parts))
         /\ k = 3 /\ Calendar(parts) => TryNaiveDate(inner) # {}
<1> DEFINE is == [y |-> inner.is[1], mo |-> inner.is[2], d |-> inner.is[3], h |-> 0, mi |-> 0, s |-> 0]
           ok == inner.kind = "Date" /\ Len(inner.is) = 3 /\ Calendar(inner.is)
           v == [type |-> "NaiveDate", is |-> is]
<1>1. TryNaiveDate(inner) = IF ok THEN {v} ELSE {}
  BY DEF TryNaiveDate, Converted
<1>2. ok <=> k = 3 /\ Calendar(parts)
  <2>1. inner.kind = "Date" /\ Len(inner.is) = k
    BY DEF Parsed
  <2>2. CASE k = 3
    <3>1. inner.is[2] = parts[2] /\ inner.is[3] = parts[3]
      BY <2>2 DEF Parsed
    <3> QED
      BY <2>1, <2>2, <3>1 DEF Calendar
  <2> QED
    BY <2>1, <2>2
<1>3. ASSUME ok PROVE Echoed(v, Means("moment", parts))
  <2>1. k = 3 /\ Calendar(parts)
    BY <1>2, <1>3
  <2>2. \A i \in 1 .. 7 : parts[i] \in Nat
    BY ShownParts
  <2>3. inner.is[1] = parts[1] /\ inner.is[2] = parts[2] /\ inner.is[3] = parts[3]
    BY <2>1 DEF Parsed
  <2>4. v.type = "NaiveDate" /\ v.is = is
    OBVIOUS
  <2>5. /\ is.y = parts[1] /\ is.mo = parts[2] /\ is.d = parts[3] /\ is.h = 0 /\ is.mi = 0 /\ is.s = 0
    BY <2>3
  <2>6. parts[4] = 0 /\ parts[5] = 0 /\ parts[6] = 0 /\ parts[7] = 0
    BY <2>1 DEF Shown
  <2> HIDE DEF v, is
  <2>7. ChronoTyped(is)
    BY <2>1, <2>2, <2>5 DEF ChronoTyped, Calendar
  <2>8. Unwrapped(v) = v /\ ~IsNullValue(v)
    BY <2>4 DEF Unwrapped, IsNullValue
  <2>9. Typed(v)
    BY <2>4, <2>5, <2>7, <2>8, TypedWhenOther
  <2>10. MomentParts(is, 0) = parts
    BY <2>5, <2>6, ShownParts DEF MomentParts
  <2>11. Padded(MomentParts(is, 0)) = parts
    BY <2>10, ShownWhole, ShownByMore
  <2>12. Unwrapped(v).type = "NaiveDate" /\ Unwrapped(v).is = is
    BY <2>4, <2>8
  <2>13. Meaning(v) = Means("moment", Padded(MomentParts(is, 0)))
    BY <2>12, MeaningIs, ZenonT(90)
  <2> QED
    BY <2>8, <2>9, <2>11, <2>13 DEF Echoed
<1> HIDE DEF ok, v
<1> QED
  BY <1>1, <1>2, <1>3

(* A datetime converted to a NaiveDateTime means the same; one of the      *)
(* calendar is converted.                                                  *)
LEMMA NaiveDateTimeEchoed ==
  ASSUME NEW inner, NEW parts, NEW k, Parsed(inner, "Datetime", parts, k), Shown(parts, k)
  PROVE  /\ \A v \in TryNaiveDateTime(inner) : Echoed(v, Means("moment", parts))
         /\ /\ k \in {3, 6, 7} /\ Calendar(parts)
            /\ parts[4] <= 23 /\ parts[5] <= 59 /\ parts[6] <= 59
            => TryNaiveDateTime(inner) # {}
<1> DEFINE n == Len(inner.is)
           p == [i \in 1 .. 7 |-> IF i <= n THEN inner.is[i] ELSE 0]
           is == [y |-> p[1], mo |-> p[2], d |-> p[3], h |-> p[4], mi |-> p[5], s |-> p[6],
                  ns |-> p[7] * 1000]
           ok == /\ inner.kind = "Datetime" /\ n \in {3, 6, 7} /\ Calendar(p)
                 /\ p[4] <= 23 /\ p[5] <= 59 /\ p[6] <= 59 /\ p[7] < 1000000
           v == [type |-> "NaiveDateTime", is |-> is]
<1>1. TryNaiveDateTime(inner) = IF ok THEN {v} ELSE {}
  BY SMT DEF TryNaiveDateTime, Converted
<1>0. /\ n = k /\ k \in 0 .. 7 /\ \A i \in 1 .. k : inner.is[i] = parts[i]
      /\ \A i \in 1 .. 7 : i > k => parts[i] = 0
  BY DEF Parsed, Shown
<1>2. \A i \in 1 .. 7 : parts[i] \in Nat /\ p[i] = parts[i]
  <2>1. \A i \in 1 .. 7 : parts[i] \in Nat
    BY ShownParts
  <2>2. \A i \in 1 .. 7 : p[i] = IF i <= n THEN inner.is[i] ELSE 0
    OBVIOUS
  <2> HIDE DEF p, n
  <2> QED
    BY <1>0, <2>1, <2>2
<1>3. /\ p[1] = parts[1] /\ p[2] = parts[2] /\ p[3] = parts[3] /\ p[4] = parts[4] /\ p[5] = parts[5]
      /\ p[6] = parts[6] /\ p[7] = parts[7]
  BY SMT, <1>2
<1>4. n = k /\ inner.kind = "Datetime"
  BY SMT DEF Parsed
<1>5. parts[7] < 1000000
  BY SMTT(60), <1>2 DEF Shown
<1> HIDE DEF p, n
<1>6. ok <=> /\ k \in {3, 6, 7} /\ Calendar(parts)
             /\ parts[4] <= 23 /\ parts[5] <= 59 /\ parts[6] <= 59
  BY SMT, <1>3, <1>4, <1>5 DEF Calendar
<1>7. ASSUME ok PROVE Echoed(v, Means("moment", parts))
  <2>1. Calendar(parts) /\ parts[4] <= 23 /\ parts[5] <= 59 /\ parts[6] <= 59
    BY SMT, <1>6, <1>7
  <2>2. v.type = "NaiveDateTime" /\ v.is = is
    BY SMT
  <2>3. /\ is.y = parts[1] /\ is.mo = parts[2] /\ is.d = parts[3] /\ is.h = parts[4] /\ is.mi = parts[5]
        /\ is.s = parts[6] /\ is.ns = parts[7] * 1000
    BY SMT, <1>3
  <2> HIDE DEF v, is, ok
  <2>4. ChronoTyped(is) /\ is.ns \in Nat
    BY SMT, <1>2, <2>1, <2>3 DEF ChronoTyped, Calendar
  <2>5. is.ns \div 1000 = parts[7]
    BY SMT, <1>2, <2>3
  <2>6. Unwrapped(v) = v /\ ~IsNullValue(v)
    BY SMT, <2>2 DEF Unwrapped, IsNullValue
  <2>7. Typed(v)
    BY SMT, <2>2, <2>4, <2>6, TypedWhenOther
  <2>8. MomentParts(is, is.ns \div 1000) = parts
    BY SMT, <2>3, <2>5, ShownParts DEF MomentParts
  <2>10. Meaning(v) = Means("moment", MomentParts(is, is.ns \div 1000))
    BY SMT, <2>2, <2>6, MeaningOf
  <2> QED
    BY SMT, <2>6, <2>7, <2>8, <2>10 DEF Echoed
<1> HIDE DEF ok, v
<1> QED
  BY SMT, <1>1, <1>6, <1>7

TimeOf(q) == Time(q[1] # 0, q[2] * 86400 + q[3] * 3600 + q[4] * 60 + q[5], q[6])

(* A time converted to a Duration means the same; one that is not negative *)
(* is converted.                                                           *)
LEMMA DurationEchoed ==
  ASSUME NEW inner, NEW q, NEW k \in 0 .. 6, Parsed(inner, "Time", q, k), q[1] \in {0, 1},
         \A i \in 1 .. 7 : q[i] \in Nat /\ (i > k => q[i] = 0), Micros(q[6])
  PROVE  /\ \A v \in TryDuration(inner) : Echoed(v, TimeOf(q))
         /\ q[1] = 0 => TryDuration(inner) # {}
<1> DEFINE p == [i \in 1 .. 6 |-> IF i <= Len(inner.is) THEN inner.is[i] ELSE 0]
           secs == q[2] * 86400 + q[3] * 3600 + q[4] * 60 + q[5]
           is == [secs |-> p[2] * 86400 + p[3] * 3600 + p[4] * 60 + p[5], ns |-> p[6] * 1000]
           ok == inner.kind = "Time" /\ p[1] = 0 /\ p[6] < 1000000
           v == [type |-> "Duration", is |-> is]
<1>1. TryDuration(inner) = IF ok THEN {v} ELSE {}
  BY SMT DEF TryDuration, Converted
<1>2. \A i \in 1 .. 6 : q[i] \in Nat /\ p[i] = q[i]
  BY SMT DEF Parsed
<1>3. /\ p[1] = q[1] /\ p[2] = q[2] /\ p[3] = q[3] /\ p[4] = q[4] /\ p[5] = q[5] /\ p[6] = q[6]
  BY SMT, <1>2
<1>4. inner.kind = "Time"
  BY SMT DEF Parsed
<1> HIDE DEF p
<1>5. ok <=> q[1] = 0
  BY SMT, <1>3, <1>4 DEF Micros
<1>6. ASSUME ok PROVE Echoed(v, Time(q[1] # 0, secs, q[6]))
  <2>1. q[1] = 0
    BY SMT, <1>5, <1>6
  <2>2. v.type = "Duration" /\ v.is = is
    BY SMT
  <2>3. is.secs = secs /\ is.ns = q[6] * 1000
    BY SMT, <1>3
  <2>4. secs \in Nat
    BY SMT, <1>2
  <2> HIDE DEF v, is, ok, secs
  <2>5. is.ns \div 1000 = q[6] /\ DurationTyped(is)
    BY SMT, <1>2, <2>3, <2>4 DEF DurationTyped, Micros
  <2>6. Unwrapped(v) = v /\ ~IsNullValue(v)
    BY SMT, <2>2 DEF Unwrapped, IsNullValue
  <2>7. Typed(v)
    BY SMTT(60), <2>2, <2>5, <2>6, TypedWhenOther
  <2>9. Meaning(v) = DurationMeaning(is)
    BY SMT, <2>2, <2>6, MeaningOf
  <2>10. DurationMeaning(is) = Time(q[1] # 0, secs, q[6])
    BY SMT, <2>1, <2>3, <2>5 DEF DurationMeaning, Time
  <2> QED
    BY SMT, <2>6, <2>7, <2>9, <2>10 DEF Echoed
<1> HIDE DEF ok, v, secs
<1>7. /\ \A w \in TryDuration(inner) : Echoed(w, Time(q[1] # 0, secs, q[6]))
      /\ q[1] = 0 => TryDuration(inner) # {}
  BY SMT, <1>1, <1>5, <1>6
<1> QED
  BY SMT, <1>7 DEF secs, TimeOf

(* A date or datetime parameter means the same once it is converted,       *)
LEMMA MomentEchoes ==
  ASSUME NEW c, c.type \in {"DATE", "DATETIME"}, NEW t, MomentTyped(t), ValidDate(t),
         c.type = "DATE" => ~TimeOfDay(t) /\ t.us = 0, NEW type \in RustTypes
  PROVE  Echoes(type, c, ParseFrom(MomentFields(DateLength(t), t, t.us), c),
                Means("moment", MomentParts(t, t.us)))
<1> DEFINE len == DateLength(t)
           parts == MomentParts(t, t.us)
           k == LengthParts(len)
           ns == <<len>> \o SubSeq(parts, 1, k)
           fields == MomentFields(len, t, t.us)
           inner == ParseFrom(fields, c)
           m == Means("moment", parts)
<1>1. len \in {0, 4, 7, 11} /\ Shown(parts, k)
  BY DateShown
<1>2. Holding(fields, MomentWidths, ns)
  BY <1>1, MomentDecodes
<1>3. k \in {0, 3, 6, 7}
  <2> HIDE DEF len
  <2> QED
    BY SMT, <1>1 DEF LengthParts
<1>4. parts \in Seq(Nat) /\ Len(parts) = 7
  BY SMT, <1>1 DEF Shown
<1>5. m.parts = parts
  BY DEF Means
<1>6. parts[2] = t.mo /\ parts[4] = t.h /\ parts[5] = t.mi /\ parts[6] = t.s
  BY DEF MomentParts
<1>7. k = 0 => t.mo = 0
  BY SMT, <1>1, <1>6 DEF Shown
<1>8. c.type = "DATE" => k \in {0, 3}
  <2>1. ASSUME c.type = "DATE" PROVE t.us = 0 /\ ~TimeOfDay(t)
    BY <2>1
  <2> QED
    BY SMT, <2>1 DEF DateLength, LengthParts
<1> HIDE DEF parts, k, len, fields
<1>9. ns \in Seq(Nat) /\ Len(ns) = 1 + k /\ \A i \in 1 .. k : ns[i + 1] = parts[i]
  <2>1. k \in 0 .. Len(parts) /\ len \in Nat
    BY <1>1, <1>3, <1>4
  <2> QED
    BY ZenonT(90), <1>4, <2>1, Counted
<1> HIDE DEF ns
<1>10. Parsed(inner, TemporalKind[c.type], parts, k)
  <2>1. k \in Nat /\ c.type \in {"DATE", "DATETIME", "TIME"}
    BY <1>3
  <2>2. Laid(fields, MomentWidths, ns, parts, k)
    BY <1>2, <1>9, Zenon DEF Laid
  <2> QED
    BY <2>1, <2>2, TemporalParsed, SMT
<1>11. TemporalKind[c.type] = IF c.type = "DATE" THEN "Date" ELSE "Datetime"
  BY DEF TemporalKind
<1>12. ~IsInteger(c) /\ DOMAIN RustInteger = SizedTypes
  BY RustIntegers DEF IsInteger, IntegerWidth
<1> HIDE DEF inner, m
<1>13. CASE type = "NaiveDate" /\ c.type = "DATE"
  <2>1. TryFrom(type, inner) = TryNaiveDate(inner)
    BY <1>13, TryFromIs
  <2>2. Parsed(inner, "Date", parts, k)
    BY <1>10, <1>11, <1>13
  <2>3. \A v \in TryFrom(type, inner) : Echoed(v, m)
    BY <1>1, <2>1, <2>2, NaiveDateEchoed, Zenon DEF m, parts
  <2>4. Convertible(type, m, c) => k = 3 /\ Calendar(parts)
    <3>1. Convertible(type, m, c) => Calendar(parts)
      BY <1>5, <1>13 DEF Convertible
    <3> QED
      BY <1>3, <1>6, <1>7, <1>8, <1>13, <3>1 DEF Calendar
  <2>5. Convertible(type, m, c) => TryFrom(type, inner) # {}
    BY <1>1, <2>1, <2>2, <2>4, NaiveDateEchoed, Zenon DEF parts
  <2> QED
    BY <2>3, <2>5 DEF Echoes, Echoed, inner, m, parts, fields, len
<1>14. CASE type = "NaiveDateTime" /\ c.type = "DATETIME"
  <2>1. TryFrom(type, inner) = TryNaiveDateTime(inner)
    BY <1>14, TryFromIs
  <2>2. Parsed(inner, "Datetime", parts, k)
    BY <1>10, <1>11, <1>14
  <2>3. \A v \in TryFrom(type, inner) : Echoed(v, m)
    BY <1>1, <2>1, <2>2, NaiveDateTimeEchoed, Zenon DEF m, parts
  <2>4. parts[4] <= 23 /\ parts[5] <= 59 /\ parts[6] <= 59
    BY <1>6, SMT DEF ValidDate
  <2>5. Convertible(type, m, c) => k \in {3, 6, 7} /\ Calendar(parts)
    <3>1. Convertible(type, m, c) => Calendar(parts)
      BY <1>5, <1>14 DEF Convertible
    <3> QED
      BY <1>3, <1>6, <1>7, <3>1 DEF Calendar
  <2>6. Convertible(type, m, c) => TryFrom(type, inner) # {}
    BY <1>1, <2>1, <2>2, <2>4, <2>5, NaiveDateTimeEchoed, Zenon DEF parts
  <2> QED
    BY <2>3, <2>6 DEF Echoes, Echoed, inner, m, parts, fields, len
<1>15. CASE ~(type = "NaiveDate" /\ c.type = "DATE") /\ ~(type = "NaiveDateTime" /\ c.type = "DATETIME")
  <2>1. inner.kind = IF c.type = "DATE" THEN "Date" ELSE "Datetime"
    BY <1>10, <1>11 DEF Parsed
  <2>2. TryFrom(type, inner) = {}
    BY <1>15, <2>1, NothingConverted
  <2>3. ~Convertible(type, m, c)
    <3>1. CASE type = "NaiveDate"
      BY <1>15, <3>1 DEF Convertible
    <3>2. CASE type = "NaiveDateTime"
      BY <1>15, <3>2 DEF Convertible
    <3>3. CASE type \in SizedTypes \cup {"f32", "f64", "bytes", "str", "Duration"}
      BY SMT, <1>12, <3>3 DEF Convertible
    <3> QED
      BY <1>12, <3>1, <3>2, <3>3 DEF RustTypes
  <2> QED
    BY <2>2, <2>3 DEF Echoes, inner, m, parts, fields, len
<1> QED
  BY <1>13, <1>14, <1>15

(* and so does a time.                                                     *)
LEMMA TimeEchoes ==
  ASSUME NEW c, c.type = "TIME", NEW dur, Timed(dur), NEW neg \in {0, 1}, NEW type \in RustTypes
  PROVE  Echoes(type, c, ParseFrom(EncodeTime(dur, neg, c).fields, c), Time(neg = 1, dur.secs, dur.us))
<1> DEFINE len == TimeLength(dur)
           parts == TimeParts(dur, neg)
           k == TimeCount(len)
           ns == <<len>> \o SubSeq(parts, 1, k)
           q == AfterLength(ns)
           fields == EncodeTime(dur, neg, c).fields
           inner == ParseFrom(fields, c)
           m == Time(neg = 1, dur.secs, dur.us)
<1>1. Holding(fields, TimeWidths, ns) /\ ns \in Seq(Nat) /\ Len(ns) = 1 + k
  BY TimeDecodes, Zenon
<1>2. m = TemporalMeaning(c, q)
  BY TimeDecodes, ZenonT(90)
<1>3. MakesUp(parts, dur, neg)
  BY TimePartsFit
<1>4. k \in {0, 5, 6} /\ (k = 0 <=> IsZero(dur)) /\ len \in Nat
  BY SMT DEF TimeCount, TimeLength, IsZero
<1>5. \A i \in 1 .. k : ns[i + 1] = parts[i]
  <2>1. parts \in Seq(Nat) /\ Len(parts) = 6
    BY SMT, <1>3 DEF MakesUp
  <2> HIDE DEF parts, k, len
  <2>2. k \in 0 .. Len(parts)
    BY <1>4, <2>1
  <2> QED
    BY <1>4, <2>1, <2>2, Counted
<1> HIDE DEF ns, k, len, fields
<1>6. \A i \in 1 .. 7 : q[i] = IF i <= k THEN ns[i + 1] ELSE 0
  BY <1>1, <1>4 DEF AfterLength
<1> HIDE DEF q
<1>7. \A i \in 1 .. 7 : q[i] \in Nat /\ (i > k => q[i] = 0)
  <2>1. \A i \in 1 .. 1 + k : ns[i] \in Nat
    BY <1>1, SeqElements
  <2> QED
    BY <1>4, <1>6, <2>1
<1>8. \A i \in 1 .. k : ns[i + 1] = q[i]
  BY SMTT(60), <1>1, <1>4, <1>6
<1>9. Parsed(inner, "Time", q, k)
  <2>1. k \in Nat
    BY <1>4
  <2>2. TemporalKind[c.type] = "Time" /\ c.type \in {"DATE", "DATETIME", "TIME"}
    BY DEF TemporalKind
  <2>3. Laid(fields, TimeWidths, ns, q, k)
    BY <1>1, <1>8, Zenon DEF Laid
  <2>4. Parsed(inner, TemporalKind[c.type], q, k)
    BY <2>1, <2>2, <2>3, TemporalParsed, SMT
  <2> QED
    BY <2>2, <2>4
<1>10. q[1] = (IF k = 0 THEN 0 ELSE neg) /\ Micros(q[6])
  <2>1. k # 0 => q[1] = parts[1]
    BY <1>4, <1>5, <1>6
  <2>2. q[6] = 0 \/ q[6] = parts[6]
    BY <1>4, <1>5, <1>6
  <2>3. parts[1] = neg /\ parts[6] = dur.us
    BY SMT, <1>3 DEF MakesUp
  <2>4. k = 0 => q[1] = 0
    BY <1>7
  <2>5. Micros(dur.us) /\ Micros(0)
    BY SMT DEF Timed, Micros
  <2> HIDE DEF parts
  <2> QED
    BY <2>1, <2>2, <2>3, <2>4, <2>5
<1>11. m = TimeOf(q)
  BY SMT, <1>2 DEF TemporalMeaning, TimeOf
<1>12. m.parts[1] = 1 => q[1] = 0
  <2>1. m.parts[1] = IF neg = 1 /\ ~IsZero(dur) THEN -1 ELSE 1
    BY SMT DEF Time, Means, IsZero
  <2> QED
    BY SMT, <1>4, <1>10, <2>1
<1>13. ~IsInteger(c) /\ DOMAIN RustInteger = SizedTypes
  BY RustIntegers DEF IsInteger, IntegerWidth
<1> HIDE DEF inner, m
<1>14. CASE type = "Duration"
  <2>1. TryFrom(type, inner) = TryDuration(inner)
    BY <1>14, TryFromIs
  <2>2. k \in 0 .. 6 /\ q[1] \in {0, 1}
    BY <1>4, <1>10
  <2>3. /\ \A v \in TryDuration(inner) : Echoed(v, m)
        /\ q[1] = 0 => TryDuration(inner) # {}
    BY <1>7, <1>9, <1>10, <1>11, <2>2, DurationEchoed, Zenon
  <2>4. Convertible(type, m, c) => q[1] = 0
    BY <1>12, <1>14 DEF Convertible
  <2> QED
    BY <2>1, <2>3, <2>4, Zenon DEF Echoes, Echoed, inner, m, fields
<1>15. CASE type # "Duration"
  <2>1. inner.kind = "Time"
    BY <1>9 DEF Parsed
  <2>2. TryFrom(type, inner) = {}
    BY <1>15, <2>1, NothingConverted
  <2>3. ~Convertible(type, m, c)
    <3>1. type \in SizedTypes \cup {"f32", "f64", "bytes", "str", "NaiveDate", "NaiveDateTime"}
      BY <1>13, <1>15 DEF RustTypes
    <3> QED
      BY SMT, <1>13, <3>1 DEF Convertible
  <2> QED
    BY <2>2, <2>3, Zenon DEF Echoes, inner, m, fields
<1> QED
  BY <1>14, <1>15

ColumnTypes == DOMAIN IntegerWidth \cup {"FLOAT", "DOUBLE", "STRING", "DATE", "DATETIME", "TIME"}

(* The types of the columns.                                               *)
LEMMA ColumnIs ==
  ASSUME NEW c \in Column
  PROVE  c.type \in ColumnTypes /\ c.unsigned \in BOOLEAN /\ c.notnull \in BOOLEAN
BY DEF Column, ColumnTypes

(* How a client writes a parameter of each type.                           *)
LEMMA ParamFieldsOf ==
  ASSUME NEW c \in Column, NEW p \in ParamFields(c)
  PROVE  /\ IsInteger(c) => \E n \in Numbers \cap RangeOf(Width(c), Signed(c)) : p = Integer(n, c)
         /\ c.type = "FLOAT" => \E n \in Numbers \cap RangeOf(4, FALSE) : p = <<Field(4, n)>>
         /\ c.type = "DOUBLE" => \E n \in Numbers \cap RangeOf(4, FALSE) : p = <<Field(8, n)>>
         /\ c.type = "STRING" => \E s \in Strings : p = LenencStr(s)
         /\ c.type \in {"DATE", "DATETIME"} =>
              \E t \in Moments : /\ c.type = "DATE" => ~TimeOfDay(t) /\ t.us = 0
                                 /\ p = MomentFields(DateLength(t), t, t.us)
         /\ c.type = "TIME" => \E t \in Times : p = EncodeTime(OfTime(t), t.neg, c).fields
<1>1. IsInteger(c) => c.type \notin {"FLOAT", "DOUBLE", "STRING", "DATE", "DATETIME", "TIME"}
  BY IntegerWidths
<1> DEFINE integers == {Integer(n, c) : n \in Numbers \cap RangeOf(Width(c), Signed(c))}
           floats == {<<Field(4, n)>> : n \in Numbers \cap RangeOf(4, FALSE)}
           doubles == {<<Field(8, n)>> : n \in Numbers \cap RangeOf(4, FALSE)}
           strings == {LenencStr(s) : s \in Strings}
           moments == {MomentFields(DateLength(t), t, t.us) :
                         t \in {t \in Moments : c.type = "DATE" => ~TimeOfDay(t) /\ t.us = 0}}
           times == UNION {{EncodeTime(OfTime(t), t.neg, c).fields} : t \in Times}
<1> HIDE DEF integers, floats, doubles, strings, moments, times
<1>2. ParamFields(c) = CASE IsInteger(c) -> integers
                         [] c.type = "FLOAT" -> floats
                         [] c.type = "DOUBLE" -> doubles
                         [] c.type = "STRING" -> strings
                         [] c.type \in {"DATE", "DATETIME"} -> moments
                         [] c.type = "TIME" -> times
  BY Zenon DEF ParamFields, integers, floats, doubles, strings, moments, times
<1>3. /\ IsInteger(c) => p \in integers
      /\ c.type = "FLOAT" => p \in floats
      /\ c.type = "DOUBLE" => p \in doubles
      /\ c.type = "STRING" => p \in strings
      /\ c.type \in {"DATE", "DATETIME"} => p \in moments
      /\ c.type = "TIME" => p \in times
  BY SMT, <1>1, <1>2
<1>4. IsInteger(c) => \E n \in Numbers \cap RangeOf(Width(c), Signed(c)) : p = Integer(n, c)
  BY <1>3, Zenon DEF integers
<1>5. c.type = "FLOAT" => \E n \in Numbers \cap RangeOf(4, FALSE) : p = <<Field(4, n)>>
  BY <1>3, Zenon DEF floats
<1>6. c.type = "DOUBLE" => \E n \in Numbers \cap RangeOf(4, FALSE) : p = <<Field(8, n)>>
  BY <1>3, Zenon DEF doubles
<1>7. c.type = "STRING" => \E s \in Strings : p = LenencStr(s)
  BY <1>3, Zenon DEF strings
<1>8. c.type \in {"DATE", "DATETIME"} =>
        \E t \in Moments : /\ c.type = "DATE" => ~TimeOfDay(t) /\ t.us = 0
                           /\ p = MomentFields(DateLength(t), t, t.us)
  BY <1>3, Zenon DEF moments
<1>9. c.type = "TIME" => \E t \in Times : p = EncodeTime(OfTime(t), t.neg, c).fields
  BY <1>3, Zenon DEF times
<1> QED
  BY <1>4, <1>5, <1>6, <1>7, <1>8, <1>9

(* What is sent of the backend's constants is of the types' ranges.        *)
LEMMA SentTyped ==
  /\ Numbers \subseteq Int /\ Strings \subseteq Seq(Nat)
  /\ \A t \in Moments : MomentTyped(t) /\ ValidDate(t)
  /\ \A t \in Times : TimeTyped(t) /\ ValidTimeParts(t) /\ ValidDuration(OfTime(t))
BY SMT, RowAssumption

(* What fits a FLOAT fits a DOUBLE.                                        *)
LEMMA WiderFloat ==
  ASSUME NEW n \in RangeOf(4, FALSE)
  PROVE  n \in RangeOf(8, FALSE)
<1>1. 2 * Half[4] <= Half[8] /\ Half[4] \in Nat /\ Half[8] \in Nat
  <2>1. 4 \in ByteWidths /\ 8 \in ByteWidths /\ 4 < 8
    BY DEF ByteWidths
  <2> QED
    BY <2>1, WidthAssumption, HalfIsPositive
<1> QED
  BY <1>1 DEF RangeOf

(* What the client sends as a parameter means the same once parse_from has *)
(* read it and TryFrom (value/decode.rs) has converted it to a Rust type,  *)
(* and the conversion fails only where the type cannot hold it.            *)
THEOREM ParameterEchoes ==
  ASSUME NEW c \in Column, NEW p \in ParamFields(c), NEW type \in RustTypes
  PROVE  Echoes(type, c, ParseFrom(p, c), ReadsValue(c, p).meaning)
<1>1. c.type \in ColumnTypes /\ c.unsigned \in BOOLEAN
  BY ColumnIs
<1> DEFINE Meant(m) == p \in Seq(AField) /\ Decodes(c, p, m) /\ Echoes(type, c, ParseFrom(p, c), m)
<1>2. \E m : Meant(m)
  <2>1. CASE IsInteger(c)
    <3>1. PICK n \in RangeOf(Width(c), Signed(c)) : p = Integer(n, c)
      BY <2>1, ParamFieldsOf
    <3> DEFINE m == Means("number", <<n>>)
    <3>2. Integer(n, c) \in Seq(AField) /\ Decodes(c, Integer(n, c), m)
      BY <1>1, <2>1, <3>1, IntegerDecodes
    <3>3. Echoes(type, c, ParseFrom(Integer(n, c), c), m)
      BY <2>1, <3>1, IntegerEchoes
    <3> HIDE DEF m
    <3>4. Meant(m)
      BY <3>1, <3>2, <3>3
    <3> QED
      BY <3>4
  <2>2. CASE c.type = "FLOAT"
    <3>1. PICK n \in RangeOf(4, FALSE) : p = <<Field(4, n)>>
      BY <2>2, ParamFieldsOf
    <3>2. FloatFits(c, 4, n)
      BY <2>2 DEF FloatFits
    <3>3. Meant(Means("number", <<n>>))
      BY <3>1, <3>2, FloatDecodes, FloatEchoes, Zenon
    <3> QED
      BY <3>3
  <2>3. CASE c.type = "DOUBLE"
    <3>1. PICK n \in RangeOf(4, FALSE) : p = <<Field(8, n)>>
      BY <2>3, ParamFieldsOf
    <3>2. FloatFits(c, 8, n)
      BY <2>3, <3>1, WiderFloat DEF FloatFits
    <3>3. Meant(Means("number", <<n>>))
      BY <3>1, <3>2, FloatDecodes, FloatEchoes, Zenon
    <3> QED
      BY <3>3
  <2>4. CASE c.type = "STRING"
    <3>1. PICK s \in Strings : p = LenencStr(s)
      BY <2>4, ParamFieldsOf
    <3>2. s \in Seq(Nat)
      BY SentTyped
    <3>3. Meant(Means("string", s))
      BY <2>4, <3>1, <3>2, StringDecodes, StringEchoes, Zenon
    <3> QED
      BY <3>3
  <2>5. CASE c.type \in {"DATE", "DATETIME"}
    <3>1. PICK t \in Moments : /\ c.type = "DATE" => ~TimeOfDay(t) /\ t.us = 0
                              /\ p = MomentFields(DateLength(t), t, t.us)
      BY <2>5, ParamFieldsOf, Zenon
    <3>2. MomentTyped(t) /\ ValidDate(t)
      BY SentTyped
    <3>3. DateLength(t) \in {0, 4, 7, 11} /\ Shown(MomentParts(t, t.us), LengthParts(DateLength(t)))
      BY <3>2, DateShown
    <3> DEFINE m == Means("moment", MomentParts(t, t.us))
    <3>4. MomentFields(DateLength(t), t, t.us) \in Seq(AField) /\ Decodes(c, MomentFields(DateLength(t), t, t.us), m)
      BY <2>5, <3>3, MomentDecodes, SMT
    <3>5. Echoes(type, c, ParseFrom(MomentFields(DateLength(t), t, t.us), c), m)
      BY <2>5, <3>1, <3>2, MomentEchoes, SMT
    <3> HIDE DEF m
    <3>6. Meant(m)
      BY <3>1, <3>4, <3>5
    <3> QED
      BY <3>6
  <2>6. CASE c.type = "TIME"
    <3>1. PICK t \in Times : p = EncodeTime(OfTime(t), t.neg, c).fields
      BY <2>6, ParamFieldsOf, Zenon
    <3>2. Timed(OfTime(t)) /\ t.neg \in {0, 1}
      BY SentTyped, OfTimeTimed DEF TimeTyped
    <3>3. Meant(Time(t.neg = 1, OfTime(t).secs, OfTime(t).us))
      BY <2>6, <3>1, <3>2, TimeDecodes, TimeEchoes, Zenon
    <3> QED
      BY <3>3
  <2> QED
    BY <1>1, <2>1, <2>2, <2>3, <2>4, <2>5, <2>6 DEF ColumnTypes, IsInteger
<1> QED
  BY <1>2, DecodesAlone

-----------------------------------------------------------------------------
(* A row, read column by column.                                           *)

(* What the client reads of a binary row, column by column.  Nulls has the *)
(* numbers of the bits that are set in its bitmap.                         *)
NullMeaning == Means("null", <<>>)

Step(cols, nulls, c, before) ==
  IF c + 1 \in nulls THEN [left |-> before.left, row |-> Append(before.row, NullMeaning)]
  ELSE LET value == ReadsValue(cols[c], before.left)
       IN  [left |-> SubSeq(before.left, value.fields + 1, Len(before.left)),
            row |-> Append(before.row, value.meaning)]

Reading(u, cols, nulls, left, n) ==
  /\ u[0] = [left |-> left, row |-> <<>>]
  /\ \A c \in 1 .. n : u[c] = Step(cols, nulls, c, u[c - 1])

(* The first n columns are read as row, and leave the rest.                *)
Reads(cols, nulls, left, n, row, rest) ==
  \E u : Reading(u, cols, nulls, left, n) /\ u[n] = [left |-> rest, row |-> row]

(* Before the first column nothing has been read.                          *)
LEMMA NothingRead ==
  ASSUME NEW cols, NEW nulls, NEW left
  PROVE  Reads(cols, nulls, left, 0, <<>>, left)
<1> DEFINE u == [c \in {0} |-> [left |-> left, row |-> <<>>]]
<1>1. Reading(u, cols, nulls, left, 0) /\ u[0] = [left |-> left, row |-> <<>>]
  BY DEF Reading
<1> HIDE DEF u
<1> QED
  BY <1>1 DEF Reads

(* One more column that is read makes the row longer by its value.         *)
LEMMA OneMoreColumn ==
  ASSUME NEW cols, NEW nulls, NEW left, NEW n \in Nat, NEW row, NEW rest,
         Reads(cols, nulls, left, n, row, rest), NEW more, NEW last,
         Step(cols, nulls, n + 1, [left |-> rest, row |-> row]) = [left |-> last, row |-> more]
  PROVE  Reads(cols, nulls, left, n + 1, more, last)
<1>1. PICK u : Reading(u, cols, nulls, left, n) /\ u[n] = [left |-> rest, row |-> row]
  BY Zenon DEF Reads
<1> DEFINE w == [c \in 0 .. n + 1 |-> IF c = n + 1 THEN [left |-> last, row |-> more] ELSE u[c]]
<1>2. /\ \A c \in 0 .. n : w[c] = u[c]
      /\ w[n + 1] = [left |-> last, row |-> more]
  OBVIOUS
<1> HIDE DEF w
<1>3. w[0] = [left |-> left, row |-> <<>>]
  BY <1>1, <1>2 DEF Reading
<1>4. ASSUME NEW c \in 1 .. n + 1 PROVE w[c] = Step(cols, nulls, c, w[c - 1])
  <2>1. c - 1 \in 0 .. n /\ w[c - 1] = u[c - 1]
    BY <1>2
  <2>2. CASE c = n + 1
    <3>1. c - 1 = n
      BY <2>2
    <3> QED
      BY <1>1, <1>2, <2>1, <2>2, <3>1
  <2>3. CASE c # n + 1
    <3>1. c \in 1 .. n /\ w[c] = u[c]
      BY <1>2, <2>3
    <3>2. u[c] = Step(cols, nulls, c, u[c - 1])
      BY <1>1, <3>1, Zenon DEF Reading
    <3> QED
      BY <2>1, <3>1, <3>2
  <2> QED
    BY <2>2, <2>3
<1>5. Reading(w, cols, nulls, left, n + 1)
  BY <1>3, <1>4, Zenon DEF Reading
<1> QED
  BY <1>2, <1>5, Zenon DEF Reads

(* A column that is NULL takes no fields.                                  *)
LEMMA NullRead ==
  ASSUME NEW cols, NEW nulls, NEW left, NEW n \in Nat, NEW row, NEW rest,
         Reads(cols, nulls, left, n, row, rest), n + 2 \in nulls
  PROVE  Reads(cols, nulls, left, n + 1, Append(row, NullMeaning), rest)
<1> DEFINE more == Append(row, NullMeaning)
<1>1. (n + 1) + 1 = n + 2
  OBVIOUS
<1>2. Step(cols, nulls, n + 1, [left |-> rest, row |-> row]) = [left |-> rest, row |-> more]
  BY <1>1 DEF Step
<1> HIDE DEF more
<1>3. Reads(cols, nulls, left, n + 1, more, rest)
  BY <1>2, OneMoreColumn
<1> QED
  BY <1>3 DEF more

(* Another takes the fields it was written with.                           *)
LEMMA FieldsRead ==
  ASSUME NEW cols, NEW nulls, NEW left, NEW n \in Nat, NEW row,
         NEW e \in Seq(AField), NEW rest \in Seq(AField), NEW whole, whole = e \o rest,
         Reads(cols, nulls, left, n, row, whole), n + 2 \notin nulls, NEW m, Decodes(cols[n + 1], e, m)
  PROVE  Reads(cols, nulls, left, n + 1, Append(row, m), rest)
<1> DEFINE more == Append(row, m)
           before == [left |-> whole, row |-> row]
           value == ReadsValue(cols[n + 1], whole)
<1>1. (n + 1) + 1 = n + 2
  OBVIOUS
<1>2. value = [meaning |-> m, fields |-> Len(e)]
  BY Zenon DEF Decodes
<1>3. SubSeq(whole, Len(e) + 1, Len(whole)) = rest
  BY AfterPrefix
<1>4. value.meaning = m /\ value.fields = Len(e)
  BY <1>2
<1>5. before.left = whole /\ before.row = row
  OBVIOUS
<1> HIDE DEF before
<1>6. Step(cols, nulls, n + 1, before) =
        [left |-> SubSeq(whole, value.fields + 1, Len(whole)), row |-> Append(row, value.meaning)]
  <2>1. (n + 1) + 1 \notin nulls
    BY <1>1
  <2> QED
    BY <1>5, <2>1, Zenon DEF Step
<1> HIDE DEF value
<1>7. Step(cols, nulls, n + 1, before) = [left |-> rest, row |-> more]
  BY <1>3, <1>4, <1>6
<1> HIDE DEF more
<1>8. Reads(cols, nulls, left, n + 1, more, rest)
  BY <1>7, OneMoreColumn DEF before
<1> QED
  BY <1>8 DEF more

(* A bit set for a later column makes no difference.                       *)
LEMMA LaterNull ==
  ASSUME NEW cols, NEW nulls, NEW left, NEW n \in Nat, NEW row, NEW rest,
         Reads(cols, nulls, left, n, row, rest)
  PROVE  Reads(cols, nulls \cup {n + 2}, left, n, row, rest)
<1>1. PICK u : Reading(u, cols, nulls, left, n) /\ u[n] = [left |-> rest, row |-> row]
  BY Zenon DEF Reads
<1>2. ASSUME NEW c \in 1 .. n PROVE u[c] = Step(cols, nulls \cup {n + 2}, c, u[c - 1])
  <2>1. u[c] = Step(cols, nulls, c, u[c - 1])
    BY <1>1, Zenon DEF Reading
  <2>2. c + 1 \in nulls \cup {n + 2} <=> c + 1 \in nulls
    OBVIOUS
  <2> QED
    BY <2>1, <2>2, Zenon DEF Step
<1>3. Reading(u, cols, nulls \cup {n + 2}, left, n)
  BY <1>1, <1>2, Zenon DEF Reading
<1> QED
  BY <1>1, <1>3, Zenon DEF Reads

-----------------------------------------------------------------------------
(* ReadsRow is such a reading.                                             *)

HeaderLength == 1 + BitmapLen(Len(columns))

ReadsColumn(packet, c, before) ==
  LET value == ReadsValue(columns[c], before.left)
  IN  IF NullBit(packet, c - 1)
        THEN [before EXCEPT !.row = Append(@, Means("null", <<>>))]
        ELSE [left |-> SubSeq(before.left, value.fields + 1, Len(before.left)),
              row |-> Append(before.row, value.meaning)]

Unfolds(f, packet) ==
  f = [c \in 0 .. Len(columns) |->
         IF c = 0
           THEN [left |-> SubSeq(packet, 1 + (Len(columns) + 2 + BitmapBits - 1) \div BitmapBits + 1, Len(packet)),
                 row |-> <<>>]
           ELSE ReadsColumn(packet, c, f[c - 1])]

(* ReadsRow, as the last step of a function that unfolds it.               *)
LEMMA ReadsRowIs ==
  ASSUME NEW packet, is_bin
  PROVE  LET f == CHOOSE f : Unfolds(f, packet)
             n == Len(columns)
         IN  ReadsRow(is_bin, columns, packet) =
               IF Len(packet) < 1 + (n + 2 + BitmapBits - 1) \div BitmapBits \/ f[n].left # <<>>
                 THEN <<>> ELSE f[n].row
BY Zenon DEF ReadsRow, Unfolds, ReadsColumn

(* A binary row starts with a zero byte and a NULL bitmap.                 *)
LEMMA HeaderLengthIs ==
  ASSUME columns \in Seq(Column)
  PROVE  /\ HeaderLength \in Nat /\ HeaderLength = 1 + BitmapLen(Len(columns)) /\ BitmapLen(Len(columns)) \in Nat
         /\ HeaderLength = 1 + (Len(columns) + 2 + BitmapBits - 1) \div BitmapBits
<1>1. BitmapBits \in Nat \ {0} /\ Len(columns) \in Nat
  BY SMT, RowAssumption
<1>2. Len(columns) + 2 + BitmapBits - 1 = Len(columns) + BitmapBits - 1 + 2
  BY <1>1
<1>3. Len(columns) + BitmapBits - 1 + 2 \in Nat
  BY <1>1
<1>4. (Len(columns) + BitmapBits - 1 + 2) \div BitmapBits \in Nat
  BY <1>1, <1>3, Quotient
<1> QED
  BY <1>2, <1>4 DEF HeaderLength, BitmapLen

(* The bitmap has exactly these bits set.                                  *)
BitsOf(nulls, j) == {b \in 0 .. BitmapBits - 1 : j * BitmapBits + b \in nulls}
HasNulls(packet, nulls) ==
  \A j \in 0 .. BitmapLen(Len(columns)) - 1 :
    packet[2 + j].holds = ByteOf(BitsOf(nulls, j), BitmapBits)

(* The place in the bitmap of a column's NULL bit is inside the bitmap.    *)
LEMMA ColumnBit ==
  ASSUME columns \in Seq(Column), NEW c \in 0 .. Len(columns) - 1
  PROVE  LET q == (c + 2) \div BitmapBits
             r == (c + 2) % BitmapBits
         IN  /\ q \in 0 .. BitmapLen(Len(columns)) - 1 /\ r \in 0 .. BitmapBits - 1
             /\ c + 2 = q * BitmapBits + r
<1> DEFINE B == BitmapBits
           n == Len(columns)
           q == (c + 2) \div B
           r == (c + 2) % B
           k == (n + B - 1 + 2) \div B
           s == (n + B - 1 + 2) % B
<1>1. B \in Nat \ {0} /\ n \in Nat /\ c \in Nat /\ c + 2 \in Nat /\ n + B - 1 + 2 \in Nat
  BY SMT, RowAssumption
<1>2. q \in Nat /\ r \in 0 .. B - 1 /\ c + 2 = q * B + r
  BY <1>1, Quotient
<1>3. k \in Nat /\ s \in 0 .. B - 1 /\ n + B - 1 + 2 = k * B + s
  BY <1>1, Quotient
<1>4. c + 2 < n + 2
  BY <1>1
<1> HIDE DEF B, n, q, r, k, s
<1>5. q < k
  <2>1. SUFFICES ASSUME k <= q PROVE FALSE
    BY <1>2, <1>3
  <2>2. k * B <= q * B
    BY <1>1, <1>2, <1>3, <2>1, ProductMonotonic
  <2>3. k * B \in Nat /\ q * B \in Nat
    BY <1>1, <1>2, <1>3, ProductType
  <2> QED
    BY <1>1, <1>2, <1>3, <1>4, <2>2, <2>3
<1> QED
  BY <1>2, <1>3, <1>5 DEF B, n, q, r, k, BitmapLen

(* A column's NULL bit, as the number of a bit.                            *)
LEMMA NullBitIs ==
  ASSUME columns \in Seq(Column), NEW c \in 0 .. Len(columns) - 1, NEW packet, NEW nulls,
         HasNulls(packet, nulls)
  PROVE  NullBit(packet, c) <=> c + 2 \in nulls
<1> DEFINE q == (c + 2) \div BitmapBits
           r == (c + 2) % BitmapBits
<1>1. /\ q \in 0 .. BitmapLen(Len(columns)) - 1 /\ r \in 0 .. BitmapBits - 1
      /\ c + 2 = q * BitmapBits + r
  BY ColumnBit
<1>2. NullBit(packet, c) = IsSet(packet[2 + q].holds, r)
  BY Zenon DEF NullBit
<1>3. BitmapBits \in Nat
  BY SMT, RowAssumption
<1> HIDE DEF q, r
<1>4. packet[2 + q].holds = ByteOf(BitsOf(nulls, q), BitmapBits)
  BY <1>1, Zenon DEF HasNulls
<1>5. IsSet(ByteOf(BitsOf(nulls, q), BitmapBits), r) <=> r \in BitsOf(nulls, q)
  BY <1>1, <1>3, ByteOfReads
<1>6. r \in BitsOf(nulls, q) <=> c + 2 \in nulls
  BY <1>1, Zenon DEF BitsOf
<1> QED
  BY <1>2, <1>4, <1>5, <1>6

(* One step of ReadsRow is one of the reading.                             *)
LEMMA ColumnRead ==
  ASSUME columns \in Seq(Column), NEW packet, NEW nulls, HasNulls(packet, nulls),
         NEW c \in 1 .. Len(columns), NEW left, NEW row
  PROVE  LET before == [left |-> left, row |-> row]
         IN  ReadsColumn(packet, c, before) = Step(columns, nulls, c, before)
<1> DEFINE before == [left |-> left, row |-> row]
           value == ReadsValue(columns[c], left)
<1>1. c - 1 \in 0 .. Len(columns) - 1 /\ (c - 1) + 2 = c + 1
  OBVIOUS
<1>2. NullBit(packet, c - 1) <=> c + 1 \in nulls
  BY <1>1, NullBitIs
<1>3. before.left = left /\ before.row = row
  OBVIOUS
<1>4. [before EXCEPT !.row = Append(@, Means("null", <<>>))] = [left |-> left, row |-> Append(row, Means("null", <<>>))]
  BY SMTT(60)
<1> HIDE DEF before
<1>5. CASE c + 1 \in nulls
  <2>1. ReadsColumn(packet, c, before) = [before EXCEPT !.row = Append(@, Means("null", <<>>))]
    BY <1>2, <1>5, Zenon DEF ReadsColumn
  <2>2. Step(columns, nulls, c, before) = [left |-> left, row |-> Append(row, Means("null", <<>>))]
    BY <1>3, <1>5, Zenon DEF Step, NullMeaning
  <2> QED
    BY <1>4, <2>1, <2>2 DEF before
<1>6. CASE c + 1 \notin nulls
  <2>1. ReadsColumn(packet, c, before) =
          [left |-> SubSeq(before.left, ReadsValue(columns[c], before.left).fields + 1, Len(before.left)),
           row |-> Append(before.row, ReadsValue(columns[c], before.left).meaning)]
    BY <1>2, <1>6, Zenon DEF ReadsColumn
  <2>2. Step(columns, nulls, c, before) =
          [left |-> SubSeq(before.left, ReadsValue(columns[c], before.left).fields + 1, Len(before.left)),
           row |-> Append(before.row, ReadsValue(columns[c], before.left).meaning)]
    BY <1>6, Zenon DEF Step
  <2> QED
    BY <2>1, <2>2 DEF before
<1> QED
  BY <1>5, <1>6 DEF before

(* What each step of the reading has is a row and what is left.            *)
LEMMA ReadingRecords ==
  ASSUME NEW u, NEW cols, NEW nulls, NEW left, NEW n \in Nat, Reading(u, cols, nulls, left, n),
         NEW c \in 0 .. n
  PROVE  \E l, r : u[c] = [left |-> l, row |-> r]
<1>1. CASE c = 0
  BY <1>1, Zenon DEF Reading
<1>2. CASE c # 0
  <2>1. c \in 1 .. n
    BY <1>2
  <2>2. u[c] = Step(cols, nulls, c, u[c - 1])
    BY <2>1, Zenon DEF Reading
  <2> DEFINE b == u[c - 1]
  <2>3. CASE c + 1 \in nulls
    BY <2>2, <2>3, Zenon DEF Step
  <2>4. CASE c + 1 \notin nulls
    BY <2>2, <2>4, Zenon DEF Step
  <2> QED
    BY <2>3, <2>4
<1> QED
  BY <1>1, <1>2

(* A packet of which the columns mean the row, and nothing is left, is     *)
(* read as that row.                                                       *)
LEMMA RowReads ==
  ASSUME columns \in Seq(Column), is_bin, NEW packet \in Seq(AField), HeaderLength <= Len(packet),
         NEW nulls, HasNulls(packet, nulls), NEW row,
         Reads(columns, nulls, SubSeq(packet, HeaderLength + 1, Len(packet)), Len(columns), row, <<>>)
  PROVE  ReadsRow(is_bin, columns, packet) = row
<1> DEFINE n == Len(columns)
           left == SubSeq(packet, HeaderLength + 1, Len(packet))
           f == CHOOSE f : Unfolds(f, packet)
           Body(h, c) == IF c = 0 THEN [left |-> left, row |-> <<>>] ELSE ReadsColumn(packet, c, h[c - 1])
<1>0. n \in Nat
  OBVIOUS
<1>1. PICK u : Reading(u, columns, nulls, left, n) /\ u[n] = [left |-> <<>>, row |-> row]
  BY Zenon DEF Reads
<1>2. HeaderLength = 1 + (n + 2 + BitmapBits - 1) \div BitmapBits
  BY HeaderLengthIs
<1>3. \A h : Unfolds(h, packet) <=> h = [c \in 0 .. n |-> Body(h, c)]
  BY <1>2, Zenon DEF Unfolds
<1>4. ASSUME NEW c \in 1 .. n PROVE u[c] = ReadsColumn(packet, c, u[c - 1])
  <2>1. c - 1 \in 0 .. n
    OBVIOUS
  <2>2. PICK l, r : u[c - 1] = [left |-> l, row |-> r]
    BY <1>0, <1>1, <2>1, ReadingRecords
  <2>3. u[c] = Step(columns, nulls, c, u[c - 1])
    BY <1>1, Zenon DEF Reading
  <2> DEFINE b == [left |-> l, row |-> r]
  <2>4. ReadsColumn(packet, c, b) = Step(columns, nulls, c, b)
    BY ColumnRead
  <2>5. u[c - 1] = b
    BY <2>2
  <2> HIDE DEF b
  <2> QED
    BY <2>3, <2>4, <2>5
<1>5. Unfolds(f, packet)
  <2> DEFINE g == [c \in 0 .. n |-> u[c]]
  <2>1. \A c \in 0 .. n : u[c] = Body(g, c)
    <3> TAKE c \in 0 .. n
    <3>1. CASE c # 0
      <4>1. c \in 1 .. n /\ g[c - 1] = u[c - 1]
        BY <3>1
      <4> HIDE DEF g
      <4> QED
        BY <1>4, <3>1, <4>1
    <3>2. CASE c = 0
      <4>1. u[0] = [left |-> left, row |-> <<>>]
        BY <1>1, Zenon DEF Reading
      <4> QED
        BY <3>2, <4>1
    <3> QED
      BY <3>1, <3>2
  <2> HIDE DEF Body
  <2>2. g = [c \in 0 .. n |-> Body(g, c)]
    <3>1. g = [c \in 0 .. n |-> u[c]]
      OBVIOUS
    <3> HIDE DEF g
    <3> QED
      BY <2>1, <3>1, Zenon
  <2>3. Unfolds(g, packet)
    BY <1>3, <2>2, Zenon
  <2> HIDE DEF g
  <2> QED
    BY <2>3, Zenon
<1> HIDE DEF f
<1>6. \A c \in 0 .. n : f[c] = Body(f, c)
  <2>1. f = [c \in 0 .. n |-> Body(f, c)]
    BY <1>3, <1>5
  <2> HIDE DEF Body
  <2> QED
    BY <2>1, Zenon
<1> DEFINE T == {c \in Nat : c <= n => f[c] = u[c]}
<1>7. 0 \in T
  <2>1. u[0] = [left |-> left, row |-> <<>>]
    BY <1>1, Zenon DEF Reading
  <2>2. f[0] = [left |-> left, row |-> <<>>]
    <3>1. 0 \in 0 .. n
      BY <1>0
    <3>2. f[0] = Body(f, 0)
      BY <1>6, <3>1, Zenon
    <3>3. Body(f, 0) = [left |-> left, row |-> <<>>]
      BY Zenon
    <3> QED
      BY <3>2, <3>3, Zenon
  <2> QED
    BY <2>1, <2>2
<1>8. ASSUME NEW c \in Nat, c \in T PROVE c + 1 \in T
  <2> SUFFICES ASSUME c + 1 <= n PROVE f[c + 1] = u[c + 1]
    OBVIOUS
  <2>1. c + 1 \in 1 .. n /\ c + 1 \in 0 .. n /\ c + 1 # 0 /\ (c + 1) - 1 = c /\ f[c] = u[c]
    BY <1>0, <1>8
  <2>2. f[c + 1] = ReadsColumn(packet, c + 1, f[c])
    BY <1>6, <2>1
  <2>3. u[c + 1] = ReadsColumn(packet, c + 1, u[c])
    BY <1>4, <2>1
  <2> QED
    BY <2>1, <2>2, <2>3
<1> HIDE DEF T
<1>9. Nat \subseteq T
  BY <1>7, <1>8, NatInductionOnSet
<1>10. f[n] = [left |-> <<>>, row |-> row]
  BY <1>0, <1>1, <1>9 DEF T
<1>11. ~(Len(packet) < 1 + (n + 2 + BitmapBits - 1) \div BitmapBits)
  <2>1. HeaderLength \in Nat /\ Len(packet) \in Nat
    BY HeaderLengthIs
  <2> QED
    BY <1>2, <2>1
<1>12. ReadsRow(is_bin, columns, packet) = IF Len(packet) < 1 + (n + 2 + BitmapBits - 1) \div BitmapBits \/ f[n].left # <<>>
                            THEN <<>> ELSE f[n].row
  BY ReadsRowIs, Zenon DEF f
<1>13. f[n].left = <<>> /\ f[n].row = row
  BY <1>10
<1> HIDE DEF n
<1> QED
  BY <1>11, <1>12, <1>13

(* A packet too short for the bitmap is read as nothing at all.            *)
LEMMA ShortRowReads ==
  ASSUME columns \in Seq(Column), is_bin
  PROVE  ReadsRow(is_bin, columns, <<>>) = <<>>
<1> DEFINE n == Len(columns)
           header == 1 + (n + 2 + BitmapBits - 1) \div BitmapBits
           f == CHOOSE f : Unfolds(f, <<>>)
<1>1. ReadsRow(is_bin, columns, <<>>) = IF Len(<<>>) < header \/ f[n].left # <<>> THEN <<>> ELSE f[n].row
  BY ReadsRowIs, Zenon
<1>2. header \in Nat /\ 0 < header
  <2>1. HeaderLength = header /\ HeaderLength \in Nat /\ HeaderLength = 1 + BitmapLen(Len(columns))
        /\ BitmapLen(Len(columns)) \in Nat
    BY HeaderLengthIs
  <2> QED
    BY <2>1
<1> HIDE DEF header, f, n
<1> QED
  BY <1>1, <1>2

-----------------------------------------------------------------------------
(* The row as it is written: its header, its values and its NULL bits.     *)

(* A binary row whose first n columns mean row, whatever follows.          *)
ValuesOf(packet) == SubSeq(packet, HeaderLength + 1, Len(packet))

ReadsOn(packet, nulls, n, row) ==
  /\ \A b \in nulls : b \in Nat /\ b < n + 2
  /\ HasNulls(packet, nulls)
  /\ \A f \in Seq(AField) : Reads(columns, nulls, ValuesOf(packet) \o f, n, row, f)

RowSoFar(packet, n, row) ==
  /\ packet \in Seq(AField) /\ HeaderLength <= Len(packet)
  /\ \E nulls : ReadsOn(packet, nulls, n, row)

(* A row starts with as many zero bytes as its header has,                 *)
LEMMA HeaderIs ==
  ASSUME columns \in Seq(Column)
  PROVE  Header \in Seq(AField) /\ Len(Header) = HeaderLength /\ \A i \in 1 .. HeaderLength : Header[i].holds = 0
<1>1. HeaderLength \in Nat /\ HeaderLength = 1 + BitmapLen(Len(columns))
  BY HeaderLengthIs
<1>2. Field(1, 0) \in AField /\ Field(1, 0).holds = 0
  <2>1. 1 \in ByteWidths /\ 0 \in Nat /\ Half[1] \in Nat \ {0}
    BY HalfIsPositive DEF ByteWidths
  <2>2. 0 < 2 * Half[1]
    BY <2>1
  <2> QED
    BY <2>1, <2>2, FieldHolds
<1> DEFINE zero == Field(1, 0)
<1>3. Header = [i \in 1 .. HeaderLength |-> zero]
  BY <1>1 DEF Header
<1> HIDE DEF zero
<1>4. \A i \in 1 .. HeaderLength : Header[i] = zero
  BY <1>3
<1>5. Header = [i \in 1 .. HeaderLength |-> Header[i]]
  BY <1>3
<1> QED
  BY <1>1, <1>2, <1>4, <1>5, FunctionIsSequence DEF zero

(* which are a row of no values.                                           *)
LEMMA HeaderSoFar ==
  ASSUME columns \in Seq(Column)
  PROVE  RowSoFar(Header, 0, <<>>)
<1>1. Header \in Seq(AField) /\ Len(Header) = HeaderLength /\ \A i \in 1 .. HeaderLength : Header[i].holds = 0
  BY HeaderIs
<1>2. HeaderLength \in Nat /\ HeaderLength = 1 + BitmapLen(Len(columns)) /\ BitmapLen(Len(columns)) \in Nat
  BY HeaderLengthIs
<1>3. ValuesOf(Header) = <<>>
  BY <1>1, <1>2 DEF ValuesOf
<1>4. HasNulls(Header, {})
  <2>1. ASSUME NEW j \in 0 .. BitmapLen(Len(columns)) - 1
        PROVE  Header[2 + j].holds = ByteOf(BitsOf({}, j), BitmapBits)
    <3>1. 2 + j \in 1 .. HeaderLength
      BY <1>2
    <3>2. BitmapBits \in Nat
      BY SMT, RowAssumption
    <3>3. \A k \in 0 .. BitmapBits - 1 : k \notin BitsOf({}, j)
      BY Zenon DEF BitsOf
    <3>4. ByteOf(BitsOf({}, j), BitmapBits) = 0
      BY <3>2, <3>3, ByteOfNone
    <3> QED
      BY <1>1, <3>1, <3>4
  <2> QED
    BY <2>1, Zenon DEF HasNulls
<1>5. \A f \in Seq(AField) : Reads(columns, {}, ValuesOf(Header) \o f, 0, <<>>, f)
  <2> TAKE f \in Seq(AField)
  <2>1. ValuesOf(Header) \o f = f
    BY <1>3
  <2>2. Reads(columns, {}, f, 0, <<>>, f)
    BY NothingRead
  <2> QED
    BY <2>1, <2>2
<1>6. ReadsOn(Header, {}, 0, <<>>)
  BY <1>4, <1>5, Zenon DEF ReadsOn
<1>7. HeaderLength <= Len(Header)
  BY <1>1, <1>2
<1> QED
  BY <1>1, <1>6, <1>7, Zenon DEF RowSoFar

(* What follows the header grows with the row.                             *)
LEMMA SuffixGrows ==
  ASSUME NEW S, NEW s \in Seq(S), NEW e \in Seq(S), NEW n \in 0 .. Len(s), NEW t, t = s \o e
  PROVE  SubSeq(t, n + 1, Len(t)) = SubSeq(s, n + 1, Len(s)) \o e
<1> DEFINE a == SubSeq(s, 1, n)
           b == SubSeq(s, n + 1, Len(s))
           be == b \o e
<1>1. a \in Seq(S) /\ Len(a) = n /\ b \in Seq(S) /\ s = a \o b
  BY CutInTwo
<1> HIDE DEF a, b
<1>2. be \in Seq(S)
  BY <1>1
<1>3. t = a \o be
  BY <1>1, Associativity
<1> HIDE DEF be
<1>4. SubSeq(t, Len(a) + 1, Len(t)) = be
  BY <1>1, <1>2, <1>3, AfterPrefix
<1> QED
  BY <1>1, <1>4 DEF be, b

(* The fields of a value that carries its meaning, added to the row.       *)
LEMMA FieldsAdded ==
  ASSUME columns \in Seq(Column), NEW n \in 0 .. Len(columns) - 1, NEW packet, NEW row,
         RowSoFar(packet, n, row), NEW e, NEW m, Carries(columns[n + 1], e, m)
  PROVE  RowSoFar(packet \o e, n + 1, Append(row, m))
<1>1. e \in Seq(AField) /\ Decodes(columns[n + 1], e, m)
  BY Zenon DEF Carries
<1>2. packet \in Seq(AField) /\ HeaderLength <= Len(packet)
  BY Zenon DEF RowSoFar
<1>3. PICK nulls : ReadsOn(packet, nulls, n, row)
  BY Zenon DEF RowSoFar
<1>4. HeaderLength \in Nat /\ HeaderLength = 1 + BitmapLen(Len(columns)) /\ BitmapLen(Len(columns)) \in Nat
  BY HeaderLengthIs
<1> DEFINE longer == packet \o e
           values == ValuesOf(packet)
           more == Append(row, m)
<1>5. /\ longer \in Seq(AField) /\ Len(longer) = Len(packet) + Len(e)
      /\ \A i \in 1 .. Len(packet) : longer[i] = packet[i]
  BY <1>1, <1>2, Concatenated
<1>6. values \in Seq(AField)
  BY <1>2, <1>4 DEF ValuesOf
<1>7. ValuesOf(longer) = values \o e
  <2>1. HeaderLength \in 0 .. Len(packet)
    BY <1>2, <1>4
  <2> HIDE DEF longer
  <2>2. SubSeq(longer, HeaderLength + 1, Len(longer)) = SubSeq(packet, HeaderLength + 1, Len(packet)) \o e
    BY <1>1, <1>2, <2>1, SuffixGrows DEF longer
  <2> QED
    BY <2>2, Zenon DEF ValuesOf
<1> HIDE DEF longer, values, more
<1>8. HasNulls(longer, nulls)
  <2>1. ASSUME NEW j \in 0 .. BitmapLen(Len(columns)) - 1 PROVE longer[2 + j] = packet[2 + j]
    <3>1. 2 + j \in 1 .. Len(packet)
      BY <1>2, <1>4
    <3> QED
      BY <1>5, <3>1
  <2>2. HasNulls(packet, nulls)
    BY <1>3, Zenon DEF ReadsOn
  <2> QED
    BY <2>1, <2>2, Zenon DEF HasNulls
<1>9. \A b \in nulls : b \in Nat /\ b < n + 2
  BY <1>3, Zenon DEF ReadsOn
<1>10. n \in Nat /\ n + 2 \notin nulls /\ \A b \in nulls : b < (n + 1) + 2
  BY <1>9
<1>11. ASSUME NEW f \in Seq(AField) PROVE Reads(columns, nulls, ValuesOf(longer) \o f, n + 1, more, f)
  <2> DEFINE whole == e \o f
             ve == values \o e
  <2>1. whole \in Seq(AField)
    BY <1>1
  <2>2. ve \o f = values \o whole
    BY <1>1, <1>6, Associativity
  <2> HIDE DEF whole
  <2>3. Reads(columns, nulls, values \o whole, n, row, whole)
    BY <1>3, <2>1, Zenon DEF ReadsOn, values
  <2>4. Reads(columns, nulls, values \o whole, n + 1, more, f)
    BY <1>1, <1>10, <2>3, FieldsRead DEF whole, more
  <2> QED
    BY <1>7, <2>2, <2>4
<1>12. ReadsOn(longer, nulls, n + 1, more)
  BY <1>8, <1>9, <1>10, <1>11, Zenon DEF ReadsOn
<1>13. HeaderLength <= Len(longer)
  BY <1>1, <1>2, <1>4, <1>5
<1> QED
  BY <1>5, <1>12, <1>13, Zenon DEF RowSoFar, longer, more

(* The bytes of the bitmap once one more bit is set.                       *)
BitAt(b, q, r) == b = q * BitmapBits + r

OneBitMore(nulls, b, q, r) ==
  /\ BitsOf(nulls \cup {b}, q) = BitsOf(nulls, q) \cup {r} /\ r \notin BitsOf(nulls, q)
  /\ \A j \in Nat : j # q => BitsOf(nulls \cup {b}, j) = BitsOf(nulls, j)

(* Setting a bit that is clear sets that bit and no other.                 *)
LEMMA BitAdded ==
  ASSUME NEW nulls, NEW q \in Nat, NEW r \in 0 .. BitmapBits - 1, NEW b, BitAt(b, q, r), b \notin nulls
  PROVE  OneBitMore(nulls, b, q, r)
<1>1. BitmapBits \in Nat \ {0}
  BY SMT, RowAssumption
<1>0. b = q * BitmapBits + r
  BY DEF BitAt
<1>2. ASSUME NEW j \in Nat, NEW s \in 0 .. BitmapBits - 1, j * BitmapBits + s = b PROVE j = q /\ s = r
  <2>1. b \in Nat
    BY <1>0, <1>1, ProductType
  <2>2. b \div BitmapBits = q /\ b % BitmapBits = r
    BY <1>0, <1>1, <2>1, QuotientUnique
  <2>3. b \div BitmapBits = j /\ b % BitmapBits = s
    BY <1>1, <1>2, <2>1, QuotientUnique
  <2> QED
    BY <2>2, <2>3
<1>3. BitsOf(nulls \cup {b}, q) = BitsOf(nulls, q) \cup {r}
  BY <1>0, <1>2, Zenon DEF BitsOf
<1>4. r \notin BitsOf(nulls, q)
  BY <1>0, Zenon DEF BitsOf
<1>5. ASSUME NEW j \in Nat, j # q PROVE BitsOf(nulls \cup {b}, j) = BitsOf(nulls, j)
  BY <1>2, <1>5, Zenon DEF BitsOf
<1> QED
  BY <1>3, <1>4, <1>5, Zenon DEF OneBitMore

(* Rows that differ only in their headers have the same values.            *)
LEMMA SameSuffix ==
  ASSUME NEW S, NEW s \in Seq(S), NEW t \in Seq(S), Len(s) = Len(t), NEW n \in Nat,
         \A k \in n + 1 .. Len(s) : s[k] = t[k]
  PROVE  SubSeq(s, n + 1, Len(s)) = SubSeq(t, n + 1, Len(s))
OBVIOUS

(* The bit of a NULL column, set in the row.                               *)
LEMMA NullAdded ==
  ASSUME columns \in Seq(Column), col \in 0 .. Len(columns) - 1, NEW packet, NEW row,
         RowSoFar(packet, col, row)
  PROVE  RowSoFar(SetNullBit(packet), col + 1, Append(row, NullMeaning))
<1> DEFINE q == (col + 2) \div BitmapBits
           r == (col + 2) % BitmapBits
           i == 2 + q
           marked == SetNullBit(packet)
           more == Append(row, NullMeaning)
<1>1. /\ q \in 0 .. BitmapLen(Len(columns)) - 1 /\ r \in 0 .. BitmapBits - 1
      /\ col + 2 = q * BitmapBits + r
  BY ColumnBit
<1>2. packet \in Seq(AField) /\ HeaderLength <= Len(packet)
  BY Zenon DEF RowSoFar
<1>3. PICK nulls : ReadsOn(packet, nulls, col, row)
  BY Zenon DEF RowSoFar
<1>4. HeaderLength \in Nat /\ HeaderLength = 1 + BitmapLen(Len(columns)) /\ BitmapLen(Len(columns)) \in Nat
  BY HeaderLengthIs
<1>5. BitmapBits \in Nat
  BY SMT, RowAssumption
<1>6. marked = [packet EXCEPT ![i] = [packet[i] EXCEPT !.holds = packet[i].holds + Bit[r]]]
  BY Zenon DEF SetNullBit
<1> DEFINE b == col + 2
           all == nulls \cup {b}
<1> HIDE DEF q, r, marked, more
<1>7. \A x \in nulls : x \in Nat /\ x < col + 2
  BY <1>3, Zenon DEF ReadsOn
<1>8. col \in Nat /\ col + 2 \notin nulls /\ q \in Nat
  BY <1>1, <1>7
<1>9. /\ BitsOf(all, q) = BitsOf(nulls, q) \cup {r} /\ r \notin BitsOf(nulls, q)
      /\ \A j \in Nat : j # q => BitsOf(all, j) = BitsOf(nulls, j)
  <2>1. BitAt(b, q, r) /\ b \notin nulls
    BY <1>1, <1>8 DEF BitAt
  <2>2. q \in Nat /\ r \in 0 .. BitmapBits - 1
    BY <1>1, <1>8
  <2> HIDE DEF b
  <2>3. OneBitMore(nulls, b, q, r)
    BY <2>1, <2>2, BitAdded, Zenon
  <2> QED
    BY <2>3, Zenon DEF OneBitMore
<1>10. packet[i].holds = ByteOf(BitsOf(nulls, q), BitmapBits)
  BY <1>1, <1>3, Zenon DEF ReadsOn, HasNulls
<1>11. packet[i].holds + Bit[r] = ByteOf(BitsOf(all, q), BitmapBits)
  <2> DEFINE bits == BitsOf(nulls, q)
  <2> HIDE DEF bits, all
  <2>1. BitsOf(all, q) = bits \cup {r} /\ r \notin bits /\ packet[i].holds = ByteOf(bits, BitmapBits)
    BY <1>9, <1>10 DEF bits
  <2>2. ByteOf(bits \cup {r}, BitmapBits) = ByteOf(bits, BitmapBits) + Bit[r]
    BY <1>1, <1>5, <2>1, ByteOfAdds
  <2> QED
    BY <2>1, <2>2
<1>12. ByteOf(BitsOf(all, q), BitmapBits) \in Nat
  BY <1>5, ByteOfType
<1> DEFINE byte == packet[i].holds + Bit[r]
           f == [packet[i] EXCEPT !.holds = byte]
<1>13. i \in 1 .. HeaderLength /\ i \in 1 .. Len(packet) /\ packet[i] \in AField
  BY <1>1, <1>2, <1>4
<1>14. byte \in Nat
  BY <1>11, <1>12
<1> HIDE DEF byte, i
<1>15. f \in AField /\ f.holds = byte
  BY <1>13, <1>14 DEF AField
<1>16. marked = [packet EXCEPT ![i] = f]
  BY <1>6, Zenon DEF byte
<1> HIDE DEF f
<1>17. /\ marked \in Seq(AField) /\ Len(marked) = Len(packet) /\ marked[i] = f
       /\ \A k \in 1 .. Len(packet) : k # i => marked[k] = packet[k]
  BY <1>2, <1>13, <1>15, <1>16
<1>18. HasNulls(marked, all)
  <2>1. ASSUME NEW j \in 0 .. BitmapLen(Len(columns)) - 1
        PROVE  marked[2 + j].holds = ByteOf(BitsOf(all, j), BitmapBits)
    <3>1. CASE j = q
      <4>1. 2 + j = i
        BY <3>1 DEF i
      <4> QED
        BY <1>11, <1>15, <1>17, <3>1, <4>1 DEF byte
    <3>2. CASE j # q
      <4>1. 2 + j \in 1 .. Len(packet) /\ 2 + j # i /\ j \in Nat
        BY <1>2, <1>4, <1>8, <3>2 DEF i
      <4>2. marked[2 + j] = packet[2 + j]
        BY <1>17, <4>1
      <4>3. BitsOf(all, j) = BitsOf(nulls, j)
        BY <1>9, <3>2, <4>1
      <4>4. packet[2 + j].holds = ByteOf(BitsOf(nulls, j), BitmapBits)
        BY <1>3, Zenon DEF ReadsOn, HasNulls
      <4> QED
        BY <4>2, <4>3, <4>4
    <3> QED
      BY <3>1, <3>2
  <2> QED
    BY <2>1, Zenon DEF HasNulls
<1>19. ValuesOf(marked) = ValuesOf(packet)
  <2>1. \A k \in HeaderLength + 1 .. Len(packet) : marked[k] = packet[k]
    BY <1>4, <1>13, <1>17
  <2>2. SubSeq(marked, HeaderLength + 1, Len(packet)) = SubSeq(packet, HeaderLength + 1, Len(packet))
    BY <1>2, <1>4, <1>17, <2>1, SameSuffix
  <2> QED
    BY <1>17, <2>2 DEF ValuesOf
<1>20. ASSUME NEW g \in Seq(AField) PROVE Reads(columns, all, ValuesOf(marked) \o g, col + 1, more, g)
  <2> DEFINE left == ValuesOf(packet) \o g
  <2>1. Reads(columns, nulls, left, col, row, g)
    BY <1>3, Zenon DEF ReadsOn
  <2> HIDE DEF left
  <2>2. Reads(columns, all, left, col, row, g)
    BY <1>8, <2>1, LaterNull
  <2>3. col + 2 \in all
    OBVIOUS
  <2> HIDE DEF all
  <2>4. Reads(columns, all, left, col + 1, more, g)
    BY <1>8, <2>2, <2>3, NullRead DEF more
  <2> QED
    BY <1>19, <2>4 DEF left
<1>21. \A x \in all : x \in Nat /\ x < (col + 1) + 2
  BY <1>7, <1>8
<1> HIDE DEF all
<1>22. ReadsOn(marked, all, col + 1, more)
  BY <1>18, <1>20, <1>21, Zenon DEF ReadsOn
<1>23. HeaderLength <= Len(marked)
  BY <1>2, <1>17
<1> QED
  BY <1>17, <1>22, <1>23, Zenon DEF RowSoFar, marked, more

-----------------------------------------------------------------------------
(* Values that are refused.                                                *)

(* What is refused writes nothing.                                         *)
LEMMA IfOutcome ==
  ASSUME NEW accepted, NEW fields
  PROVE  If(accepted, fields).ok \/ If(accepted, fields) = Refused
BY DEF If, Writes

Outcome(b) == b.ok \/ b = Refused

(* to_mysql_bin writes the fields of a value or refuses it with an error.  *)
LEMMA BinaryOutcome ==
  ASSUME NEW v, Typed(v), NEW c, ~Unreachable(v)
  PROVE  Outcome(ToMysqlBin(v, c))
<1> DEFINE x == Unwrapped(v)
           b == ToMysqlBin(v, c)
<1>1. /\ x.type \in {"usize", "isize"} => b = EncodeForgiving(x.is, c)
      /\ x.type \in SizedTypes => b = EncodeSized(RustWidth[x.type], RustSigned(x.type), x.is, c)
      /\ x.type = "UInt" => b = EncodeSized(8, FALSE, x.is, c)
      /\ x.type = "Int" => b = EncodeValueInt(x.is, c)
      /\ x.type \in {"f32", "Float"} => b = EncodeF32(x.is, c)
      /\ x.type \in {"f64", "Double"} => b = EncodeF64(x.is, c)
      /\ x.type \in {"bytes", "Bytes"} => b = EncodeBytes(x.is, c)
      /\ x.type = "NaiveDate" => b = EncodeNaiveDate(x.is, c)
      /\ x.type = "NaiveDateTime" => b = EncodeNaiveDateTime(x.is, c)
      /\ x.type = "Duration" => b = EncodeTime(OfDuration(x.is), 0, c)
      /\ x.type = "Date" => b = EncodeValueDate(x.is, c)
      /\ x.type = "Time" =>
           b = IF ValidTimeParts(x.is) THEN EncodeTime(OfTime(x.is), x.is.neg, c) ELSE Refused
  BY BinaryEncodings
<1>2. x.type \in SizedTypes \cup OtherTypes
  BY TypedIs
<1>3. x.type \notin {"None", "NULL"}
  BY Zenon DEF Unreachable
<1> SUFFICES Outcome(b)
  OBVIOUS
<1> HIDE DEF x, b
<1>4. \A w, signed, n : Outcome(EncodeSized(w, signed, n, c))
  BY IfOutcome, Zenon DEF EncodeSized, Outcome
<1>5. \A n : Outcome(EncodeForgiving(n, c)) /\ Outcome(EncodeF32(n, c)) /\ Outcome(EncodeF64(n, c))
             /\ Outcome(EncodeBytes(n, c))
  BY IfOutcome, Zenon DEF EncodeForgiving, EncodeF32, EncodeF64, EncodeBytes, Outcome
<1>6. Outcome(Refused)
  BY Zenon DEF Outcome
<1>7. \A n : Outcome(EncodeValueInt(n, c))
  <2> TAKE n
  <2>1. CASE ~Signed(c) /\ n < 0
    BY <1>6, <2>1, Zenon DEF EncodeValueInt
  <2>2. CASE ~(~Signed(c) /\ n < 0)
    <3>1. \E w, signed : EncodeValueInt(n, c) = EncodeSized(w, signed, n, c)
      BY <2>2, Zenon DEF EncodeValueInt
    <3> QED
      BY <1>4, <3>1
  <2> QED
    BY <2>1, <2>2
<1>8. \A t : Outcome(EncodeNaiveDate(t, c))
  BY IfOutcome, Zenon DEF EncodeNaiveDate, Outcome
<1>9. \A t : Outcome(EncodeNaiveDateTime(t, c))
  BY IfOutcome, SMT DEF EncodeNaiveDateTime, Outcome
<1>10. \A t : Outcome(EncodeValueDate(t, c))
  BY IfOutcome, Zenon DEF EncodeValueDate, Outcome
<1>11. \A dur, neg : Outcome(EncodeTime(dur, neg, c))
  BY IfOutcome, SMT DEF EncodeTime, Outcome
<1>12. CASE x.type \in SizedTypes
  BY <1>1, <1>4, <1>12
<1>13. CASE x.type \in OtherTypes
  <2>1. CASE x.type \in {"usize", "isize", "f32", "Float", "f64", "Double", "bytes", "Bytes"}
    BY <1>1, <1>5, <2>1
  <2>2. CASE x.type = "UInt"
    BY <1>1, <1>4, <2>2
  <2>3. CASE x.type = "Int"
    BY <1>1, <1>7, <2>3
  <2>4. CASE x.type = "NaiveDate"
    BY <1>1, <1>8, <2>4
  <2>5. CASE x.type = "NaiveDateTime"
    BY <1>1, <1>9, <2>5
  <2>6. CASE x.type = "Date"
    BY <1>1, <1>10, <2>6
  <2>7. CASE x.type = "Duration"
    BY <1>1, <1>11, <2>7
  <2>8. CASE x.type = "Time"
    BY <1>1, <1>6, <1>11, <2>8
  <2> QED
    BY <1>3, <1>13, <2>1, <2>2, <2>3, <2>4, <2>5, <2>6, <2>7, <2>8 DEF OtherTypes
<1> QED
  BY <1>2, <1>12, <1>13

(* So does to_mysql_text.                                                  *)
LEMMA TextOutcome ==
  ASSUME NEW v, Typed(v), NEW c
  PROVE  Outcome(ToMysqlText(v, c))
<1> DEFINE x == Unwrapped(v)
           b == ToMysqlText(v, c)
<1>1. /\ x.type \in {"None", "NULL"} => b = Writes(Text("null", <<>>))
      /\ x.type \in {"bytes", "Bytes"} => b = Writes(LenencStr(x.is))
      /\ x.type = "NaiveDate" => b = NaiveDateText(x.is)
      /\ x.type = "NaiveDateTime" => b = NaiveDateTimeText(x.is)
      /\ x.type = "Duration" => b = TimeText(OfDuration(x.is), 0)
      /\ x.type = "Date" => b = ValueDateTextInColumn(x.is, c)
      /\ x.type = "Time" =>
           b = IF ValidTimeParts(x.is) THEN TimeText(OfTime(x.is), x.is.neg) ELSE Refused
      /\ x.type \notin {"None", "NULL", "bytes", "Bytes", "NaiveDate", "NaiveDateTime", "Duration",
                        "Date", "Time"}
           => b = Writes(Text("number", <<x.is>>))
  BY TextEncodings
<1> SUFFICES Outcome(b)
  OBVIOUS
<1> HIDE DEF x, b
<1>2. \A fields : Outcome(Writes(fields))
  BY DEF Outcome, Writes
<1>3. Outcome(Refused)
  BY Zenon DEF Outcome
<1>4. \A t : Outcome(NaiveDateText(t)) /\ Outcome(NaiveDateTimeText(t))
  BY IfOutcome, SMT DEF NaiveDateText, NaiveDateTimeText, Outcome
<1>5. \A t : Outcome(ValueDateTextInColumn(t, c))
  BY IfOutcome, Zenon DEF ValueDateTextInColumn, ValueDateText, Outcome
<1>6. \A dur, neg : Outcome(TimeText(dur, neg))
  BY IfOutcome, SMT DEF TimeText, Outcome
<1>7. CASE x.type \in {"None", "NULL", "bytes", "Bytes"}
  BY <1>1, <1>2, <1>7
<1>8. CASE x.type = "NaiveDate" \/ x.type = "NaiveDateTime"
  BY <1>1, <1>4, <1>8
<1>9. CASE x.type = "Duration"
  BY <1>1, <1>6, <1>9
<1>10. CASE x.type = "Date"
  BY <1>1, <1>5, <1>10
<1>11. CASE x.type = "Time"
  BY <1>1, <1>3, <1>6, <1>11
<1>12. CASE x.type \notin {"None", "NULL", "bytes", "Bytes", "NaiveDate", "NaiveDateTime", "Duration",
                           "Date", "Time"}
  BY <1>1, <1>2, <1>12
<1> QED
  BY <1>7, <1>8, <1>9, <1>10, <1>11, <1>12

(* RowBufferWriter takes a beginning of the fields.                        *)
LEMMA FittingIs ==
  ASSUME NEW row \in Seq(AField), NEW fields \in Seq(AField), SizeOf(row) <= MaxPacketSize
  PROVE  /\ \E k \in 0 .. Len(fields) : Fitting(row, fields) = SubSeq(fields, 1, k)
         /\ SizeOf(row \o fields) <= MaxPacketSize => Fitting(row, fields) = fields
<1> DEFINE n == Len(fields)
           fits == {k \in 0 .. n : SizeOf(row \o SubSeq(fields, 1, k)) <= MaxPacketSize}
           most == CHOOSE k \in fits : \A j \in fits : j <= k
           T == {m \in Nat : m <= n /\ n - m \in fits}
<1>1. n \in Nat
  OBVIOUS
<1>2. 0 \in fits
  <2>1. row \o SubSeq(fields, 1, 0) = row
    OBVIOUS
  <2>2. SizeOf(row \o SubSeq(fields, 1, 0)) <= MaxPacketSize
    BY <2>1, Zenon
  <2>3. 0 \in 0 .. n
    BY <1>1
  <2> QED
    BY <2>2, <2>3, Zenon
<1>3. Fitting(row, fields) = SubSeq(fields, 1, most)
  BY Zenon DEF Fitting
<1>4. SizeOf(row \o fields) <= MaxPacketSize => n \in fits
  <2>1. SubSeq(fields, 1, n) = fields
    OBVIOUS
  <2>2. SizeOf(row \o fields) <= MaxPacketSize => SizeOf(row \o SubSeq(fields, 1, n)) <= MaxPacketSize
    BY <2>1, Zenon
  <2>3. n \in 0 .. n
    BY <1>1
  <2> QED
    BY <2>2, <2>3, Zenon
<1>5. fits \subseteq 0 .. n
  OBVIOUS
<1> HIDE DEF fits
<1>6. T \in SUBSET Nat /\ T # {}
  <2>1. n \in T
    BY <1>1, <1>2
  <2> QED
    BY <2>1
<1>7. PICK m \in T : \A l \in T : m <= l
  BY <1>6, LeastNatural
<1>8. \E k \in fits : \A j \in fits : j <= k
  <2>1. n - m \in fits /\ m \in Nat /\ m <= n
    BY <1>7
  <2>2. ASSUME NEW j \in fits PROVE j <= n - m
    <3>1. j \in 0 .. n
      BY <1>5
    <3>2. n - j \in T
      BY <1>1, <3>1
    <3>3. m <= n - j
      BY <1>7, <3>2
    <3> QED
      BY <1>1, <2>1, <3>1, <3>3
  <2> QED
    BY <2>1, <2>2
<1>9. most \in fits /\ \A j \in fits : j <= most
  BY <1>8, Zenon
<1>10. most \in 0 .. n
  BY <1>5, <1>9
<1> HIDE DEF most, T
<1>11. SizeOf(row \o fields) <= MaxPacketSize => Fitting(row, fields) = fields
  <2>1. n \in fits => most = n
    BY <1>1, <1>9, <1>10
  <2>2. SubSeq(fields, 1, n) = fields
    OBVIOUS
  <2> HIDE DEF n
  <2> QED
    BY <1>3, <1>4, <2>1, <2>2
<1> QED
  BY <1>3, <1>10, <1>11

(* What a failed write_col cuts back is the row it found.                  *)
LEMMA TruncatedBack ==
  ASSUME NEW row \in Seq(AField), NEW fields \in Seq(AField), SizeOf(row) <= MaxPacketSize,
         NEW n \in 0 .. Len(row)
  PROVE  SubSeq(row \o Fitting(row, fields), 1, n) = SubSeq(row, 1, n)
<1>1. PICK k \in 0 .. Len(fields) : Fitting(row, fields) = SubSeq(fields, 1, k)
  BY FittingIs
<1> DEFINE fit == Fitting(row, fields)
<1>2. fit \in Seq(AField)
  BY <1>1
<1> HIDE DEF fit
<1>3. SubSeq(row \o fit, 1, n) = SubSeq(row, 1, n)
  BY <1>2
<1> QED
  BY <1>3 DEF fit

-----------------------------------------------------------------------------
(* Sizes.                                                                  *)

(* The sizes of the first fields.                                          *)
Sizes(f, s) == f = [k \in 0 .. Len(s) |-> IF k = 0 THEN 0 ELSE f[k - 1] + s[k].width]

(* The sizes of the first fields are a function,                           *)
LEMMA SizesExist ==
  ASSUME NEW s \in Seq(AField)
  PROVE  \E f : Sizes(f, s)
<1> DEFINE n == Len(s)
           width == [k \in Nat |-> IF k + 1 \in 1 .. n THEN s[k + 1].width ELSE 0]
           g == [p \in Nat \X Nat |-> p[2] + width[p[1]]]
<1>0. n \in Nat
  OBVIOUS
<1>1. width \in [Nat -> Nat] /\ \A k \in Nat : k + 1 \in 1 .. n => width[k] = s[k + 1].width
  <2>1. \A k \in 1 .. n : s[k] \in AField
    BY SeqElements
  <2>2. \A k \in 1 .. n : s[k].width \in Nat
    BY <2>1 DEF AField
  <2> QED
    BY <2>2
<1> HIDE DEF width
<1>2. g \in [Nat \X Nat -> Nat] /\ \A k, x \in Nat : g[<<k, x>>] = x + width[k]
  <2>1. \A p \in Nat \X Nat : p[2] + width[p[1]] \in Nat
    <3> TAKE p \in Nat \X Nat
    <3>1. p[1] \in Nat /\ p[2] \in Nat
      OBVIOUS
    <3>2. width[p[1]] \in Nat
      BY <1>1, <3>1
    <3> QED
      BY <3>1, <3>2
  <2> DEFINE of(p) == p[2] + width[p[1]]
  <2>2. g = [p \in Nat \X Nat |-> of(p)] /\ \A p \in Nat \X Nat : of(p) \in Nat
    BY <2>1
  <2>3. \A k, x \in Nat : <<k, x>> \in Nat \X Nat /\ of(<<k, x>>) = x + width[k]
    OBVIOUS
  <2> HIDE DEF g, of
  <2>4. g \in [Nat \X Nat -> Nat] /\ \A p \in Nat \X Nat : g[p] = of(p)
    BY <2>2, Zenon
  <2> QED
    BY <2>3, <2>4, Zenon
<1> HIDE DEF g
<1>3. PICK f : f \in [Nat -> Nat] /\ f[0] = 0 /\ \A k \in Nat : f[k + 1] = g[<<k, f[k]>>]
  <2>1. 0 \in Nat
    OBVIOUS
  <2>2. \E f : Recurs(f, Nat, 0, g)
    BY <1>2, <2>1, RecursionOnNat
  <2> QED
    BY <2>2, Zenon DEF Recurs
<1> DEFINE h == [k \in 0 .. n |-> f[k]]
           body(e, k) == IF k = 0 THEN 0 ELSE e[k - 1] + s[k].width
<1>4. \A k \in 0 .. n : f[k] = body(h, k)
  <2> TAKE k \in 0 .. n
  <2>1. CASE k # 0
    <3>1. k - 1 \in Nat /\ (k - 1) + 1 = k /\ f[k - 1] \in Nat /\ h[k - 1] = f[k - 1] /\ k \in 1 .. n
      BY SMTT(60), <1>0, <1>3, <2>1
    <3>2. f[(k - 1) + 1] = g[<<k - 1, f[k - 1]>>]
      BY <1>3, <3>1
    <3>3. width[k - 1] = s[k].width
      BY <1>1, <3>1
    <3> HIDE DEF h
    <3>4. f[k] = f[k - 1] + s[k].width
      BY <1>2, <3>1, <3>2, <3>3
    <3> QED
      BY <2>1, <3>1, <3>4
  <2> QED
    BY <1>3, <2>1
<1>5. h = [k \in 0 .. n |-> body(h, k)]
  <2> HIDE DEF body
  <2>1. h = [k \in 0 .. n |-> f[k]]
    OBVIOUS
  <2> HIDE DEF h
  <2> QED
    BY <1>4, <2>1, Zenon
<1>6. Sizes(h, s)
  <2> HIDE DEF h
  <2> QED
    BY <1>5, Zenon DEF Sizes
<1> QED
  BY <1>6

(* of which SizeOf is the last value.                                      *)
LEMMA SizeOfIs ==
  ASSUME NEW s \in Seq(AField)
  PROVE  \E f : Sizes(f, s) /\ SizeOf(s) = f[Len(s)]
<1>1. \E f : Sizes(f, s)
  BY SizesExist
<1> DEFINE f == CHOOSE f : Sizes(f, s)
<1>2. Sizes(f, s)
  BY <1>1
<1>3. SizeOf(s) = f[Len(s)]
  BY Zenon DEF SizeOf, Sizes
<1> QED
  BY <1>2, <1>3

(* Each field adds its width.                                              *)
LEMMA SizesStep ==
  ASSUME NEW s \in Seq(AField), NEW f, Sizes(f, s)
  PROVE  /\ f[0] = 0
         /\ \A k \in 0 .. Len(s) - 1 : f[k + 1] = f[k] + s[k + 1].width
         /\ \A k \in 0 .. Len(s) : f[k] \in Nat
<1> DEFINE n == Len(s)
<1>0. n \in Nat
  OBVIOUS
<1>1. \A k \in 0 .. n : f[k] = IF k = 0 THEN 0 ELSE f[k - 1] + s[k].width
  BY Zenon DEF Sizes
<1>2. f[0] = 0
  <2>1. 0 \in 0 .. n
    BY <1>0
  <2> QED
    BY <1>1, <2>1, Zenon
<1>3. ASSUME NEW k \in 0 .. n - 1 PROVE f[k + 1] = f[k] + s[k + 1].width
  <2>1. k + 1 \in 0 .. n /\ k + 1 # 0 /\ (k + 1) - 1 = k
    BY <1>0
  <2>2. f[k + 1] = f[(k + 1) - 1] + s[k + 1].width
    BY <1>1, <2>1, Zenon
  <2> QED
    BY <2>1, <2>2
<1> DEFINE T == {k \in Nat : k <= n => f[k] \in Nat}
<1>4. 0 \in T
  BY <1>2
<1>5. ASSUME NEW k \in Nat, k \in T PROVE k + 1 \in T
  <2> SUFFICES ASSUME k + 1 <= n PROVE f[k + 1] \in Nat
    OBVIOUS
  <2>1. k \in 0 .. n - 1 /\ k + 1 \in 1 .. n /\ f[k] \in Nat
    BY <1>0, <1>5
  <2>2. s[k + 1] \in AField
    BY <2>1, SeqElements
  <2>3. s[k + 1].width \in Nat
    BY <2>2 DEF AField
  <2> QED
    BY <1>3, <2>1, <2>3
<1> HIDE DEF T
<1>6. Nat \subseteq T
  BY <1>4, <1>5, NatInductionOnSet
<1>7. \A k \in 0 .. n : f[k] \in Nat
  BY <1>0, <1>6 DEF T
<1> QED
  BY <1>2, <1>3, <1>7

(* A size is a natural number.                                             *)
LEMMA SizeOfType ==
  ASSUME NEW s \in Seq(AField)
  PROVE  SizeOf(s) \in Nat
<1>1. PICK f : Sizes(f, s) /\ SizeOf(s) = f[Len(s)]
  BY SizeOfIs, Zenon
<1>2. Len(s) \in 0 .. Len(s)
  OBVIOUS
<1> QED
  BY <1>1, <1>2, SizesStep

(* The sizes of two parts add up.                                          *)
LEMMA SizeOfParts ==
  ASSUME NEW s \in Seq(AField), NEW t \in Seq(AField)
  PROVE  SizeOf(s \o t) = SizeOf(s) + SizeOf(t)
<1> DEFINE st == s \o t
           m == Len(s)
           n == Len(t)
<1>1. /\ st \in Seq(AField) /\ Len(st) = m + n
      /\ \A i \in 1 .. m : st[i] = s[i]
      /\ \A i \in 1 .. n : st[m + i] = t[i]
  BY Concatenated
<1>2. m \in Nat /\ n \in Nat
  OBVIOUS
<1> HIDE DEF st
<1>3. PICK f : Sizes(f, s) /\ SizeOf(s) = f[m]
  BY SizeOfIs, Zenon
<1>4. PICK g : Sizes(g, t) /\ SizeOf(t) = g[n]
  BY SizeOfIs, Zenon
<1>5. PICK h : Sizes(h, st) /\ SizeOf(st) = h[Len(st)]
  BY <1>1, SizeOfIs, Zenon
<1>6. f[0] = 0 /\ (\A k \in 0 .. m - 1 : f[k + 1] = f[k] + s[k + 1].width) /\ \A k \in 0 .. m : f[k] \in Nat
  BY <1>3, SizesStep
<1>7. g[0] = 0 /\ (\A k \in 0 .. n - 1 : g[k + 1] = g[k] + t[k + 1].width) /\ \A k \in 0 .. n : g[k] \in Nat
  BY <1>4, SizesStep
<1>8. h[0] = 0 /\ (\A k \in 0 .. Len(st) - 1 : h[k + 1] = h[k] + st[k + 1].width)
  BY <1>1, <1>5, SizesStep
<1> HIDE DEF m, n
<1> DEFINE T == {k \in Nat : k <= m => h[k] = f[k]}
           U == {k \in Nat : k <= n => h[m + k] = f[m] + g[k]}
<1>9. \A k \in 0 .. m : h[k] = f[k]
  <2>1. 0 \in T
    BY <1>6, <1>8
  <2>2. ASSUME NEW k \in Nat, k \in T PROVE k + 1 \in T
    <3> SUFFICES ASSUME k + 1 <= m PROVE h[k + 1] = f[k + 1]
      OBVIOUS
    <3>1. k \in 0 .. m - 1 /\ k \in 0 .. Len(st) - 1 /\ k + 1 \in 1 .. m /\ h[k] = f[k]
      BY <1>1, <1>2, <2>2
    <3>2. h[k + 1] = h[k] + st[k + 1].width /\ f[k + 1] = f[k] + s[k + 1].width /\ st[k + 1] = s[k + 1]
      BY <1>1, <1>6, <1>8, <3>1
    <3> QED
      BY <3>1, <3>2
  <2> HIDE DEF T
  <2>3. Nat \subseteq T
    BY <2>1, <2>2, NatInductionOnSet
  <2> QED
    BY <2>3 DEF T
<1>10. \A k \in 0 .. n : h[m + k] = f[m] + g[k]
  <2>1. 0 \in U
    BY <1>2, <1>6, <1>7, <1>9
  <2>2. ASSUME NEW k \in Nat, k \in U PROVE k + 1 \in U
    <3> SUFFICES ASSUME k + 1 <= n PROVE h[m + (k + 1)] = f[m] + g[k + 1]
      OBVIOUS
    <3> DEFINE j == m + k
    <3>1. /\ k \in 0 .. n - 1 /\ j \in 0 .. Len(st) - 1 /\ k + 1 \in 1 .. n /\ h[j] = f[m] + g[k]
          /\ j + 1 = m + (k + 1)
      BY <1>1, <1>2, <2>2
    <3>2. st[m + (k + 1)] = t[k + 1]
      BY <1>1, <3>1
    <3>3. g[k + 1] = g[k] + t[k + 1].width
      BY <1>7, <3>1
    <3>4. h[j + 1] = h[j] + st[j + 1].width
      BY <1>8, <3>1
    <3>5. t[k + 1] \in AField
      BY <3>1, SeqElements DEF n
    <3>6. t[k + 1].width \in Nat /\ f[m] \in Nat /\ g[k] \in Nat
      BY <1>2, <1>6, <1>7, <3>1, <3>5 DEF AField
    <3> HIDE DEF j
    <3> QED
      BY SMTT(60), <3>1, <3>2, <3>3, <3>4, <3>6
  <2> HIDE DEF U
  <2>3. Nat \subseteq U
    BY <2>1, <2>2, NatInductionOnSet
  <2> QED
    BY <2>3 DEF U
<1>11. h[m + n] = f[m] + g[n]
  BY <1>2, <1>10
<1> QED
  BY <1>1, <1>3, <1>4, <1>5, <1>11 DEF st

-----------------------------------------------------------------------------
(* The inductive invariant of the rows.                                    *)

(* A text row whose n values mean row; what has been accepted so far.      *)
TextSoFar(packet, n, row) ==
  packet \in Seq(AField) /\ Len(packet) = n /\ \A i \in 1 .. n : ReadsText(packet[i]) = row[i]

MeantSoFar(row, n) ==
  (\E S : row \in Seq(S)) /\ Len(row) = n /\ \A i \in 1 .. n : InRange(row[i])

RowInv ==
  /\ columns \in Tables /\ is_bin \in BOOLEAN /\ col \in 0 .. Len(columns)
  /\ MeantSoFar(meant, col)
  /\ ~is_bin => TextSoFar(data, col, meant)
  /\ is_bin /\ col = 0 => data \in {<<>>, Header}
  /\ is_bin /\ col # 0 => RowSoFar(data, col, meant)

(* The columns of a table are columns.                                     *)
LEMMA ColumnsTyped ==
  ASSUME columns \in Tables
  PROVE  columns \in Seq(Column) /\ \A n \in 0 .. Len(columns) - 1 : columns[n + 1] \in Column
<1>1. columns \in Seq(Column)
  BY SMT, RowAssumption
<1>2. \A n \in 0 .. Len(columns) - 1 : n + 1 \in 1 .. Len(columns)
  BY <1>1
<1> QED
  BY <1>1, <1>2, SeqElements

(* A sequence and one more element.                                        *)
LEMMA AppendAny ==
  ASSUME NEW S, NEW s \in Seq(S), NEW x
  PROVE  /\ Append(s, x) \in Seq(S \cup {x}) /\ Len(Append(s, x)) = Len(s) + 1
         /\ \A i \in 1 .. Len(s) : Append(s, x)[i] = s[i]
         /\ Append(s, x)[Len(s) + 1] = x
<1>1. s \in Seq(S \cup {x})
  OBVIOUS
<1> QED
  BY <1>1

(* One more value in range.                                                *)
LEMMA MoreMeant ==
  ASSUME NEW n \in Nat, NEW row, MeantSoFar(row, n), NEW m, InRange(m)
  PROVE  MeantSoFar(Append(row, m), n + 1)
<1>1. PICK S : row \in Seq(S)
  BY Zenon DEF MeantSoFar
<1>2. Len(row) = n /\ \A i \in 1 .. n : InRange(row[i])
  BY Zenon DEF MeantSoFar
<1> DEFINE more == Append(row, m)
<1>3. /\ more \in Seq(S \cup {m}) /\ Len(more) = n + 1
      /\ \A i \in 1 .. n : more[i] = row[i]
      /\ more[n + 1] = m
  BY <1>1, <1>2, AppendAny
<1> HIDE DEF more
<1>4. ASSUME NEW i \in 1 .. n + 1 PROVE InRange(more[i])
  <2>1. CASE i = n + 1
    BY <1>3, <2>1
  <2>2. CASE i # n + 1
    <3>1. i \in 1 .. n
      BY <2>2
    <3>2. more[i] = row[i] /\ InRange(row[i])
      BY <1>2, <1>3, <3>1
    <3> QED
      BY <3>2, Zenon
  <2> QED
    BY <2>1, <2>2
<1> QED
  BY <1>3, <1>4, Zenon DEF MeantSoFar, more

(* A text value, added to the row.                                         *)
LEMMA TextAdded ==
  ASSUME NEW n \in Nat, NEW packet, NEW row, TextSoFar(packet, n, row), MeantSoFar(row, n),
         NEW e, NEW m, Shows(e, m)
  PROVE  TextSoFar(packet \o e, n + 1, Append(row, m))
<1>1. PICK S : row \in Seq(S)
  BY Zenon DEF MeantSoFar
<1>2. Len(row) = n
  BY Zenon DEF MeantSoFar
<1>3. e \in Seq(AField) /\ Len(e) = 1 /\ ReadsText(e[1]) = m
  BY Zenon DEF Shows
<1>4. packet \in Seq(AField) /\ Len(packet) = n /\ \A i \in 1 .. n : ReadsText(packet[i]) = row[i]
  BY Zenon DEF TextSoFar
<1> DEFINE longer == packet \o e
           more == Append(row, m)
<1>5. (\A i \in 1 .. n : more[i] = row[i]) /\ more[n + 1] = m
  BY <1>1, <1>2, AppendAny
<1>6. /\ longer \in Seq(AField) /\ Len(longer) = n + 1
      /\ \A i \in 1 .. n : longer[i] = packet[i]
      /\ longer[n + 1] = e[1]
  <2>0. packet \in Seq(AField) /\ e \in Seq(AField)
    BY <1>3, <1>4
  <2>1. /\ longer \in Seq(AField) /\ Len(longer) = Len(packet) + Len(e)
        /\ \A i \in 1 .. Len(packet) : longer[i] = packet[i]
        /\ \A i \in 1 .. Len(e) : longer[Len(packet) + i] = e[i]
    BY <2>0, Concatenated
  <2> HIDE DEF longer
  <2>2. 1 \in 1 .. Len(e)
    BY <1>3
  <2> QED
    BY <1>3, <1>4, <2>1, <2>2
<1> HIDE DEF longer, more
<1>7. ASSUME NEW i \in 1 .. n + 1 PROVE ReadsText(longer[i]) = more[i]
  <2>1. CASE i = n + 1
    BY <1>3, <1>5, <1>6, <2>1
  <2>2. CASE i # n + 1
    <3>1. i \in 1 .. n
      BY <2>2
    <3> QED
      BY <1>4, <1>5, <1>6, <3>1
  <2> QED
    BY <2>1, <2>2
<1> QED
  BY <1>6, <1>7, Zenon DEF TextSoFar, longer, more

(* The row as write_col finds it, its header written.                      *)
LEMMA RowStarted ==
  ASSUME RowInv
  PROVE  /\ data \in Seq(AField) /\ WithHeader \in Seq(AField)
         /\ Len(data) \in 0 .. Len(WithHeader) /\ SubSeq(WithHeader, 1, Len(data)) = data
         /\ is_bin => RowSoFar(WithHeader, col, meant)
         /\ ~is_bin => WithHeader = data
         /\ col # 0 => WithHeader = data
<1>1. columns \in Seq(Column) /\ is_bin \in BOOLEAN /\ col \in 0 .. Len(columns)
  BY ColumnsTyped, Zenon DEF RowInv
<1>2. CASE is_bin /\ col = 0
  <2>1. WithHeader = Header
    BY <1>2, Zenon DEF WithHeader
  <2>2. data \in {<<>>, Header}
    BY <1>2, Zenon DEF RowInv
  <2>3. Header \in Seq(AField)
    BY <1>1, HeaderIs
  <2>4. PICK S : meant \in Seq(S)
    BY Zenon DEF RowInv, MeantSoFar
  <2>5. Len(meant) = 0
    BY <1>2, Zenon DEF RowInv, MeantSoFar
  <2>6. meant = <<>>
    BY <2>4, <2>5
  <2>7. RowSoFar(Header, col, meant)
    BY <1>1, <1>2, <2>6, HeaderSoFar
  <2> DEFINE h == WithHeader
  <2>8. h \in Seq(AField) /\ (data = <<>> \/ data = h) /\ RowSoFar(h, col, meant)
    BY <2>1, <2>2, <2>3, <2>7
  <2> HIDE DEF h
  <2>9. data \in Seq(AField) /\ Len(data) \in 0 .. Len(h) /\ SubSeq(h, 1, Len(data)) = data
    <3>1. h \in Seq(AField)
      BY <2>8
    <3>2. CASE data = <<>>
      BY <3>1, <3>2
    <3>3. CASE data = h
      BY <3>1, <3>3
    <3> QED
      BY <2>8, <3>2, <3>3
  <2> QED
    BY <1>2, <2>8, <2>9 DEF h
<1>3. CASE is_bin /\ col # 0
  <2>1. WithHeader = data /\ RowSoFar(data, col, meant)
    BY <1>3, Zenon DEF WithHeader, RowInv
  <2>2. data \in Seq(AField)
    BY <2>1, Zenon DEF RowSoFar
  <2> QED
    BY <1>3, <2>1, <2>2
<1>4. CASE ~is_bin
  <2>1. WithHeader = data /\ TextSoFar(data, col, meant)
    BY <1>4, Zenon DEF WithHeader, RowInv
  <2>2. data \in Seq(AField)
    BY <2>1, Zenon DEF TextSoFar
  <2> QED
    BY <1>4, <2>1, <2>2
<1> QED
  BY <1>1, <1>2, <1>3, <1>4

Same == is_bin' = is_bin /\ columns' = columns

(* Writing a value leaves the header's length,                             *)
LEMMA HeaderStays ==
  ASSUME Same
  PROVE  Header' = Header
BY Zenon DEF Same, Header

(* and the row so far is what it is of the new state,                      *)
LEMMA RowStays ==
  ASSUME Same, NEW packet, NEW n, NEW row, RowSoFar(packet, n, row),
         data' = packet, col' = n, meant' = row
  PROVE  RowSoFar(data, col, meant)'
BY Zenon DEF Same, RowSoFar, ReadsOn, HasNulls, ValuesOf, HeaderLength

(* in text as in binary,                                                   *)
LEMMA TextStays ==
  ASSUME NEW packet, NEW n, NEW row, TextSoFar(packet, n, row), data' = packet, col' = n, meant' = row
  PROVE  TextSoFar(data, col, meant)'
BY Zenon DEF TextSoFar

(* and so is what the values mean.                                         *)
LEMMA MeantStays ==
  ASSUME NEW n, NEW row, MeantSoFar(row, n), col' = n, meant' = row
  PROVE  MeantSoFar(meant, col)'
BY Zenon DEF MeantSoFar

(* The invariant after a step, by its parts.                               *)
LEMMA RowInvAfter ==
  ASSUME RowInv, Same, col' \in 0 .. Len(columns), MeantSoFar(meant, col)',
         ~is_bin => TextSoFar(data, col, meant)',
         is_bin /\ col' = 0 => data' \in {<<>>, Header},
         is_bin /\ col' # 0 => RowSoFar(data, col, meant)'
  PROVE  RowInv'
<1>1. columns \in Tables /\ is_bin \in BOOLEAN
  BY Zenon DEF RowInv
<1>2. columns' = columns /\ is_bin' = is_bin /\ Header' = Header
  BY HeaderStays, Zenon DEF Same
<1> QED
  BY <1>1, <1>2, Zenon DEF RowInv

(* A step that leaves the row alone, or only begins it.                    *)
LEMMA RowLeft ==
  ASSUME RowInv, Same, UNCHANGED <<col, meant>>, data' = data \/ data' = WithHeader
  PROVE  RowInv'
<1>1. /\ is_bin => RowSoFar(WithHeader, col, meant)
      /\ ~is_bin => WithHeader = data
      /\ col # 0 => WithHeader = data
  BY RowStarted
<1>2. col' = col /\ meant' = meant /\ columns' = columns /\ is_bin' = is_bin /\ is_bin \in BOOLEAN
      /\ col \in 0 .. Len(columns)
  BY Zenon DEF Same, RowInv
<1>3. MeantSoFar(meant, col)'
  <2>1. MeantSoFar(meant, col)
    BY Zenon DEF RowInv
  <2> QED
    BY <1>2, <2>1, MeantStays
<1>4. CASE ~is_bin
  <2>1. data' = data
    BY <1>1, <1>4
  <2>2. TextSoFar(data, col, meant)
    BY <1>4, Zenon DEF RowInv
  <2>3. TextSoFar(data, col, meant)'
    BY <1>2, <2>1, <2>2, TextStays
  <2> QED
    BY <1>2, <1>3, <1>4, <2>3, RowInvAfter
<1>5. CASE is_bin /\ col = 0
  <2>1. data \in {<<>>, Header} /\ WithHeader = Header
    BY <1>5, Zenon DEF RowInv, WithHeader
  <2>2. data' \in {<<>>, Header}
    BY <2>1
  <2> QED
    BY <1>2, <1>3, <1>5, <2>2, RowInvAfter
<1>6. CASE is_bin /\ col # 0
  <2>1. data' = data /\ RowSoFar(data, col, meant)
    BY <1>1, <1>6
  <2>2. RowSoFar(data, col, meant)'
    BY <1>2, <2>1, RowStays
  <2> QED
    BY <1>2, <1>3, <1>6, <2>2, RowInvAfter
<1> QED
  BY <1>2, <1>4, <1>5, <1>6

(* A value that is accepted: its meaning is what the row now shows.        *)
LEMMA BinaryAccepted ==
  ASSUME RowInv, Same, is_bin, col < Len(columns), NEW packet, NEW m, InRange(m),
         RowSoFar(packet, col + 1, Append(meant, m)),
         data' = packet, col' = col + 1, meant' = Append(meant, m)
  PROVE  RowInv'
<1>1. col \in Nat /\ Len(columns) \in Nat /\ col + 1 \in 0 .. Len(columns) /\ col + 1 # 0
  <2>1. col \in 0 .. Len(columns) /\ columns \in Seq(Column)
    BY ColumnsTyped, Zenon DEF RowInv
  <2> QED
    BY <2>1
<1> DEFINE n == col + 1
           row == Append(meant, m)
<1>2. MeantSoFar(row, n)
  <2>1. MeantSoFar(meant, col)
    BY Zenon DEF RowInv
  <2> QED
    BY <1>1, <2>1, MoreMeant
<1>3. col' = n /\ meant' = row /\ n \in 0 .. Len(columns) /\ n # 0 /\ RowSoFar(packet, n, row)
  BY <1>1
<1> HIDE DEF n, row
<1>4. MeantSoFar(meant, col)'
  BY <1>2, <1>3, MeantStays
<1>5. RowSoFar(data, col, meant)'
  BY <1>3, RowStays
<1> QED
  BY <1>3, <1>4, <1>5, RowInvAfter

(* A value accepted in text keeps the invariant.                           *)
LEMMA TextAccepted ==
  ASSUME RowInv, Same, ~is_bin, col < Len(columns), NEW packet, NEW m, InRange(m),
         TextSoFar(packet, col + 1, Append(meant, m)),
         data' = packet, col' = col + 1, meant' = Append(meant, m)
  PROVE  RowInv'
<1>1. col \in Nat /\ Len(columns) \in Nat /\ col + 1 \in 0 .. Len(columns)
  <2>1. col \in 0 .. Len(columns) /\ columns \in Seq(Column)
    BY ColumnsTyped, Zenon DEF RowInv
  <2> QED
    BY <2>1
<1> DEFINE n == col + 1
           row == Append(meant, m)
<1>2. MeantSoFar(row, n)
  <2>1. MeantSoFar(meant, col)
    BY Zenon DEF RowInv
  <2> QED
    BY <1>1, <2>1, MoreMeant
<1>3. col' = n /\ meant' = row /\ n \in 0 .. Len(columns) /\ TextSoFar(packet, n, row)
  BY <1>1
<1> HIDE DEF n, row
<1>4. MeantSoFar(meant, col)'
  BY <1>2, <1>3, MeantStays
<1>5. TextSoFar(data, col, meant)'
  BY <1>3, TextStays
<1> QED
  BY <1>3, <1>4, <1>5, RowInvAfter

(* What an encoding writes is a sequence of fields.                        *)
LEMMA FieldsOfOutcome ==
  ASSUME NEW b, Outcome(b), b.ok => b.fields \in Seq(AField)
  PROVE  b.fields \in Seq(AField)
<1>1. CASE b.ok
  BY <1>1
<1>2. CASE b = Refused
  <2>1. Refused.fields = <<>>
    BY DEF Refused
  <2>2. <<>> \in Seq(AField)
    OBVIOUS
  <2> QED
    BY <1>2, <2>1, <2>2, Zenon
<1> QED
  BY <1>1, <1>2, Zenon DEF Outcome

(* write_col, whatever it is given.                                        *)
LEMMA WriteColKeeps ==
  ASSUME RowInv, Same, col < Len(columns), NEW v, Typed(v), WriteCol(v, Meaning(v))
  PROVE  RowInv'
<1> DEFINE c == columns[col + 1]
           m == Meaning(v)
           outcome == IF is_bin THEN ToMysqlBin(v, c) ELSE ToMysqlText(v, c)
<1>1. columns \in Seq(Column) /\ c \in Column /\ col \in 0 .. Len(columns) - 1 /\ col \in Nat
  <2>1. col \in 0 .. Len(columns) /\ columns \in Seq(Column)
        /\ \A n \in 0 .. Len(columns) - 1 : columns[n + 1] \in Column
    BY ColumnsTyped, Zenon DEF RowInv
  <2>2. col \in 0 .. Len(columns) - 1 /\ col \in Nat
    BY <2>1
  <2> QED
    BY <2>1, <2>2
<1>2. /\ data \in Seq(AField) /\ WithHeader \in Seq(AField)
      /\ Len(data) \in 0 .. Len(WithHeader) /\ SubSeq(WithHeader, 1, Len(data)) = data
      /\ is_bin => RowSoFar(WithHeader, col, meant)
      /\ ~is_bin => WithHeader = data
  BY RowStarted
<1>3. \/ /\ SizeOf(WithHeader) > MaxPacketSize
         /\ Refuses(data, v, <<>>)
      \/ /\ is_bin /\ IsNullValue(v)
         /\ \/ Refuses(WithHeader, v, <<>>)
            \/ Accepts(SetNullBit(WithHeader), m)
      \/ /\ is_bin /\ Unreachable(v)
         /\ UNCHANGED <<data, col, meant>>
      \/ /\ ~(is_bin /\ Unreachable(v)) /\ outcome.ok
         /\ Accepts(WithHeader \o outcome.fields, m)
      \/ /\ ~(is_bin /\ Unreachable(v)) /\ ~(SizeOf(WithHeader) > MaxPacketSize)
         /\ Refuses(AfterRefusal(WithHeader, outcome.fields), v, outcome.fields)
  BY Zenon DEF WriteCol
<1>4. CASE SizeOf(WithHeader) > MaxPacketSize /\ Refuses(data, v, <<>>)
  BY <1>4, RowLeft, Zenon DEF Refuses
<1>5. CASE is_bin /\ IsNullValue(v) /\ Refuses(WithHeader, v, <<>>)
  BY <1>5, RowLeft, Zenon DEF Refuses
<1>6. CASE is_bin /\ IsNullValue(v) /\ Accepts(SetNullBit(WithHeader), m)
  <2>1. m = NullMeaning
    <3>1. Unwrapped(v).type \in {"None", "NULL"}
      BY <1>6 DEF IsNullValue, Unwrapped
    <3> QED
      BY <3>1, MeaningIs, Zenon DEF NullMeaning
  <2>2. RowSoFar(SetNullBit(WithHeader), col + 1, Append(meant, NullMeaning))
    BY <1>1, <1>2, <1>6, NullAdded
  <2>3. InRange(NullMeaning)
    BY Unbounded DEF NullMeaning
  <2>4. data' = SetNullBit(WithHeader) /\ col' = col + 1 /\ meant' = Append(meant, NullMeaning)
    BY <1>6, <2>1, Zenon DEF Accepts
  <2> HIDE DEF m, c, outcome
  <2> QED
    BY <1>6, <2>2, <2>3, <2>4, BinaryAccepted
<1>7. CASE is_bin /\ UNCHANGED <<data, col, meant>>
  BY <1>7, RowLeft, Zenon
<1>8. CASE ~(is_bin /\ Unreachable(v)) /\ outcome.ok /\ Accepts(WithHeader \o outcome.fields, m)
  <2>1. data' = WithHeader \o outcome.fields /\ col' = col + 1 /\ meant' = Append(meant, m)
    BY <1>8, Zenon DEF Accepts
  <2>2. CASE is_bin
    <3>1. Carries(c, outcome.fields, m)
      <4>1. c.unsigned \in BOOLEAN
        BY <1>1, ColumnIs
      <4>2. outcome = ToMysqlBin(v, c) /\ ~Unreachable(v)
        BY <1>8, <2>2
      <4> QED
        BY <1>8, <4>1, <4>2, BinaryCarries
    <3>2. InRange(m)
      BY <3>1, Zenon DEF Carries
    <3> HIDE DEF outcome, m
    <3>3. RowSoFar(WithHeader \o outcome.fields, col + 1, Append(meant, m))
      BY <1>1, <1>2, <2>2, <3>1, FieldsAdded
    <3> HIDE DEF c
    <3> QED
      BY <2>1, <2>2, <3>2, <3>3, BinaryAccepted
  <2>3. CASE ~is_bin
    <3>1. Shows(outcome.fields, m)
      BY <1>8, <2>3, TextShows
    <3>2. InRange(m)
      BY <3>1, Zenon DEF Shows
    <3>3. TextSoFar(data, col, meant) /\ MeantSoFar(meant, col) /\ WithHeader = data
      BY <1>2, <2>3, Zenon DEF RowInv
    <3> HIDE DEF outcome, m, c
    <3>4. TextSoFar(WithHeader \o outcome.fields, col + 1, Append(meant, m))
      BY <1>1, <3>1, <3>3, TextAdded
    <3> QED
      BY <2>1, <2>3, <3>2, <3>4, TextAccepted
  <2> QED
    BY <2>2, <2>3
<1>9. CASE /\ ~(is_bin /\ Unreachable(v)) /\ ~(SizeOf(WithHeader) > MaxPacketSize)
           /\ Refuses(AfterRefusal(WithHeader, outcome.fields), v, outcome.fields)
  <2>1. outcome.fields \in Seq(AField)
    <3>1. CASE is_bin
      <4>1. outcome = ToMysqlBin(v, c) /\ ~Unreachable(v) /\ c.unsigned \in BOOLEAN
        BY <1>1, <1>9, <3>1, ColumnIs
      <4>2. ASSUME outcome.ok PROVE outcome.fields \in Seq(AField)
        <5>1. Carries(c, outcome.fields, m)
          BY <4>1, <4>2, BinaryCarries
        <5> QED
          BY <5>1, Zenon DEF Carries
      <4>3. Outcome(outcome)
        BY <4>1, BinaryOutcome
      <4> HIDE DEF outcome
      <4> QED
        BY <4>2, <4>3, FieldsOfOutcome
    <3>2. CASE ~is_bin
      <4>1. outcome = ToMysqlText(v, c)
        BY <3>2
      <4>2. ASSUME outcome.ok PROVE outcome.fields \in Seq(AField)
        <5>1. Shows(outcome.fields, m)
          BY <4>1, <4>2, TextShows
        <5> QED
          BY <5>1, Zenon DEF Shows
      <4>3. Outcome(outcome)
        BY <4>1, TextOutcome
      <4> HIDE DEF outcome
      <4> QED
        BY <4>2, <4>3, FieldsOfOutcome
    <3> QED
      BY <3>1, <3>2
  <2> DEFINE fields == outcome.fields
  <2>2. SizeOf(WithHeader) <= MaxPacketSize
    <3>1. SizeOf(WithHeader) \in Nat /\ MaxPacketSize \in Nat
      BY <1>2, SMT, SizeOfType, RowAssumption
    <3> QED
      BY <1>9, <3>1
  <2>3. data' = AfterRefusal(WithHeader, fields) /\ UNCHANGED <<col, meant>>
    BY <1>9, Zenon DEF Refuses
  <2> HIDE DEF fields
  <2>4. AfterRefusal(WithHeader, fields) = data
    <3>1. fields \in Seq(AField)
      BY <2>1 DEF fields
    <3>2. SubSeq(WithHeader \o Fitting(WithHeader, fields), 1, Len(data)) = SubSeq(WithHeader, 1, Len(data))
      BY <1>2, <2>2, <3>1, TruncatedBack
    <3> QED
      BY <1>2, <3>2, Zenon DEF AfterRefusal
  <2> QED
    BY <2>3, <2>4, RowLeft
<1> QED
  BY <1>3, <1>4, <1>5, <1>6, <1>7, <1>8, <1>9, Zenon

(* The row is read as it is meant, once each of its values is written.     *)
LEMMA BinaryRowReads ==
  ASSUME RowInv, is_bin, col = Len(columns)
  PROVE  ReadsRow(is_bin, columns, data) = meant
<1>1. columns \in Seq(Column)
  BY ColumnsTyped, Zenon DEF RowInv
<1>2. ASSUME RowSoFar(data, col, meant) PROVE ReadsRow(is_bin, columns, data) = meant
  <2>1. data \in Seq(AField) /\ HeaderLength <= Len(data)
    BY <1>2, Zenon DEF RowSoFar
  <2>2. PICK nulls : ReadsOn(data, nulls, col, meant)
    BY <1>2, Zenon DEF RowSoFar
  <2> DEFINE left == ValuesOf(data)
  <2>3. left \in Seq(AField)
    <3>1. HeaderLength \in Nat
      BY <1>1, HeaderLengthIs
    <3> QED
      BY <2>1, <3>1 DEF ValuesOf
  <2>4. <<>> \in Seq(AField) /\ left \o <<>> = left
    BY <2>3
  <2>5. Reads(columns, nulls, left \o <<>>, col, meant, <<>>)
    BY <2>2, <2>4, Zenon DEF ReadsOn
  <2>6. Reads(columns, nulls, left, Len(columns), meant, <<>>)
    BY <2>4, <2>5
  <2>7. HasNulls(data, nulls)
    BY <2>2, Zenon DEF ReadsOn
  <2> QED
    BY <1>1, <2>1, <2>6, <2>7, RowReads DEF ValuesOf
<1>3. CASE col # 0
  <2>1. RowSoFar(data, col, meant)
    BY <1>3, Zenon DEF RowInv
  <2> QED
    BY <1>2, <2>1
<1>4. CASE col = 0
  <2>1. data \in {<<>>, Header}
    BY <1>4, Zenon DEF RowInv
  <2>2. PICK S : meant \in Seq(S)
    BY Zenon DEF RowInv, MeantSoFar
  <2>3. Len(meant) = 0
    BY <1>4, Zenon DEF RowInv, MeantSoFar
  <2>4. meant = <<>>
    BY <2>2, <2>3
  <2>5. CASE data = <<>>
    BY <1>1, <2>4, <2>5, ShortRowReads
  <2>6. CASE data = Header
    <3>1. RowSoFar(data, col, meant)
      BY <1>1, <1>4, <2>4, <2>6, HeaderSoFar
    <3> QED
      BY <1>2, <3>1
  <2> QED
    BY <2>1, <2>5, <2>6
<1> QED
  BY <1>3, <1>4

(* A text row is read as it is meant.                                      *)
LEMMA TextRowReads ==
  ASSUME RowInv, ~is_bin
  PROVE  ReadsRow(is_bin, columns, data) = meant
<1>1. data \in Seq(AField) /\ Len(data) = col /\ \A i \in 1 .. col : ReadsText(data[i]) = meant[i]
  BY Zenon DEF RowInv, TextSoFar
<1>2. PICK S : meant \in Seq(S)
  BY Zenon DEF RowInv, MeantSoFar
<1>3. Len(meant) = col
  BY Zenon DEF RowInv, MeantSoFar
<1>4. ReadsRow(is_bin, columns, data) = [i \in DOMAIN data |-> ReadsText(data[i])]
  BY Zenon DEF ReadsRow
<1>5. DOMAIN data = 1 .. col /\ DOMAIN meant = 1 .. col
  BY <1>1, <1>2, <1>3
<1>6. meant = [i \in 1 .. col |-> meant[i]]
  BY <1>2, <1>5
<1> QED
  BY <1>1, <1>4, <1>5, <1>6, Zenon

(* The reading is of the column list alone, which does not change.         *)
LEMMA ReadsRowStays ==
  ASSUME Same, NEW packet, NEW row, ReadsRow(is_bin, columns, packet) = row,
         sent' = <<[packet |-> packet, meant |-> row]>>,
         \A i \in DOMAIN columns : InRange(row[i])
  PROVE  RowDecodes'
<1>1. sent'[1].packet = packet /\ sent'[1].meant = row
  OBVIOUS
<1>2. sent' # <<>> => /\ ReadsRow(is_bin, columns, sent[1].packet)' = sent'[1].meant
                      /\ \A i \in DOMAIN columns' : InRange(sent'[1].meant[i])
  BY <1>1, Zenon DEF Same
<1> QED
  BY <1>2, Zenon DEF RowDecodes

(* The invariant of a row of which nothing is written.                     *)
LEMMA RowBegins ==
  ASSUME columns \in Tables, is_bin \in BOOLEAN, data = <<>>, col = 0, meant = <<>>
  PROVE  RowInv
<1>1. columns \in Seq(Column)
  BY ColumnsTyped
<1>2. 0 \in 0 .. Len(columns)
  BY <1>1
<1>3. MeantSoFar(<<>>, 0)
  <2>1. <<>> \in Seq({}) /\ Len(<<>>) = 0 /\ ~(\E i \in 1 .. 0 : TRUE)
    OBVIOUS
  <2> QED
    BY <2>1 DEF MeantSoFar
<1>4. TextSoFar(<<>>, 0, <<>>)
  <2>1. <<>> \in Seq(AField) /\ Len(<<>>) = 0 /\ ~(\E i \in 1 .. 0 : TRUE)
    OBVIOUS
  <2> QED
    BY <2>1 DEF TextSoFar
<1> QED
  BY <1>2, <1>3, <1>4 DEF RowInv

(* end_row sends the row and starts another.                               *)
LEMMA RowEnds ==
  ASSUME RowInv, EndRow
  PROVE  RowInv' /\ RowDecodes'
<1>1. /\ col = Len(columns) /\ Same /\ sent' = <<[packet |-> data, meant |-> meant]>>
      /\ data' = <<>> /\ col' = 0 /\ meant' = <<>>
  BY Zenon DEF EndRow, Same
<1>2. columns \in Seq(Column) /\ columns \in Tables /\ is_bin \in BOOLEAN
  BY ColumnsTyped, Zenon DEF RowInv
<1>3. RowInv'
  <2>1. columns' \in Tables /\ is_bin' \in BOOLEAN
    BY <1>1, <1>2, Zenon DEF Same
  <2>2. (columns \in Tables /\ is_bin \in BOOLEAN /\ data = <<>> /\ col = 0 /\ meant = <<>> => RowInv)'
    BY RowBegins, PTL
  <2> QED
    BY <1>1, <2>1, <2>2
<1>4. ReadsRow(is_bin, columns, data) = meant
  BY <1>1, <1>2, BinaryRowReads, TextRowReads
<1>5. \A i \in DOMAIN columns : InRange(meant[i])
  <2>1. DOMAIN columns = 1 .. col
    BY <1>1, <1>2
  <2> QED
    BY <2>1, Zenon DEF RowInv, MeantSoFar
<1> QED
  BY <1>1, <1>3, <1>4, <1>5, ReadsRowStays

(* A value of the backend's own keeps the invariant,                       *)
LEMMA OwnKeeps ==
  ASSUME RowInv, WriteOwn
  PROVE  RowInv' /\ RowDecodes'
<1>1. PICK v \in Values(col) : WriteCol(v, Meaning(v))
  BY Zenon DEF WriteOwn
<1>2. Same /\ col < Len(columns) /\ sent' = <<>>
  BY Zenon DEF WriteOwn, CanWrite, Same
<1>3. col \in 0 .. Len(columns) - 1 /\ columns \in Tables
  <2>1. col \in 0 .. Len(columns) /\ columns \in Seq(Column) /\ columns \in Tables
    BY ColumnsTyped, Zenon DEF RowInv
  <2> QED
    BY <1>2, <2>1
<1>4. Typed(v)
  BY <1>3, SMT, RowAssumption
<1>5. RowInv'
  BY <1>1, <1>2, <1>4, WriteColKeeps
<1> QED
  BY <1>2, <1>5 DEF RowDecodes

(* and so does a parameter that is converted and written,                  *)
LEMMA EchoKeeps ==
  ASSUME RowInv, WriteEcho
  PROVE  RowInv' /\ RowDecodes'
<1> DEFINE c == columns[col + 1]
<1>1. PICK p \in ParamFields(c), type \in RustTypes :
        LET meaning == ReadsValue(c, p).meaning
            converted == TryFrom(type, ParseFrom(p, c))
        IN  IF converted = {}
              THEN /\ refusal' = <<[type |-> type, meaning |-> meaning, column |-> c]>>
                   /\ UNCHANGED <<data, col, panicked, meant>>
              ELSE \E v \in converted : WriteCol(v, meaning)
  BY Zenon DEF WriteEcho
<1>2. Same /\ col < Len(columns) /\ sent' = <<>>
  BY Zenon DEF WriteEcho, CanWrite, Same
<1>3. c \in Column
  <2>1. col \in 0 .. Len(columns) /\ columns \in Seq(Column)
        /\ \A n \in 0 .. Len(columns) - 1 : columns[n + 1] \in Column
    BY ColumnsTyped, Zenon DEF RowInv
  <2>2. col \in 0 .. Len(columns) - 1
    BY <1>2, <2>1
  <2> QED
    BY <2>1, <2>2
<1> DEFINE meaning == ReadsValue(c, p).meaning
           converted == TryFrom(type, ParseFrom(p, c))
<1>4. Echoes(type, c, ParseFrom(p, c), meaning)
  BY <1>3, ParameterEchoes
<1> HIDE DEF c
<1>5. CASE converted = {}
  <2>1. UNCHANGED <<data, col, meant>>
    BY <1>1, <1>5
  <2>2. RowInv'
    BY <1>2, <2>1, RowLeft
  <2> QED
    BY <1>2, <2>2 DEF RowDecodes
<1>6. CASE converted # {}
  <2>1. PICK v \in converted : WriteCol(v, meaning)
    BY <1>1, <1>6
  <2>2. Typed(v) /\ Meaning(v) = meaning
    BY <1>4, <2>1, Zenon DEF Echoes
  <2> HIDE DEF meaning, converted
  <2>3. WriteCol(v, Meaning(v))
    BY <2>1, <2>2
  <2>4. RowInv'
    BY <1>2, <2>2, <2>3, WriteColKeeps
  <2> QED
    BY <1>2, <2>4 DEF RowDecodes
<1> QED
  BY <1>5, <1>6

(* and a step that changes nothing.                                        *)
LEMMA RowUntouched ==
  ASSUME RowInv, UNCHANGED vars
  PROVE  RowInv' /\ (RowDecodes => RowDecodes')
<1>1. Same /\ UNCHANGED <<data, col, meant, sent>>
  BY DEF vars, Same
<1>2. RowInv'
  BY <1>1, RowLeft
<1>3. RowDecodes => RowDecodes'
  BY <1>1, Zenon DEF RowDecodes, Same
<1> QED
  BY <1>2, <1>3

(* The invariant is inductive, and the rows sent are read as they were     *)
(* meant.                                                                  *)
LEMMA RowInvInductive ==
  ASSUME RowInv, [Next]_vars
  PROVE  RowInv' /\ (RowDecodes => RowDecodes')
<1>1. CASE WriteOwn
  BY <1>1, OwnKeeps
<1>2. CASE WriteEcho
  BY <1>2, EchoKeeps
<1>3. CASE EndRow
  BY <1>3, RowEnds
<1>4. CASE UNCHANGED vars
  BY <1>4, RowUntouched
<1> QED
  BY <1>1, <1>2, <1>3, <1>4 DEF Next

(* Every row that write_col and end_row (resultset.rs) send, of any table, *)
(* in either protocol, is read by a client that decodes it by the protocol *)
(* as the values the backend meant.                                        *)
THEOREM RowsDecode == Spec => []RowDecodes
<1>1. Init => RowInv /\ RowDecodes
  <2> SUFFICES ASSUME Init PROVE RowInv /\ RowDecodes
    OBVIOUS
  <2>1. RowInv
    BY RowBegins DEF Init
  <2>2. RowDecodes
    BY DEF Init, RowDecodes
  <2> QED
    BY <2>1, <2>2
<1>2. RowInv /\ RowDecodes /\ [Next]_vars => (RowInv /\ RowDecodes)'
  BY RowInvInductive
<1> QED
  BY <1>1, <1>2, PTL DEF Spec

-----------------------------------------------------------------------------
(* The values that are written: the converse, for the refusals.            *)

Oks(accepted, b) == accepted => b.ok

(* An encoding that is accepted succeeds.                                  *)
LEMMA IfOk ==
  ASSUME NEW accepted, NEW fields
  PROVE  Oks(accepted, If(accepted, fields))
BY DEF If, Writes, Oks

(* An integer column that holds a type's least and greatest value takes    *)
(* all of them.                                                            *)
LEMMA SizedTypeWritten ==
  ASSUME NEW type \in SizedTypes, NEW c \in Column, IsInteger(c), HoldsAll(c, type),
         NEW n \in RangeOf(RustWidth[type], RustSigned(type))
  PROVE  EncodeSized(RustWidth[type], RustSigned(type), n, c).ok
<1> DEFINE w == RustWidth[type]
           x == Width(c)
           signed == RustSigned(type)
           accepted == /\ IsInteger(c)
                       /\ \/ Width(c) = w /\ Signed(c) = signed
                          \/ Width(c) > w /\ (Signed(c) \/ n >= 0)
<1>1. w \in ByteWidths /\ signed \in BOOLEAN
  BY RustIntegers
<1>2. x \in ByteWidths
  BY ColumnWidth
<1>3. c.unsigned \in BOOLEAN /\ (Signed(c) <=> ~c.unsigned) /\ Signed(c) \in BOOLEAN
  BY ColumnIs DEF Signed
<1>4. Half[w] \in Nat \ {0} /\ Half[x] \in Nat \ {0}
  BY <1>1, <1>2, HalfIsPositive
<1>5. (w < x => 2 * Half[w] <= Half[x]) /\ (x < w => 2 * Half[x] <= Half[w])
  BY <1>1, <1>2, WidthAssumption DEF ByteWidths
<1>6. x \in Nat /\ w \in Nat
  BY <1>1, <1>2 DEF ByteWidths
<1>7. /\ Least(type) = IF signed THEN -Half[w] ELSE 0
      /\ Greatest(type) = (IF signed THEN 1 ELSE 2) * Half[w] - 1
  BY DEF Least, Greatest
<1>8. Least(type) \in RangeOf(x, Signed(c)) /\ Greatest(type) \in RangeOf(x, Signed(c))
  BY DEF HoldsAll, Holds
<1> HIDE DEF w, x, signed
<1>9. accepted
  <2>1. CASE signed
    <3>1. Least(type) = -Half[w] /\ Greatest(type) = Half[w] - 1
      BY <1>4, <1>7, <2>1
    <3>2. Signed(c)
      <4>1. SUFFICES ASSUME ~Signed(c) PROVE FALSE
        OBVIOUS
      <4>2. -Half[w] \in 0 .. 2 * Half[x] - 1
        BY <1>8, <3>1, <4>1 DEF RangeOf
      <4> QED
        BY <1>4, <4>2
    <3>3. Half[w] <= Half[x]
      <4>1. -Half[w] \in -Half[x] .. Half[x] - 1
        BY <1>8, <3>1, <3>2 DEF RangeOf
      <4> QED
        BY <1>4, <4>1
    <3>4. x = w \/ x > w
      BY <1>4, <1>5, <1>6, <3>3
    <3>5. Signed(c) = signed
      BY <1>1, <1>3, <2>1, <3>2
    <3> QED
      BY <3>2, <3>4, <3>5 DEF x
  <2>2. CASE ~signed
    <3>1. Greatest(type) = 2 * Half[w] - 1
      BY <1>4, <1>7, <2>2
    <3>2. n >= 0
      <4>1. n \in RangeOf(w, signed)
        BY DEF w, signed
      <4> QED
        BY <1>4, <2>2, <4>1 DEF RangeOf
    <3>3. CASE Signed(c)
      <4>1. 2 * Half[w] - 1 \in -Half[x] .. Half[x] - 1
        BY <1>8, <3>1, <3>3 DEF RangeOf
      <4>2. 2 * Half[w] <= Half[x]
        BY <1>4, <4>1
      <4>3. x # w
        BY <1>4, <4>2
      <4>4. x > w
        BY <1>4, <1>5, <1>6, <4>2, <4>3
      <4> QED
        BY <3>3, <4>4 DEF x
    <3>4. CASE ~Signed(c)
      <4>1. 2 * Half[w] - 1 \in 0 .. 2 * Half[x] - 1
        BY <1>8, <3>1, <3>4 DEF RangeOf
      <4>2. x = w \/ x > w
        BY <1>4, <1>5, <1>6, <4>1
      <4>3. Signed(c) = signed
        BY <1>1, <1>3, <2>2, <3>4
      <4> QED
        BY <3>2, <4>2, <4>3 DEF x
    <3> QED
      BY <3>3, <3>4
  <2> QED
    BY <2>1, <2>2
<1>10. EncodeSized(w, signed, n, c) = If(accepted, Integer(n, c))
  BY Zenon DEF EncodeSized
<1> HIDE DEF accepted
<1> QED
  BY <1>9, <1>10, IfOk, Zenon DEF Oks, w, signed

(* A wider column takes the numbers it holds.                              *)
LEMMA SizedWritten ==
  ASSUME NEW type \in SizedTypes, NEW c \in Column, NEW n \in RangeOf(RustWidth[type], RustSigned(type)),
         Holds(c, n), Width(c) > RustWidth[type] \/ HoldsAll(c, type)
  PROVE  EncodeSized(RustWidth[type], RustSigned(type), n, c).ok
<1> DEFINE w == RustWidth[type]
           signed == RustSigned(type)
           accepted == /\ IsInteger(c)
                       /\ \/ Width(c) = w /\ Signed(c) = signed
                          \/ Width(c) > w /\ (Signed(c) \/ n >= 0)
<1>1. IsInteger(c) /\ n \in RangeOf(Width(c), Signed(c))
  BY Zenon DEF Holds
<1>2. CASE HoldsAll(c, type)
  BY <1>1, <1>2, SizedTypeWritten
<1>3. CASE Width(c) > w
  <2>1. ~Signed(c) => n >= 0
    <3>1. Half[Width(c)] \in Nat \ {0}
      BY <1>1, ColumnWidth, HalfIsPositive
    <3> QED
      BY <1>1, <3>1 DEF RangeOf
  <2>2. accepted
    BY <1>1, <1>3, <2>1
  <2>3. EncodeSized(w, signed, n, c) = If(accepted, Integer(n, c))
    BY Zenon DEF EncodeSized
  <2> HIDE DEF accepted
  <2> QED
    BY <2>2, <2>3, IfOk, Zenon DEF Oks, w, signed
<1> QED
  BY <1>2, <1>3

(* What the protocol can represent, type by type.                          *)
LEMMA RepresentableIs ==
  ASSUME NEW v, Representable(v)
  PROVE  LET x == Unwrapped(v)
         IN  /\ x.type = "NaiveDate" => ChronoYear(x.is)
             /\ x.type = "NaiveDateTime" => ValidChronoDatetime(x.is)
             /\ x.type = "Date" => ValidDate(x.is)
             /\ x.type = "Duration" => InTimeRange(x.is.secs, x.is.ns \div 1000)
             /\ x.type = "Time" => ValidTimeParts(x.is) /\ InTimeRange(OfTime(x.is).secs, x.is.us)
BY SMT DEF Representable, ValidChronoDatetime

(* Suits and Representable, spelt out.                                     *)
LEMMA SuitsIs ==
  ASSUME NEW v, NEW c, Suits(v, c), Representable(v)
  PROVE  LET x == Unwrapped(v)
             m == Meaning(v).parts
         IN  /\ x.type \in SizedTypes \cup {"usize", "isize", "Int", "UInt"} => Holds(c, x.is)
             /\ x.type \in SizedTypes => Width(c) > RustWidth[x.type] \/ HoldsAll(c, x.type)
             /\ x.type = "UInt" => HoldsAll(c, "u64")
             /\ x.type \in {"f32", "Float"} => c.type \in {"FLOAT", "DOUBLE"}
             /\ x.type \in {"f64", "Double"} => c.type = "DOUBLE"
             /\ x.type \in {"bytes", "Bytes"} => c.type = "STRING"
             /\ x.type = "NaiveDate" => c.type = "DATE" /\ ChronoYear(x.is)
             /\ x.type = "NaiveDateTime" => c.type = "DATETIME" /\ ValidChronoDatetime(x.is)
             /\ x.type = "Date" => /\ ValidDate(x.is)
                                   /\ \/ c.type = "DATETIME"
                                      \/ c.type = "DATE" /\ \A i \in 4 .. 7 : m[i] = 0
             /\ x.type = "Duration" => c.type = "TIME" /\ InTimeRange(x.is.secs, x.is.ns \div 1000)
             /\ x.type = "Time" => c.type = "TIME" /\ ValidTimeParts(x.is)
                                   /\ InTimeRange(OfTime(x.is).secs, x.is.us)
<1> DEFINE x == Unwrapped(v)
           meaning == Meaning(v)
<1>1. DOMAIN RustInteger = SizedTypes
  BY RustIntegers
<1>2. TypeFits(v, c) /\ CanHold(c, meaning)
  BY Zenon DEF Suits
<1>3. /\ x.type \in {"bytes", "Bytes"} => meaning.form = "string"
      /\ x.type = "Date" => meaning.form = "moment"
      /\ x.type \in {"Duration", "Time"} => meaning.form = "time"
      /\ x.type \in SizedTypes \cup {"usize", "isize", "Int", "UInt"} =>
           meaning.form = "number" /\ meaning.parts[1] = x.is
  <2> DEFINE duration == DurationMeaning(x.is)
             time == TimeMeaning(x.is)
  <2>1. /\ x.type \in {"bytes", "Bytes"} => meaning = Means("string", x.is)
        /\ x.type = "Date" => meaning = Means("moment", MomentParts(x.is, x.is.us))
        /\ x.type = "Duration" => meaning = duration
        /\ x.type = "Time" => meaning = time
        /\ x.type \notin {"None", "NULL", "bytes", "Bytes", "NaiveDate", "NaiveDateTime", "Duration",
                          "Date", "Time"}
             => meaning = Means("number", <<x.is>>)
    BY MeaningIs, ZenonT(90)
  <2>2. duration.form = "time" /\ time.form = "time"
    BY DEF DurationMeaning, TimeMeaning, Time, Means
  <2>3. \A form, parts : Means(form, parts).form = form /\ Means(form, parts).parts = parts
    BY DEF Means
  <2>4. <<x.is>>[1] = x.is
    OBVIOUS
  <2> HIDE DEF x, meaning, duration, time
  <2> QED
    BY <2>1, <2>2, <2>3, <2>4 DEF SizedTypes
<1>4. IsInteger(c) => c.type \notin {"FLOAT", "DOUBLE"}
  BY DEF IsInteger, IntegerWidth
<1>5. /\ x.type \in SizedTypes \cup {"usize", "isize", "Int", "UInt"} => IsInteger(c)
      /\ x.type \in SizedTypes => Width(c) > RustWidth[x.type] \/ HoldsAll(c, x.type)
      /\ x.type = "UInt" => HoldsAll(c, "u64")
      /\ x.type \in {"f32", "Float"} => c.type \in {"FLOAT", "DOUBLE"}
      /\ x.type \in {"f64", "Double"} => c.type = "DOUBLE"
      /\ x.type = "NaiveDate" => c.type = "DATE"
      /\ x.type = "NaiveDateTime" => c.type = "DATETIME"
  BY <1>1, <1>2, Zenon DEF TypeFits
<1>6. /\ meaning.form = "number" => Holds(c, meaning.parts[1]) \/ c.type \in {"FLOAT", "DOUBLE"}
      /\ meaning.form = "string" => c.type = "STRING"
      /\ meaning.form = "moment" =>
           c.type = "DATETIME" \/ (c.type = "DATE" /\ \A i \in 4 .. 7 : meaning.parts[i] = 0)
      /\ meaning.form = "time" => c.type = "TIME"
  BY <1>2, Zenon DEF CanHold
<1>7. /\ x.type = "NaiveDate" => ChronoYear(x.is)
      /\ x.type = "NaiveDateTime" => ValidChronoDatetime(x.is)
      /\ x.type = "Date" => ValidDate(x.is)
      /\ x.type = "Duration" => InTimeRange(x.is.secs, x.is.ns \div 1000)
      /\ x.type = "Time" => ValidTimeParts(x.is) /\ InTimeRange(OfTime(x.is).secs, x.is.us)
  BY RepresentableIs
<1> HIDE DEF x, meaning
<1>8. x.type \in SizedTypes \cup {"usize", "isize", "Int", "UInt"} => Holds(c, x.is)
  BY <1>3, <1>4, <1>5, <1>6
<1>9. /\ x.type \in {"bytes", "Bytes"} => c.type = "STRING"
      /\ x.type \in {"Duration", "Time"} => c.type = "TIME"
      /\ x.type = "Date" =>
           c.type = "DATETIME" \/ (c.type = "DATE" /\ \A i \in 4 .. 7 : meaning.parts[i] = 0)
  BY <1>3, <1>6
<1> QED
  BY <1>5, <1>7, <1>8, <1>9, Zenon DEF x, meaning

(* A duration in the protocol's range passes the encoders' check.          *)
LEMMA InRangeIsValid ==
  ASSUME NEW dur, dur.secs \in Nat, dur.us \in Nat, InTimeRange(dur.secs, dur.us)
  PROVE  ValidDuration(dur)
BY SMT DEF InTimeRange, ValidDuration, MaxSeconds

(* The parts of a date without a time of day are zero.                     *)
LEMMA DateOnly ==
  ASSUME NEW t, NEW parts, parts = MomentParts(t, t.us)
  PROVE  (\A i \in 4 .. 7 : parts[i] = 0) <=> ~TimeOfDay(t) /\ t.us = 0
<1>1. parts[4] = t.h /\ parts[5] = t.mi /\ parts[6] = t.s /\ parts[7] = t.us
  BY DEF MomentParts
<1>2. (\A i \in 4 .. 7 : parts[i] = 0) <=> t.h = 0 /\ t.mi = 0 /\ t.s = 0 /\ t.us = 0
  BY <1>1
<1>3. ~TimeOfDay(t) <=> t.h = 0 /\ t.mi = 0 /\ t.s = 0
  BY DEF TimeOfDay
<1> QED
  BY <1>2, <1>3, Zenon

(* A Value::Int that fits its integer column is written.                   *)
LEMMA ValueIntWritten ==
  ASSUME NEW n, FitsI64(n), NEW c, c.unsigned \in BOOLEAN, IsInteger(c),
         n \in RangeOf(Width(c), Signed(c))
  PROVE  EncodeValueInt(n, c).ok
<1> DEFINE holds == {w \in DOMAIN Half : n \in RangeOf(w, Signed(c))}
           w == CHOOSE w \in holds : \A x \in holds : w <= x
<1>1. Signed(c) \in BOOLEAN
  BY DEF Signed
<1>2. n \in Int /\ Half[Width(c)] \in Nat \ {0} /\ Width(c) \in ByteWidths
  BY ColumnWidth, HalfIsPositive DEF FitsI64, RangeOf, ByteWidths
<1>3. Signed(c) \/ n >= 0
  BY <1>1, <1>2 DEF RangeOf
<1>4. w \in holds /\ \A x \in holds : w <= x
  BY <1>1, <1>3, SmallestHolder DEF FitsI64
<1>5. EncodeValueInt(n, c) = EncodeSized(w, Signed(c), n, c)
  BY <1>2, <1>3 DEF EncodeValueInt
<1>6. DOMAIN Half = ByteWidths
  BY WidthAssumption DEF ByteWidths
<1>7. w \in ByteWidths /\ w <= Width(c)
  BY <1>2, <1>4, <1>6
<1> HIDE DEF w
<1>8. Width(c) = w \/ Width(c) > w
  BY <1>2, <1>7 DEF ByteWidths
<1> QED
  BY <1>3, <1>5, <1>8 DEF EncodeSized, If, Writes

(* A value that suits its column is written, in the binary protocol.       *)
THEOREM SuitedWritten ==
  ASSUME NEW v, Typed(v), ~Unreachable(v), NEW c \in Column, Suits(v, c), Representable(v)
  PROVE  ToMysqlBin(v, c).ok
<1> DEFINE x == Unwrapped(v)
           b == ToMysqlBin(v, c)
           m == Meaning(v).parts
<1>1. /\ x.type \in {"usize", "isize"} => b = EncodeForgiving(x.is, c)
      /\ x.type \in SizedTypes => b = EncodeSized(RustWidth[x.type], RustSigned(x.type), x.is, c)
      /\ x.type = "UInt" => b = EncodeSized(8, FALSE, x.is, c)
      /\ x.type = "Int" => b = EncodeValueInt(x.is, c)
      /\ x.type \in {"f32", "Float"} => b = EncodeF32(x.is, c)
      /\ x.type \in {"f64", "Double"} => b = EncodeF64(x.is, c)
      /\ x.type \in {"bytes", "Bytes"} => b = EncodeBytes(x.is, c)
      /\ x.type = "NaiveDate" => b = EncodeNaiveDate(x.is, c)
      /\ x.type = "NaiveDateTime" => b = EncodeNaiveDateTime(x.is, c)
      /\ x.type = "Duration" => b = EncodeTime(OfDuration(x.is), 0, c)
      /\ x.type = "Date" => b = EncodeValueDate(x.is, c)
      /\ x.type = "Time" =>
           b = IF ValidTimeParts(x.is) THEN EncodeTime(OfTime(x.is), x.is.neg, c) ELSE Refused
  BY BinaryEncodings
<1>2. /\ x.type \in SizedTypes \cup {"usize", "isize", "Int", "UInt"} => Holds(c, x.is)
      /\ x.type \in SizedTypes => Width(c) > RustWidth[x.type] \/ HoldsAll(c, x.type)
      /\ x.type = "UInt" => HoldsAll(c, "u64")
      /\ x.type \in {"f32", "Float"} => c.type \in {"FLOAT", "DOUBLE"}
      /\ x.type \in {"f64", "Double"} => c.type = "DOUBLE"
      /\ x.type \in {"bytes", "Bytes"} => c.type = "STRING"
      /\ x.type = "NaiveDate" => c.type = "DATE" /\ ChronoYear(x.is)
      /\ x.type = "NaiveDateTime" => c.type = "DATETIME" /\ ValidChronoDatetime(x.is)
      /\ x.type = "Date" => /\ ValidDate(x.is)
                            /\ \/ c.type = "DATETIME"
                               \/ c.type = "DATE" /\ \A i \in 4 .. 7 : m[i] = 0
      /\ x.type = "Duration" => c.type = "TIME" /\ InTimeRange(x.is.secs, x.is.ns \div 1000)
      /\ x.type = "Time" => c.type = "TIME" /\ ValidTimeParts(x.is)
                            /\ InTimeRange(OfTime(x.is).secs, x.is.us)
  BY SuitsIs
<1>3. /\ x.type \in SizedTypes \cup OtherTypes
      /\ x.type \in SizedTypes => x.is \in RangeOf(RustWidth[x.type], RustSigned(x.type))
  BY TypedIs
<1>4. /\ x.type = "Int" => x.is \in RangeOf(8, TRUE)
      /\ x.type = "Duration" => DurationTyped(x.is)
      /\ x.type = "Time" => TimeTyped(x.is)
      /\ x.type = "UInt" => x.is \in RangeOf(8, FALSE)
  BY Zenon DEF Typed
<1>5. x.type = "Date" => m = MomentParts(x.is, x.is.us)
  <2>1. x.type = "Date" => Meaning(v) = Means("moment", MomentParts(x.is, x.is.us))
    BY MeaningIs, ZenonT(90)
  <2> QED
    BY <2>1 DEF Means
<1>6. x.type \notin {"None", "NULL"}
  BY Zenon DEF Unreachable
<1>7. c.unsigned \in BOOLEAN
  BY ColumnIs
<1> SUFFICES b.ok
  OBVIOUS
<1> HIDE DEF x, b, m
<1>8. CASE x.type \in {"usize", "isize"}
  <2>1. Oks(IsInteger(c) /\ x.is \in RangeOf(Width(c), Signed(c)), EncodeForgiving(x.is, c))
    BY IfOk, Zenon DEF EncodeForgiving
  <2>2. Holds(c, x.is) /\ b = EncodeForgiving(x.is, c)
    BY <1>1, <1>2, <1>8
  <2> QED
    BY <2>1, <2>2, Zenon DEF Oks, Holds
<1>9. CASE x.type \in SizedTypes
  BY <1>1, <1>2, <1>3, <1>9, SizedWritten
<1>10. CASE x.type = "UInt"
  <2>1. Holds(c, x.is) /\ HoldsAll(c, "u64") /\ b = EncodeSized(8, FALSE, x.is, c)
    BY <1>1, <1>2, <1>10
  <2>2. "u64" \in SizedTypes /\ RustWidth["u64"] = 8 /\ RustSigned("u64") = FALSE
    BY DEF SizedTypes, RustWidth, RustSigned
  <2>3. x.is \in RangeOf(RustWidth["u64"], RustSigned("u64"))
    BY <1>4, <1>10, <2>2
  <2>4. EncodeSized(RustWidth["u64"], RustSigned("u64"), x.is, c).ok
    BY <2>1, <2>2, <2>3, SizedWritten
  <2> QED
    BY <2>1, <2>2, <2>4
<1>11. CASE x.type = "Int"
  <2>1. Holds(c, x.is) /\ b = EncodeValueInt(x.is, c) /\ x.is \in RangeOf(8, TRUE)
    BY <1>1, <1>2, <1>4, <1>11, Zenon
  <2> DEFINE n == x.is
  <2>2. n \in RangeOf(8, TRUE) /\ IsInteger(c) /\ n \in RangeOf(Width(c), Signed(c))
    BY <2>1, Zenon DEF Holds
  <2> HIDE DEF n
  <2>3. EncodeValueInt(n, c).ok
    <3>1. FitsI64(n)
      BY <2>2 DEF FitsI64
    <3> QED
      BY <1>7, <2>2, <3>1, ValueIntWritten
  <2> QED
    BY <2>1, <2>2, <2>3 DEF n
<1>12. CASE x.type \in {"f32", "Float", "f64", "Double", "bytes", "Bytes"}
  <2>1. CASE x.type \in {"f32", "Float"}
    <3>1. c.type \in {"FLOAT", "DOUBLE"} /\ b = EncodeF32(x.is, c)
      BY <1>1, <1>2, <2>1
    <3>2. Oks(c.type \in {"FLOAT", "DOUBLE"}, EncodeF32(x.is, c))
      BY IfOk, Zenon DEF EncodeF32
    <3> QED
      BY <3>1, <3>2, Zenon DEF Oks
  <2>2. CASE x.type \in {"f64", "Double"}
    <3>1. c.type = "DOUBLE" /\ b = EncodeF64(x.is, c)
      BY <1>1, <1>2, <2>2
    <3>2. Oks(c.type = "DOUBLE", EncodeF64(x.is, c))
      BY IfOk, Zenon DEF EncodeF64
    <3> QED
      BY <3>1, <3>2, Zenon DEF Oks
  <2>3. CASE x.type \in {"bytes", "Bytes"}
    <3>1. c.type = "STRING" /\ b = EncodeBytes(x.is, c)
      BY <1>1, <1>2, <2>3
    <3>2. Oks(c.type = "STRING", EncodeBytes(x.is, c))
      BY IfOk, Zenon DEF EncodeBytes
    <3> QED
      BY <3>1, <3>2, Zenon DEF Oks
  <2> QED
    BY <1>12, <2>1, <2>2, <2>3
<1>13. CASE x.type = "NaiveDate"
  <2>1. c.type = "DATE" /\ ChronoYear(x.is) /\ b = EncodeNaiveDate(x.is, c)
    BY <1>1, <1>2, <1>13
  <2>2. Oks(c.type = "DATE" /\ ChronoYear(x.is), EncodeNaiveDate(x.is, c))
    BY IfOk, Zenon DEF EncodeNaiveDate
  <2> QED
    BY <2>1, <2>2, Zenon DEF Oks
<1>14. CASE x.type = "NaiveDateTime"
  <2>1. c.type = "DATETIME" /\ ValidChronoDatetime(x.is) /\ b = EncodeNaiveDateTime(x.is, c)
    BY <1>1, <1>2, <1>14
  <2> DEFINE us == x.is.ns \div 1000
             fields == MomentFields(IF us # 0 THEN 11 ELSE 7, x.is, us)
  <2>2. b = If(c.type = "DATETIME" /\ ValidChronoDatetime(x.is), fields)
    BY <2>1, SMT DEF EncodeNaiveDateTime
  <2> HIDE DEF fields
  <2> QED
    BY <2>1, <2>2, IfOk, Zenon DEF Oks
<1>15. CASE x.type = "Date"
  <2> DEFINE fits == /\ ValidDate(x.is)
                     /\ \/ c.type = "DATETIME"
                        \/ c.type = "DATE" /\ ~TimeOfDay(x.is) /\ x.is.us = 0
  <2>1. b = EncodeValueDate(x.is, c) /\ m = MomentParts(x.is, x.is.us)
    BY <1>1, <1>5, <1>15
  <2>2. fits
    <3>1. (\A i \in 4 .. 7 : m[i] = 0) <=> ~TimeOfDay(x.is) /\ x.is.us = 0
      BY <2>1, DateOnly
    <3> QED
      BY <1>2, <1>15, <3>1, Zenon
  <2>3. Oks(fits, EncodeValueDate(x.is, c))
    BY IfOk, Zenon DEF EncodeValueDate
  <2> HIDE DEF fits
  <2> QED
    BY <2>1, <2>2, <2>3, Zenon DEF Oks
<1>16. \A dur, neg : Oks(c.type = "TIME" /\ ValidDuration(dur), EncodeTime(dur, neg, c))
  <2> TAKE dur, neg
  <2> QED
    BY SMT DEF EncodeTime, If, Writes, Oks
<1>17. CASE x.type = "Duration"
  <2> DEFINE dur == OfDuration(x.is)
  <2>1. c.type = "TIME" /\ InTimeRange(x.is.secs, x.is.ns \div 1000) /\ DurationTyped(x.is)
        /\ b = EncodeTime(dur, 0, c)
    BY <1>1, <1>2, <1>4, <1>17
  <2>2. dur.secs = x.is.secs /\ dur.us = x.is.ns \div 1000
    BY DEF OfDuration
  <2>3. dur.secs \in Nat /\ dur.us \in Nat
    BY <2>1, <2>2, SMT DEF DurationTyped
  <2> HIDE DEF dur
  <2>4. ValidDuration(dur)
    BY <2>1, <2>2, <2>3, InRangeIsValid
  <2> QED
    BY <1>16, <2>1, <2>4, Zenon DEF Oks
<1>18. CASE x.type = "Time"
  <2> DEFINE dur == OfTime(x.is)
  <2>1. c.type = "TIME" /\ ValidTimeParts(x.is) /\ InTimeRange(dur.secs, x.is.us) /\ TimeTyped(x.is)
    BY <1>2, <1>4, <1>18
  <2>2. b = EncodeTime(dur, x.is.neg, c)
    BY <1>1, <1>18, <2>1
  <2>3. dur.secs \in Nat /\ dur.us = x.is.us /\ dur.us \in Nat
    BY <2>1, SMT DEF OfTime, TimeTyped
  <2> HIDE DEF dur
  <2>4. ValidDuration(dur)
    BY <2>1, <2>3, InRangeIsValid
  <2> QED
    BY <1>16, <2>1, <2>2, <2>4, Zenon DEF Oks
<1> QED
  BY <1>3, <1>6, <1>8, <1>9, <1>10, <1>11, <1>12, <1>13, <1>14, <1>15, <1>17, <1>18 DEF OtherTypes

-----------------------------------------------------------------------------
(* Refusals in the text protocol.                                          *)

(* A value that is representable is shown, in the text protocol, except    *)
(* that a DATE column shows no time of day.                                *)
LEMMA RepresentableShown ==
  ASSUME NEW v, Typed(v), NEW c, Representable(v), ~TooLateForDate(v, c)
  PROVE  ToMysqlText(v, c).ok
<1> DEFINE x == Unwrapped(v)
           b == ToMysqlText(v, c)
           m == Meaning(v).parts
<1>1. /\ x.type \in {"None", "NULL"} => b = Writes(Text("null", <<>>))
      /\ x.type \in {"bytes", "Bytes"} => b = Writes(LenencStr(x.is))
      /\ x.type = "NaiveDate" => b = NaiveDateText(x.is)
      /\ x.type = "NaiveDateTime" => b = NaiveDateTimeText(x.is)
      /\ x.type = "Duration" => b = TimeText(OfDuration(x.is), 0)
      /\ x.type = "Date" => b = ValueDateTextInColumn(x.is, c)
      /\ x.type = "Time" =>
           b = IF ValidTimeParts(x.is) THEN TimeText(OfTime(x.is), x.is.neg) ELSE Refused
      /\ x.type \notin {"None", "NULL", "bytes", "Bytes", "NaiveDate", "NaiveDateTime", "Duration",
                        "Date", "Time"}
           => b = Writes(Text("number", <<x.is>>))
  BY TextEncodings
<1>2. /\ x.type = "NaiveDate" => ChronoYear(x.is)
      /\ x.type = "NaiveDateTime" => ValidChronoDatetime(x.is)
      /\ x.type = "Date" => ValidDate(x.is)
      /\ x.type = "Duration" => InTimeRange(x.is.secs, x.is.ns \div 1000)
      /\ x.type = "Time" => ValidTimeParts(x.is) /\ InTimeRange(OfTime(x.is).secs, x.is.us)
  BY RepresentableIs
<1>3. /\ x.type = "Duration" => DurationTyped(x.is)
      /\ x.type = "Time" => TimeTyped(x.is)
  BY Zenon DEF Typed
<1>4. x.type = "Date" => Meaning(v).form = "moment" /\ m = MomentParts(x.is, x.is.us)
  <2>1. x.type = "Date" => Meaning(v) = Means("moment", MomentParts(x.is, x.is.us))
    BY MeaningIs, ZenonT(90)
  <2> QED
    BY <2>1 DEF Means
<1>5. x.type = "Date" /\ c.type = "DATE" => \A i \in 4 .. 7 : m[i] = 0
  <2> SUFFICES ASSUME x.type = "Date", c.type = "DATE" PROVE \A i \in 4 .. 7 : m[i] = 0
    OBVIOUS
  <2>1. CanHold(c, Meaning(v))
    BY <1>4, Zenon DEF TooLateForDate
  <2>2. Meaning(v).form = "moment" =>
          c.type = "DATETIME" \/ (c.type = "DATE" /\ \A i \in 4 .. 7 : m[i] = 0)
    BY <2>1, Zenon DEF CanHold
  <2> QED
    BY <1>4, <2>2
<1> SUFFICES b.ok
  OBVIOUS
<1> HIDE DEF x, b, m
<1>6. \A fields : Writes(fields).ok
  BY DEF Writes
<1>7. CASE x.type \in {"None", "NULL", "bytes", "Bytes"}
  BY <1>1, <1>6, <1>7
<1>8. CASE x.type = "NaiveDate"
  <2>1. Oks(ChronoYear(x.is), NaiveDateText(x.is))
    BY IfOk, Zenon DEF NaiveDateText
  <2>2. ChronoYear(x.is) /\ b = NaiveDateText(x.is)
    BY <1>1, <1>2, <1>8
  <2> QED
    BY <2>1, <2>2, Zenon DEF Oks
<1>9. CASE x.type = "NaiveDateTime"
  <2> DEFINE text == MomentText(x.is, x.is.ns \div 1000)
  <2>1. ValidChronoDatetime(x.is) /\ b = NaiveDateTimeText(x.is)
    BY <1>1, <1>2, <1>9
  <2>2. b = If(ValidChronoDatetime(x.is), text)
    BY <2>1, Zenon DEF NaiveDateTimeText
  <2> HIDE DEF text
  <2> QED
    BY <2>1, <2>2, IfOk, Zenon DEF Oks
<1>10. \A dur, neg : Oks(ValidDuration(dur), TimeText(dur, neg))
  <2> TAKE dur, neg
  <2> QED
    BY SMT DEF TimeText, If, Writes, Oks
<1>11. CASE x.type = "Duration"
  <2> DEFINE dur == OfDuration(x.is)
  <2>1. InTimeRange(x.is.secs, x.is.ns \div 1000) /\ DurationTyped(x.is) /\ b = TimeText(dur, 0)
    BY <1>1, <1>2, <1>3, <1>11
  <2>2. dur.secs = x.is.secs /\ dur.us = x.is.ns \div 1000
    BY DEF OfDuration
  <2>3. dur.secs \in Nat /\ dur.us \in Nat
    BY <2>1, <2>2, SMT DEF DurationTyped
  <2> HIDE DEF dur
  <2>4. ValidDuration(dur)
    BY <2>1, <2>2, <2>3, InRangeIsValid
  <2> QED
    BY <1>10, <2>1, <2>4, Zenon DEF Oks
<1>12. CASE x.type = "Time"
  <2> DEFINE dur == OfTime(x.is)
  <2>1. ValidTimeParts(x.is) /\ InTimeRange(dur.secs, x.is.us) /\ TimeTyped(x.is)
    BY <1>2, <1>3, <1>12
  <2>2. b = TimeText(dur, x.is.neg)
    BY <1>1, <1>12, <2>1
  <2>3. dur.secs \in Nat /\ dur.us = x.is.us /\ dur.us \in Nat
    BY <2>1, SMT DEF OfTime, TimeTyped
  <2> HIDE DEF dur
  <2>4. ValidDuration(dur)
    BY <2>1, <2>3, InRangeIsValid
  <2> QED
    BY <1>10, <2>1, <2>2, <2>4, Zenon DEF Oks
<1>13. CASE x.type = "Date"
  <2>1. b = ValueDateTextInColumn(x.is, c) /\ m = MomentParts(x.is, x.is.us) /\ ValidDate(x.is)
    BY <1>1, <1>2, <1>4, <1>13
  <2>2. CASE c.type # "DATE"
    <3>1. b = ValueDateText(x.is)
      BY <2>1, <2>2, Zenon DEF ValueDateTextInColumn
    <3>2. Oks(ValidDate(x.is), ValueDateText(x.is))
      BY IfOk, Zenon DEF ValueDateText
    <3> QED
      BY <2>1, <3>1, <3>2, Zenon DEF Oks
  <2>3. CASE c.type = "DATE"
    <3> DEFINE fits == ValidDate(x.is) /\ ~TimeOfDay(x.is) /\ x.is.us = 0
               text == Text("moment", SubSeq(MomentParts(x.is, 0), 1, 3))
    <3>1. fits
      <4>1. (\A i \in 4 .. 7 : m[i] = 0) <=> ~TimeOfDay(x.is) /\ x.is.us = 0
        BY <2>1, DateOnly
      <4> QED
        BY <1>5, <1>13, <2>1, <2>3, <4>1, Zenon
    <3>2. b = If(fits, text)
      BY <2>1, <2>3, Zenon DEF ValueDateTextInColumn
    <3> HIDE DEF fits, text
    <3> QED
      BY <3>1, <3>2, IfOk, Zenon DEF Oks
  <2> QED
    BY <2>2, <2>3
<1>14. CASE x.type \notin {"None", "NULL", "bytes", "Bytes", "NaiveDate", "NaiveDateTime", "Duration",
                           "Date", "Time"}
  BY <1>1, <1>6, <1>14
<1> QED
  BY <1>7, <1>8, <1>9, <1>11, <1>12, <1>13, <1>14

-----------------------------------------------------------------------------
(* Refusals are justified.                                                 *)

(* Why write_col may refuse a value.                                       *)
Justified(v, c, size) ==
  \/ size > MaxPacketSize
  \/ ~Representable(v)
  \/ IF is_bin THEN ~Suits(v, c) ELSE TooLateForDate(v, c)

(* A justified refusal by write_col is one of the new state,               *)
LEMMA JustifiedStays ==
  ASSUME is_bin' = is_bin, NEW v, NEW c, NEW size, Justified(v, c, size),
         refusal' = <<[value |-> v, column |-> c, size |-> size]>>
  PROVE  RefusalsJustified'
<1> DEFINE r == [value |-> v, column |-> c, size |-> size]
<1>1. "value" \in DOMAIN r /\ r.value = v /\ r.column = c /\ r.size = size
  OBVIOUS
<1> HIDE DEF r
<1>2. refusal' = <<r>>
  BY DEF r
<1>3. refusal'[1] = r
  BY <1>2
<1> QED
  BY <1>1, <1>3, Zenon DEF RefusalsJustified, Justified

(* and so is a conversion that panics for a reason.                        *)
LEMMA NotConvertedStays ==
  ASSUME NEW type, NEW meaning, NEW c, ~Convertible(type, meaning, c),
         refusal' = <<[type |-> type, meaning |-> meaning, column |-> c]>>
  PROVE  RefusalsJustified'
<1> DEFINE r == [type |-> type, meaning |-> meaning, column |-> c]
<1>1. "value" \notin DOMAIN r /\ r.type = type /\ r.meaning = meaning /\ r.column = c
  OBVIOUS
<1> HIDE DEF r
<1>2. refusal' = <<r>>
  BY DEF r
<1>3. refusal'[1] = r
  BY <1>2
<1> QED
  BY <1>1, <1>3, Zenon DEF RefusalsJustified

(* Without a refusal there is nothing to justify.                          *)
LEMMA NoRefusal ==
  ASSUME refusal' = <<>>
  PROVE  RefusalsJustified'
BY DEF RefusalsJustified

(* NULL does not suit a NOT NULL column.                                   *)
LEMMA NullRefused ==
  ASSUME NEW v, IsNullValue(v), NEW c, c.notnull
  PROVE  ~Suits(v, c)
<1>1. Unwrapped(v) = v /\ v.type \in {"None", "NULL"}
  BY DEF IsNullValue, Unwrapped
<1>2. Meaning(v).form = "null"
  <2>1. Meaning(v) = Means("null", <<>>)
    BY <1>1, MeaningIs, ZenonT(90)
  <2> QED
    BY <2>1 DEF Means
<1> QED
  BY <1>2, Zenon DEF Suits, CanHold

(* write_col refuses a value only for a reason.                            *)
LEMMA WriteColJustified ==
  ASSUME RowInv, is_bin' = is_bin, col < Len(columns), NEW v, Typed(v), NEW meaning, WriteCol(v, meaning)
  PROVE  RefusalsJustified'
<1> DEFINE c == columns[col + 1]
           outcome == IF is_bin THEN ToMysqlBin(v, c) ELSE ToMysqlText(v, c)
           row == WithHeader
           fields == outcome.fields
           size == SizeOf(row) + SizeOf(fields)
<1>1. c \in Column /\ is_bin \in BOOLEAN
  <2>1. col \in 0 .. Len(columns) /\ columns \in Seq(Column) /\ is_bin \in BOOLEAN
        /\ \A n \in 0 .. Len(columns) - 1 : columns[n + 1] \in Column
    BY ColumnsTyped, Zenon DEF RowInv
  <2>2. col \in 0 .. Len(columns) - 1
    BY <2>1
  <2> QED
    BY <2>1, <2>2
<1>2. row \in Seq(AField) /\ SizeOf(row) \in Nat /\ MaxPacketSize \in Nat
  <2>1. row \in Seq(AField)
    BY RowStarted
  <2> HIDE DEF row
  <2> QED
    BY <2>1, SMT, SizeOfType, RowAssumption
<1>3. \/ /\ SizeOf(row) > MaxPacketSize
         /\ Refuses(data, v, <<>>)
      \/ /\ is_bin /\ IsNullValue(v) /\ c.notnull
         /\ Refuses(row, v, <<>>)
      \/ refusal' = <<>>
      \/ /\ ~(is_bin /\ Unreachable(v)) /\ ~(SizeOf(row) > MaxPacketSize)
         /\ ~(outcome.ok /\ Fitting(row, fields) = fields)
         /\ Refuses(AfterRefusal(row, fields), v, fields)
  BY Zenon DEF WriteCol, Accepts
<1>4. CASE SizeOf(row) > MaxPacketSize /\ Refuses(data, v, <<>>)
  <2>1. refusal' = <<[value |-> v, column |-> c, size |-> SizeOf(row) + SizeOf(<<>>)]>>
    BY <1>4, Zenon DEF Refuses
  <2>2. SizeOf(<<>>) \in Nat
    <3>1. <<>> \in Seq(AField)
      OBVIOUS
    <3> QED
      BY <3>1, SizeOfType, Zenon
  <2> HIDE DEF row, c
  <2>3. SizeOf(row) + SizeOf(<<>>) > MaxPacketSize
    BY <1>2, <1>4, <2>2
  <2>4. Justified(v, c, SizeOf(row) + SizeOf(<<>>))
    BY <2>3, Zenon DEF Justified
  <2> QED
    BY <2>1, <2>4, JustifiedStays
<1>5. CASE is_bin /\ IsNullValue(v) /\ c.notnull /\ Refuses(row, v, <<>>)
  <2>1. refusal' = <<[value |-> v, column |-> c, size |-> SizeOf(row) + SizeOf(<<>>)]>>
    BY <1>5, Zenon DEF Refuses
  <2>2. Justified(v, c, SizeOf(row) + SizeOf(<<>>))
    BY <1>5, NullRefused, Zenon DEF Justified
  <2> HIDE DEF row, c
  <2> QED
    BY <2>1, <2>2, JustifiedStays
<1>6. CASE refusal' = <<>>
  BY <1>6, NoRefusal
<1>7. CASE /\ ~(is_bin /\ Unreachable(v)) /\ ~(SizeOf(row) > MaxPacketSize)
           /\ ~(outcome.ok /\ Fitting(row, fields) = fields)
           /\ Refuses(AfterRefusal(row, fields), v, fields)
  <2>1. refusal' = <<[value |-> v, column |-> c, size |-> size]>>
    BY <1>7, Zenon DEF Refuses
  <2>2. ASSUME ~outcome.ok PROVE Justified(v, c, size)
    <3>1. CASE is_bin
      <4>1. outcome = ToMysqlBin(v, c) /\ ~Unreachable(v)
        BY <1>7, <3>1
      <4>2. ~(Suits(v, c) /\ Representable(v))
        BY <1>1, <2>2, <4>1, SuitedWritten
      <4> QED
        BY <3>1, <4>2, Zenon DEF Justified
    <3>2. CASE ~is_bin
      <4>1. outcome = ToMysqlText(v, c)
        BY <3>2
      <4>2. ~(Representable(v) /\ ~TooLateForDate(v, c))
        BY <2>2, <4>1, RepresentableShown
      <4> QED
        BY <3>2, <4>2, Zenon DEF Justified
    <3> QED
      BY <3>1, <3>2
  <2>3. ASSUME outcome.ok PROVE Justified(v, c, size)
    <3>1. fields \in Seq(AField)
      <4>1. CASE is_bin
        <5>1. outcome = ToMysqlBin(v, c) /\ ~Unreachable(v) /\ c.unsigned \in BOOLEAN
          BY <1>1, <1>7, <4>1, ColumnIs
        <5>2. Carries(c, outcome.fields, Meaning(v))
          BY <2>3, <5>1, BinaryCarries
        <5> QED
          BY <5>2, Zenon DEF Carries
      <4>2. CASE ~is_bin
        <5>1. outcome = ToMysqlText(v, c)
          BY <4>2
        <5>2. Shows(outcome.fields, Meaning(v))
          BY <2>3, <5>1, TextShows
        <5> QED
          BY <5>2, Zenon DEF Shows
      <4> QED
        BY <4>1, <4>2
    <3>2. Fitting(row, fields) # fields
      BY <1>7, <2>3
    <3>3. ~(SizeOf(row) > MaxPacketSize)
      BY <1>7
    <3> DEFINE all == row \o fields
    <3>4. all \in Seq(AField) /\ SizeOf(all) = size
      <4>1. row \in Seq(AField) /\ fields \in Seq(AField)
        BY <1>2, <3>1
      <4> HIDE DEF row, fields
      <4> QED
        BY <4>1, SizeOfParts
    <3>5. SizeOf(all) \in Nat
      <4> HIDE DEF all
      <4> QED
        BY <3>4, SizeOfType
    <3>6. ~(SizeOf(all) <= MaxPacketSize)
      <4>1. SizeOf(row) <= MaxPacketSize
        <5> HIDE DEF row
        <5> QED
          BY <1>2, <3>3
      <4> HIDE DEF row, fields
      <4> QED
        BY <1>2, <3>1, <3>2, <4>1, FittingIs
    <3>7. size > MaxPacketSize
      <4> HIDE DEF all, size
      <4> QED
        BY <1>2, <3>4, <3>5, <3>6
    <3> QED
      BY <3>7, Zenon DEF Justified
  <2>4. Justified(v, c, size)
    BY <2>2, <2>3
  <2> HIDE DEF c, size
  <2> QED
    BY <2>1, <2>4, JustifiedStays
<1> QED
  BY <1>3, <1>4, <1>5, <1>6, <1>7, Zenon

(* A parameter that is echoed is refused only for a reason,                *)
LEMMA EchoJustified ==
  ASSUME RowInv, WriteEcho
  PROVE  RefusalsJustified'
<1> DEFINE c == columns[col + 1]
<1>1. PICK p \in ParamFields(c), type \in RustTypes :
        LET meaning == ReadsValue(c, p).meaning
            converted == TryFrom(type, ParseFrom(p, c))
        IN  IF converted = {}
              THEN /\ refusal' = <<[type |-> type, meaning |-> meaning, column |-> c]>>
                   /\ UNCHANGED <<data, col, panicked, meant>>
              ELSE \E v \in converted : WriteCol(v, meaning)
  BY Zenon DEF WriteEcho
<1>2. is_bin' = is_bin /\ col < Len(columns)
  BY Zenon DEF WriteEcho, CanWrite
<1>3. c \in Column
  <2>1. col \in 0 .. Len(columns) /\ columns \in Seq(Column)
        /\ \A n \in 0 .. Len(columns) - 1 : columns[n + 1] \in Column
    BY ColumnsTyped, Zenon DEF RowInv
  <2>2. col \in 0 .. Len(columns) - 1
    BY <1>2, <2>1
  <2> QED
    BY <2>1, <2>2
<1> DEFINE meaning == ReadsValue(c, p).meaning
           converted == TryFrom(type, ParseFrom(p, c))
<1>4. Echoes(type, c, ParseFrom(p, c), meaning)
  BY <1>3, ParameterEchoes
<1> HIDE DEF c
<1>5. CASE converted = {}
  <2>1. refusal' = <<[type |-> type, meaning |-> meaning, column |-> c]>>
    BY <1>1, <1>5
  <2>2. ~Convertible(type, meaning, c)
    BY <1>4, <1>5, Zenon DEF Echoes
  <2> HIDE DEF meaning, converted
  <2> QED
    BY <2>1, <2>2, NotConvertedStays
<1>6. CASE converted # {}
  <2>1. PICK v \in converted : WriteCol(v, meaning)
    BY <1>1, <1>6
  <2>2. Typed(v)
    BY <1>4, <2>1, Zenon DEF Echoes
  <2> HIDE DEF meaning, converted
  <2> QED
    BY <1>2, <2>1, <2>2, WriteColJustified
<1> QED
  BY <1>5, <1>6

(* and so is a value of the backend's own.                                 *)
LEMMA OwnJustified ==
  ASSUME RowInv, WriteOwn
  PROVE  RefusalsJustified'
<1>1. PICK v \in Values(col) : WriteCol(v, Meaning(v))
  BY Zenon DEF WriteOwn
<1>2. is_bin' = is_bin /\ col < Len(columns)
  BY Zenon DEF WriteOwn, CanWrite
<1>3. col \in 0 .. Len(columns) - 1 /\ columns \in Tables
  <2>1. col \in 0 .. Len(columns) /\ columns \in Seq(Column) /\ columns \in Tables
    BY ColumnsTyped, Zenon DEF RowInv
  <2> QED
    BY <1>2, <2>1
<1>4. Typed(v)
  BY <1>3, SMT, RowAssumption
<1> QED
  BY <1>1, <1>2, <1>4, WriteColJustified

(* write_col (resultset.rs) refuses a value only when it is out of the     *)
(* protocol's range, too large for the packet, a moment with a time of day *)
(* in a DATE column, or, in a binary row, a value that its column cannot   *)
(* hold or that is of a Rust type that does not fit the column (a u8 in a  *)
(* signed TINY).  The conversions of parameters (value/decode.rs) fail     *)
(* only for a type of another kind, or one that cannot hold the value.     *)
THEOREM RefusalsAreJustified == Spec => []RefusalsJustified
<1>1. Init => RowInv /\ RefusalsJustified
  <2> SUFFICES ASSUME Init PROVE RowInv /\ RefusalsJustified
    OBVIOUS
  <2>1. RowInv
    BY RowBegins DEF Init
  <2>2. RefusalsJustified
    BY DEF Init, RefusalsJustified
  <2> QED
    BY <2>1, <2>2
<1>2. RowInv /\ RefusalsJustified /\ [Next]_vars => RefusalsJustified'
  <2> SUFFICES ASSUME RowInv, RefusalsJustified, [Next]_vars PROVE RefusalsJustified'
    OBVIOUS
  <2>1. CASE WriteOwn
    BY <2>1, OwnJustified
  <2>2. CASE WriteEcho
    BY <2>2, EchoJustified
  <2>3. CASE EndRow
    BY <2>3, NoRefusal, Zenon DEF EndRow
  <2>4. CASE UNCHANGED vars
    <3>1. is_bin' = is_bin /\ refusal' = refusal
      BY <2>4 DEF vars
    <3> QED
      BY <3>1, Zenon DEF RefusalsJustified
  <2> QED
    BY <2>1, <2>2, <2>3, <2>4 DEF Next
<1>3. RowInv /\ [Next]_vars => RowInv'
  BY RowInvInductive
<1> QED
  BY <1>1, <1>2, <1>3, PTL DEF Spec
==============================================================================
