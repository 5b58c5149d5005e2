---------------------- MODULE StatementParametersProofs ----------------------
(***************************************************************************)
(* Proofs about StatementParameters, for every number of parameters and    *)
(* whatever packet arrives: what ParamParser::validate has walked through  *)
(* is what Params::next walks through again, column by column; and what an *)
(* honest client encoded is what validate accepts and the iterator returns.*)
(***************************************************************************)
EXTENDS StatementParameters, SequenceInduction

-----------------------------------------------------------------------------
(* The function Walk chooses: what is left before each column.             *)

CheckColumn(w, types, uploads, c, before) ==
  LET type == types[c]
  IN  IF before.error # "" THEN before
      ELSE IF c - 1 \in uploads
        THEN IF type = "blob" THEN before ELSE [before EXCEPT !.error = "long_data"]
      ELSE IF IsNull(w, c - 1) THEN before
      ELSE IF Parses(before.left, type)
        THEN [before EXCEPT !.left = From(@, Width(@, type))]
      ELSE [before EXCEPT !.error = "malformed"]

Start(w) == [error |-> "", left |-> Values(w)]

Walks(f, w, types, uploads) ==
  f = [c \in 0 .. Params |->
         IF c = 0 THEN Start(w) ELSE CheckColumn(w, types, uploads, c, f[c - 1])]

LEMMA ParamsPositive == Params \in Nat \ {0}
BY ParametersAssumption

LEMMA WalkExists ==
  ASSUME NEW w, NEW types, NEW uploads
  PROVE  \E f : Walks(f, w, types, uploads)
<1> DEFINE Next0(c, before) == CheckColumn(w, types, uploads, c, before)
           Upto(f, n) == f = [c \in 0 .. n |-> IF c = 0 THEN Start(w) ELSE Next0(c, f[c - 1])]
           T == {n \in Nat : \E f : Upto(f, n)}
<1> HIDE DEF Next0
<1>1. 0 \in T
  <2> DEFINE f == [c \in 0 .. 0 |-> Start(w)]
  <2>1. f = [c \in 0 .. 0 |-> IF c = 0 THEN Start(w) ELSE Next0(c, f[c - 1])]
    <3>1. \A c \in 0 .. 0 : c = 0
      OBVIOUS
    <3>2. QED  BY <3>1
  <2>2. QED  BY <2>1
<1>2. ASSUME NEW n \in Nat, n \in T  PROVE n + 1 \in T
  <2>1. PICK f : Upto(f, n)
    BY <1>2
  <2> DEFINE g == [c \in 0 .. n + 1 |-> IF c = 0 THEN Start(w) ELSE Next0(c, f[c - 1])]
  <2>2. \A c \in 0 .. n : g[c] = f[c]
    <3> DEFINE body(c) == IF c = 0 THEN Start(w) ELSE Next0(c, f[c - 1])
    <3>1. f = [c \in 0 .. n |-> body(c)]
      BY <2>1
    <3>2. g = [c \in 0 .. n + 1 |-> body(c)]
      OBVIOUS
    <3> HIDE DEF body, g
    <3>3. \A c \in 0 .. n : c \in 0 .. n + 1
      OBVIOUS
    <3>4. QED  BY <3>1, <3>2, <3>3, Zenon
  <2>3. \A c \in 0 .. n + 1 : c # 0 => c - 1 \in 0 .. n
    OBVIOUS
  <2>4. \A c \in 0 .. n + 1 :
          (IF c = 0 THEN Start(w) ELSE Next0(c, f[c - 1]))
          = (IF c = 0 THEN Start(w) ELSE Next0(c, g[c - 1]))
    <3> HIDE DEF g
    <3>1. \A c \in 0 .. n + 1 : c # 0 => g[c - 1] = f[c - 1]
      BY <2>2, <2>3, Zenon
    <3>2. QED  BY <3>1, Zenon
  <2>5. Upto(g, n + 1)
    <3>1. [c \in 0 .. n + 1 |-> IF c = 0 THEN Start(w) ELSE Next0(c, f[c - 1])]
          = [c \in 0 .. n + 1 |-> IF c = 0 THEN Start(w) ELSE Next0(c, g[c - 1])]
      <4> HIDE DEF g
      <4>1. QED  BY <2>4, Zenon
    <3>2. QED  BY <3>1
  <2> HIDE DEF g, Upto
  <2>6. QED  BY <2>5
<1> HIDE DEF T
<1>3. Params \in T
  BY <1>1, <1>2, NatInductionOnSet, ParamsPositive
<1>4. QED  BY <1>3, Zenon DEF T, Walks, Next0

LEMMA WalkIs ==
  ASSUME NEW w, NEW types, NEW uploads
  PROVE  \E f : Walks(f, w, types, uploads) /\ Walk(w, types, uploads) = f[Params]
<1>1. \E f : Walks(f, w, types, uploads)
  BY WalkExists
<1> DEFINE f == CHOOSE f : Walks(f, w, types, uploads)
<1>2. Walks(f, w, types, uploads)
  BY <1>1
<1>3. Walk(w, types, uploads) = f[Params]
  BY Zenon DEF Walk, ColumnsChecked, Walks, CheckColumn, Start
<1>4. QED  BY <1>2, <1>3

(* Its values, column by column.                                           *)
LEMMA WalkFirst ==
  ASSUME NEW f, NEW w, NEW types, NEW uploads, Walks(f, w, types, uploads)
  PROVE  f[0] = Start(w)
<1>1. 0 \in 0 .. Params
  BY ParamsPositive
<1>2. QED  BY <1>1, Zenon DEF Walks

LEMMA WalkStep ==
  ASSUME NEW f, NEW w, NEW types, NEW uploads, Walks(f, w, types, uploads),
         NEW c \in 0 .. Params - 1
  PROVE  f[c + 1] = CheckColumn(w, types, uploads, c + 1, f[c])
<1>1. c + 1 \in 0 .. Params /\ c + 1 # 0 /\ (c + 1) - 1 = c
  BY ParamsPositive
<1>2. f[c + 1] = CheckColumn(w, types, uploads, c + 1, f[(c + 1) - 1])
  BY <1>1, Zenon DEF Walks
<1>3. QED  BY <1>1, <1>2, Zenon

IsRest(r) == \E e, l : r = [error |-> e, left |-> l]

Well(r) == r.error = ""

(* A walk that ends well has gone well everywhere.                         *)
LEMMA WalkGoesWell ==
  ASSUME NEW f, NEW w, NEW types, NEW uploads, Walks(f, w, types, uploads), Well(f[Params])
  PROVE  \A c \in 0 .. Params : Well(f[c])
<1> DEFINE T == {n \in Nat : n <= Params => Well(f[Params - n])}
<1>1. 0 \in T
  BY ParamsPositive
<1>2. ASSUME NEW n \in Nat, n \in T  PROVE n + 1 \in T
  <2> SUFFICES ASSUME n + 1 <= Params PROVE Well(f[Params - (n + 1)])
    OBVIOUS
  <2> DEFINE c == Params - (n + 1)
  <2>1. c \in 0 .. Params - 1 /\ c + 1 = Params - n /\ n <= Params
    BY ParamsPositive
  <2>2. Well(f[Params - n])
    BY <1>2, <2>1
  <2> HIDE DEF c
  <2>3. f[c + 1] = CheckColumn(w, types, uploads, c + 1, f[c])
    BY <2>1, WalkStep, Zenon
  <2>4. ~Well(f[c]) => f[c + 1] = f[c]
    BY <2>3, Zenon DEF CheckColumn, Well
  <2>5. Well(f[c])
    BY <2>1, <2>2, <2>4, Zenon
  <2>6. QED  BY <2>5 DEF c
<1> HIDE DEF T
<1>3. Nat \subseteq T
  BY <1>1, <1>2, NatInductionOnSet
<1>4. ASSUME NEW c \in 0 .. Params PROVE Well(f[c])
  <2>1. Params - c \in Nat /\ Params - c <= Params /\ Params - (Params - c) = c
    BY ParamsPositive
  <2>2. Well(f[Params - (Params - c)])
    BY <1>3, <2>1, Zenon DEF T
  <2>3. QED  BY <2>1, <2>2, Zenon
<1>5. QED  BY <1>4

LEMMA WalkRests ==
  ASSUME NEW f, NEW w, NEW types, NEW uploads, Walks(f, w, types, uploads)
  PROVE  \A c \in 0 .. Params : IsRest(f[c])
<1> DEFINE T == {n \in Nat : n <= Params => IsRest(f[n])}
<1>1. 0 \in T
  <2>1. IsRest(f[0])
    BY WalkFirst DEF IsRest, Start
  <2>2. QED  BY <2>1
<1>2. ASSUME NEW n \in Nat, n \in T  PROVE n + 1 \in T
  <2> SUFFICES ASSUME n + 1 <= Params PROVE IsRest(f[n + 1])
    OBVIOUS
  <2>1. n \in 0 .. Params - 1 /\ n <= Params
    BY ParamsPositive
  <2>2. f[n + 1] = CheckColumn(w, types, uploads, n + 1, f[n])
    BY <2>1, WalkStep, Zenon
  <2>3. PICK e, l : f[n] = [error |-> e, left |-> l]
    BY <1>2, <2>1 DEF IsRest
  <2> DEFINE r == f[n]
             r2 == [r EXCEPT !.error = "long_data"]
             r3 == [r EXCEPT !.left = From(@, Width(@, types[n + 1]))]
             r4 == [r EXCEPT !.error = "malformed"]
  <2>4. IsRest(r) /\ IsRest(r2) /\ IsRest(r3) /\ IsRest(r4)
    <3>1. r2 = [error |-> "long_data", left |-> l]
      BY <2>3
    <3>2. r3 = [error |-> e, left |-> From(l, Width(l, types[n + 1]))]
      BY <2>3
    <3>3. r4 = [error |-> "malformed", left |-> l]
      BY <2>3
    <3>4. QED  BY <2>3, <3>1, <3>2, <3>3, Zenon DEF IsRest
  <2>5. f[n + 1] \in {r, r2, r3, r4}
    BY <2>2, Zenon DEF CheckColumn
  <2>6. QED  BY <2>4, <2>5, Zenon
<1> HIDE DEF T
<1>3. Nat \subseteq T
  BY <1>1, <1>2, NatInductionOnSet
<1>4. \A c \in 0 .. Params : c \in Nat /\ c <= Params
  BY ParamsPositive
<1>5. QED  BY <1>3, <1>4, Zenon DEF T

(* What going well means for one column.                                   *)
Passes(f, w, types, uploads, c) ==
  /\ c \in uploads \/ IsNull(w, c) => f[c + 1].left = f[c].left
  /\ ~(c \in uploads \/ IsNull(w, c)) =>
       /\ Parses(f[c].left, types[c + 1])
       /\ f[c + 1].left = From(f[c].left, Width(f[c].left, types[c + 1]))

LEMMA ColumnGoesWell ==
  ASSUME NEW f, NEW w, NEW types, NEW uploads, Walks(f, w, types, uploads), Well(f[Params]),
         NEW c \in 0 .. Params - 1
  PROVE  Passes(f, w, types, uploads, c)
<1>1. c \in 0 .. Params /\ c + 1 \in 0 .. Params /\ (c + 1) - 1 = c
  BY ParamsPositive
<1>2. Well(f[c]) /\ Well(f[c + 1]) /\ IsRest(f[c])
  BY <1>1, WalkGoesWell, WalkRests, Zenon
<1>3. PICK e, l : f[c] = [error |-> e, left |-> l]
  BY <1>2 DEF IsRest
<1> DEFINE type == types[c + 1]
           r == f[c]
           r2 == [r EXCEPT !.error = "long_data"]
           r3 == [r EXCEPT !.left = From(@, Width(@, type))]
           r4 == [r EXCEPT !.error = "malformed"]
<1>4. f[c + 1] = IF ~Well(r) THEN r
                 ELSE IF c \in uploads THEN IF type = "blob" THEN r ELSE r2
                 ELSE IF IsNull(w, c) THEN r
                 ELSE IF Parses(r.left, type) THEN r3 ELSE r4
  <2>1. f[c + 1] = CheckColumn(w, types, uploads, c + 1, f[c])
    BY WalkStep, Zenon
  <2>2. QED  BY <1>1, <2>1, Zenon DEF CheckColumn, Well
<1>5. ~Well(r2) /\ ~Well(r4) /\ r3.left = From(r.left, Width(r.left, type))
  <2>1. r2 = [error |-> "long_data", left |-> l] /\ r4 = [error |-> "malformed", left |-> l]
    BY <1>3
  <2>2. r3.left = From(r.left, Width(r.left, type))
    BY <1>3
  <2>3. r2.error = "long_data" /\ r4.error = "malformed"
    BY <2>1
  <2>4. QED  BY <2>2, <2>3, Zenon DEF Well
<1> HIDE DEF r2, r3, r4
<1>6. QED  BY <1>2, <1>4, <1>5, Zenon DEF r, type, Passes

-----------------------------------------------------------------------------
(* The types an EXECUTE binds.                                             *)

(* A bounded set of numbers that is not empty has a greatest one.          *)
LEMMA GreatestNatural ==
  ASSUME NEW m \in Nat, NEW G \in SUBSET (0 .. m), G # {}
  PROVE  \E n \in G : \A k \in G : k <= n
<1> DEFINE T == {m - k : k \in G}
<1>1. T \in SUBSET Nat /\ T # {}
  <2>1. \A k \in G : m - k \in Nat
    OBVIOUS
  <2>2. PICK k \in G : TRUE
    OBVIOUS
  <2>3. m - k \in T
    OBVIOUS
  <2>4. QED  BY <2>1, <2>3
<1> HIDE DEF T
<1>2. PICK t \in T : \A u \in T : t <= u
  BY <1>1, LeastNatural
<1>3. PICK n \in G : t = m - n
  BY DEF T
<1>4. \A k \in G : m - k \in T
  BY DEF T
<1>5. \A k \in G : k <= n
  <2> TAKE k \in G
  <2>1. t <= m - k
    BY <1>2, <1>4
  <2>2. QED  BY <1>3, <2>1
<1>6. QED  BY <1>5

LEMMA ReboundLength ==
  ASSUME NEW old, NEW typmap, Len(typmap) \in Nat
  PROVE  Len(Rebound(old, typmap)) \in Nat
<1> DEFINE good == {n \in 0 .. Len(typmap) : \A i \in 1 .. n : TypeOf(typmap[i]) \in ColumnType}
           Greatest(n) == n \in good /\ \A k \in good : k <= n
           n0 == CHOOSE n \in good : \A k \in good : k <= n
<1>1. good \in SUBSET (0 .. Len(typmap)) /\ good # {}
  <2>1. 0 \in good
    OBVIOUS
  <2>2. QED  BY <2>1
<1> HIDE DEF good
<1>2. \E n \in good : \A k \in good : k <= n
  BY <1>1, GreatestNatural
<1>3. n0 \in good
  BY <1>2
<1> HIDE DEF n0
<1>4. n0 \in Nat
  BY <1>1, <1>3
<1>5. Rebound(old, typmap) = [i \in 1 .. n0 |-> TypeOf(typmap[i])]
  BY Zenon DEF Rebound, n0, good
<1> DEFINE g == [i \in 1 .. n0 |-> TypeOf(typmap[i])]
<1>6. Len(g) = n0
  BY <1>4
<1>7. QED  BY <1>4, <1>5, <1>6, Zenon

LEMMA NullMapLenType == NullMapLen \in Nat
<1> DEFINE a == Params + NullBits - 1
<1>1. a \in Nat /\ NullBits \in Nat \ {0}
  BY ParametersAssumption
<1> HIDE DEF a
<1>2. a \div NullBits \in Nat
  BY <1>1, Quotient
<1>3. QED  BY <1>2 DEF NullMapLen, a

LEMMA TypesAfterLength ==
  ASSUME Len(bound_types) \in Nat, NEW w
  PROVE  Len(TypesAfter(w)) \in Nat
<1>1. Len(TypeMap(w)) \in Nat
  <2> DEFINE a == NullMapLen + 2
             b == NullMapLen + 1 + Params
  <2>1. a \in Nat /\ b \in Nat /\ b >= a
    BY NullMapLenType, ParamsPositive
  <2> HIDE DEF a, b
  <2>2. Len(SubSeq(w, a, b)) = b - a + 1
    BY <2>1
  <2>3. b - a + 1 \in Nat
    BY <2>1
  <2>4. QED  BY <2>2, <2>3 DEF TypeMap, a, b
<1>2. Len(Rebound(bound_types, TypeMap(w))) \in Nat
  BY <1>1, ReboundLength
<1>3. QED  BY <1>2, Zenon DEF TypesAfter

-----------------------------------------------------------------------------
(* The invariant: while an EXECUTE is served, the iterator stands where    *)
(* validate stood, with the same types, before the same column.            *)

Validated(w, types, uploads, f) ==
  Walks(f, w, types, uploads) /\ Well(f[Params]) /\ f[Params].left = <<>>

Stands(f) == IF nullmap THEN input = f[col].left ELSE col = 0

Counted == \E S : produced \in Seq(S) /\ Len(produced) = col

Following ==
  wire # <<>> =>
    /\ Params <= Len(bound_types)
    /\ NewParamsBound(wire) => bound_types = Rebound(<<>>, TypeMap(wire))
    /\ \E f : Validated(wire, bound_types, long_data, f) /\ Stands(f)
    /\ col \in 0 .. Params /\ Counted
    /\ ended => nullmap /\ col = Params

IteratorInv ==
  /\ Len(bound_types) \in Nat
  /\ ~panicked
  /\ wire = <<>> => ~ended
  /\ Following

LEMMA ReboundFresh == \A old, typmap : Rebound(old, typmap) = Rebound(<<>>, typmap)
BY DEF Rebound

(* What validate lets through.                                             *)
Accepted(w) == Validate(w) = ""

LEMMA ValidateWalks ==
  ASSUME Len(bound_types) \in Nat, NEW w, Accepted(w)
  PROVE  /\ HeaderComplete(w) /\ Params <= Len(TypesAfter(w))
         /\ \E f : Validated(w, TypesAfter(w), long_data, f)
<1> DEFINE walk == Walk(w, TypesAfter(w), long_data)
<1>1. /\ HeaderComplete(w) /\ ~(Len(TypesAfter(w)) < Params)
      /\ walk.error = "" /\ walk.left = <<>>
  BY Zenon DEF Accepted, Validate, Trailing
<1>2. PICK f : Walks(f, w, TypesAfter(w), long_data) /\ walk = f[Params]
  BY WalkIs, Zenon
<1>3. Validated(w, TypesAfter(w), long_data, f)
  BY <1>1, <1>2, Zenon DEF Validated, Well
<1>4. Params <= Len(TypesAfter(w))
  <2>1. Len(TypesAfter(w)) \in Nat
    BY TypesAfterLength
  <2>2. ~(Len(TypesAfter(w)) < Params)
    BY <1>1, Zenon
  <2>3. QED  BY <2>1, <2>2, ParamsPositive
<1>5. QED  BY <1>1, <1>3, <1>4, Zenon

LEMMA ReceivesStep ==
  ASSUME IteratorInv, Idle, NEW w, NEW types, NEW meant, Receives(w, types, meant)
  PROVE  IteratorInv'
<1>1. Len(bound_types) \in Nat /\ ~panicked /\ ~ended /\ wire = <<>> /\ bound_types' = TypesAfter(w)
  BY Zenon DEF IteratorInv, Idle, Receives
<1>2. Len(bound_types') \in Nat
  BY <1>1, TypesAfterLength, Zenon
<1>3. CASE ~Accepted(w)
  <2>1. Rejects(Validate(w))
    BY <1>3, Zenon DEF Receives, Accepted
  <2>2. UNCHANGED <<wire, ended, panicked>>
    BY <2>1 DEF Rejects, iterator
  <2>3. QED  BY <1>1, <1>2, <2>2, Zenon DEF IteratorInv, Following
<1>4. CASE Accepted(w)
  <2>1. Serves(w)
    BY <1>4, Zenon DEF Receives, Accepted
  <2>2. /\ wire' = w /\ nullmap' = FALSE /\ col' = 0 /\ produced' = <<>> /\ ended' = FALSE
        /\ UNCHANGED <<long_data, panicked>>
    BY <2>1, Zenon DEF Serves
  <2>3. HeaderComplete(w) /\ Params <= Len(TypesAfter(w))
    BY <1>1, <1>4, ValidateWalks, Zenon
  <2>4. PICK f : Validated(w, TypesAfter(w), long_data, f)
    BY <1>1, <1>4, ValidateWalks, Zenon
  <2>5. Validated(wire', bound_types', long_data', f) /\ Stands(f)'
    BY <1>1, <2>2, <2>4, Zenon DEF Stands
  <2>6. NewParamsBound(wire') => bound_types' = Rebound(<<>>, TypeMap(wire'))
    BY <1>1, <2>2, <2>3, ReboundFresh, Zenon DEF TypesAfter
  <2>7. col' \in 0 .. Params
    BY <2>2, ParamsPositive
  <2>8. Counted'
    <3>1. <<>> \in Seq(Nat) /\ Len(<<>>) = 0
      OBVIOUS
    <3>2. QED  BY <2>2, <3>1, Zenon DEF Counted
  <2>9. Params <= Len(bound_types')
    BY <1>1, <2>3, Zenon
  <2>10. ~ended' /\ ~panicked'
    BY <1>1, <2>2, Zenon
  <2>11. Following'
    BY <2>5, <2>6, <2>7, <2>8, <2>9, <2>10, Zenon DEF Following
  <2>12. QED  BY <1>2, <2>10, <2>11, Zenon DEF IteratorInv
<1>5. QED  BY <1>3, <1>4

(* One call of Params::next, told by the walk validate has been through.   *)
ReadAt(f, c) ==
  IF c \in long_data THEN Uploaded
  ELSE IF IsNull(wire, c) THEN Null
  ELSE Parsed(f[c].left, bound_types[c + 1])

Reading(f) ==
  /\ Validated(wire, bound_types, long_data, f) /\ wire # <<>>
  /\ nullmap' = TRUE /\ UNCHANGED <<bound_types, long_data, wire, panicked>>
  /\ \/ col = Params /\ ended' = TRUE /\ input' = f[col].left /\ UNCHANGED <<col, produced>>
     \/ /\ col \in 0 .. Params - 1 /\ UNCHANGED ended
        /\ col' = col + 1 /\ input' = f[col + 1].left
        /\ produced' = Append(produced, ReadAt(f, col))

LEMMA NextParamReads ==
  ASSUME IteratorInv, NextParam
  PROVE  \E f : Reading(f)
<1> DEFINE types == IF nullmap \/ ~NewParamsBound(wire) THEN bound_types
                    ELSE Rebound(bound_types, TypeMap(wire))
           left == IF nullmap THEN input ELSE Values(wire)
           Returns(v, rest) ==
             /\ produced' = Append(produced, v) /\ col' = col + 1 /\ input' = rest
             /\ UNCHANGED <<ended, panicked>>
           Panics == panicked' = TRUE /\ UNCHANGED <<input, col, produced, ended>>
<1>1. /\ wire # <<>> /\ ~panicked /\ ~ended /\ nullmap' = TRUE /\ bound_types' = types
      /\ UNCHANGED <<long_data, wire>>
      /\ IF col >= Params
              THEN ended' = TRUE /\ input' = left /\ UNCHANGED <<col, produced, panicked>>
            ELSE IF col >= Len(types)
              THEN Panics
            ELSE IF col \in long_data THEN Returns(Uploaded, left)
            ELSE IF IsNull(wire, col) THEN Returns(Null, left)
            ELSE IF Parses(left, types[col + 1])
              THEN Returns(Parsed(left, types[col + 1]), From(left, Width(left, types[col + 1])))
            ELSE Panics
  BY Zenon DEF NextParam
<1>2. /\ Len(bound_types) \in Nat /\ Params <= Len(bound_types)
      /\ NewParamsBound(wire) => bound_types = Rebound(<<>>, TypeMap(wire))
      /\ col \in 0 .. Params
  BY <1>1, Zenon DEF IteratorInv, Following
<1>3. PICK f : Validated(wire, bound_types, long_data, f) /\ Stands(f)
  BY <1>1, Zenon DEF IteratorInv, Following
<1>4. Walks(f, wire, bound_types, long_data) /\ Well(f[Params])
  BY <1>3, Zenon DEF Validated
<1>5. types = bound_types
  BY <1>2, ReboundFresh, Zenon
<1>6. left = f[col].left
  <2>1. CASE nullmap
    BY <1>3, <2>1, Zenon DEF Stands
  <2>2. CASE ~nullmap
    <3>1. col = 0 /\ left = Values(wire)
      BY <1>3, <2>2, Zenon DEF Stands
    <3>2. f[0] = Start(wire)
      BY <1>4, WalkFirst, Zenon
    <3>3. Start(wire).left = Values(wire)
      BY DEF Start
    <3>4. QED  BY <3>1, <3>2, <3>3, Zenon
  <2>3. QED  BY <2>1, <2>2
<1> HIDE DEF types, left, Returns, Panics
<1>7. CASE col >= Params
  <2>1. ended' = TRUE /\ input' = left /\ UNCHANGED <<col, produced, panicked>>
    BY <1>1, <1>7, Zenon
  <2>2. col = Params
    BY <1>2, <1>7, ParamsPositive
  <2>3. Reading(f)
    BY <1>1, <1>3, <1>5, <1>6, <2>1, <2>2, Zenon DEF Reading
  <2>4. QED  BY <2>3
<1>8. CASE ~(col >= Params)
  <2>1. col \in 0 .. Params - 1 /\ ~(col >= Len(bound_types))
    BY <1>2, <1>8, ParamsPositive
  <2>2. /\ col \in long_data \/ IsNull(wire, col) => f[col + 1].left = f[col].left
        /\ ~(col \in long_data \/ IsNull(wire, col)) =>
             /\ Parses(f[col].left, bound_types[col + 1])
             /\ f[col + 1].left = From(f[col].left, Width(f[col].left, bound_types[col + 1]))
    <3>1. Passes(f, wire, bound_types, long_data, col)
      BY <1>4, <2>1, ColumnGoesWell, Zenon
    <3>2. QED  BY <3>1, Zenon DEF Passes
  <2>3. Returns(ReadAt(f, col), f[col + 1].left)
    <3>1. CASE col \in long_data
      BY <1>1, <1>5, <1>6, <1>8, <2>1, <2>2, <3>1, Zenon DEF ReadAt
    <3>2. CASE col \notin long_data /\ IsNull(wire, col)
      BY <1>1, <1>5, <1>6, <1>8, <2>1, <2>2, <3>2, Zenon DEF ReadAt
    <3>3. CASE col \notin long_data /\ ~IsNull(wire, col)
      BY <1>1, <1>5, <1>6, <1>8, <2>1, <2>2, <3>3, Zenon DEF ReadAt
    <3>4. QED  BY <3>1, <3>2, <3>3
  <2>4. Reading(f)
    BY <1>1, <1>3, <1>5, <2>1, <2>3, Zenon DEF Reading, Returns
  <2>5. QED  BY <2>4
<1>9. QED  BY <1>7, <1>8

LEMMA NextParamStep ==
  ASSUME IteratorInv, NextParam
  PROVE  IteratorInv'
<1>1. PICK f : Reading(f)
  BY NextParamReads
<1>2. /\ Validated(wire, bound_types, long_data, f) /\ wire # <<>>
      /\ nullmap' = TRUE /\ UNCHANGED <<bound_types, long_data, wire, panicked>>
      /\ \/ col = Params /\ ended' = TRUE /\ input' = f[col].left /\ UNCHANGED <<col, produced>>
         \/ /\ col \in 0 .. Params - 1 /\ UNCHANGED ended
            /\ col' = col + 1 /\ input' = f[col + 1].left
            /\ produced' = Append(produced, ReadAt(f, col))
  BY <1>1, Zenon DEF Reading
<1>3. /\ Len(bound_types) \in Nat /\ Params <= Len(bound_types) /\ ~panicked /\ ~ended
      /\ NewParamsBound(wire) => bound_types = Rebound(<<>>, TypeMap(wire))
      /\ col \in 0 .. Params /\ Counted
  BY <1>2, Zenon DEF IteratorInv, Following, NextParam
<1>4. /\ Validated(wire', bound_types', long_data', f) /\ wire' # <<>> /\ ~panicked'
      /\ Len(bound_types') \in Nat /\ Params <= Len(bound_types')
      /\ NewParamsBound(wire') => bound_types' = Rebound(<<>>, TypeMap(wire'))
  BY <1>2, <1>3, Zenon
<1>5. CASE col = Params /\ ended' = TRUE /\ input' = f[col].left /\ UNCHANGED <<col, produced>>
  <2>1. Stands(f)' /\ Counted' /\ col' \in 0 .. Params /\ col' = Params
    BY <1>2, <1>3, <1>5, Zenon DEF Stands, Counted
  <2>2. Following'
    BY <1>2, <1>4, <2>1, Zenon DEF Following
  <2>3. QED  BY <1>4, <2>2, Zenon DEF IteratorInv
<1>6. CASE /\ col \in 0 .. Params - 1 /\ UNCHANGED ended
           /\ col' = col + 1 /\ input' = f[col + 1].left
           /\ produced' = Append(produced, ReadAt(f, col))
  <2>1. Counted'
    <3> DEFINE v == ReadAt(f, col)
    <3>1. PICK S : produced \in Seq(S) /\ Len(produced) = col
      BY <1>3, Zenon DEF Counted
    <3> DEFINE S2 == S \cup {v}
    <3> HIDE DEF v
    <3>2. produced \in Seq(S2) /\ v \in S2
      BY <3>1
    <3> HIDE DEF S2
    <3>3. Append(produced, v) \in Seq(S2) /\ Len(Append(produced, v)) = Len(produced) + 1
      BY <3>2
    <3>4. QED  BY <1>6, <3>1, <3>3, Zenon DEF Counted, v
  <2>2. Stands(f)'
    BY <1>2, <1>6, Zenon DEF Stands
  <2>3. col' \in 0 .. Params /\ ~ended'
    <3>1. col' \in 0 .. Params
      BY <1>6, ParamsPositive
    <3>2. QED  BY <1>3, <1>6, <3>1, Zenon
  <2>4. Following'
    BY <1>4, <2>1, <2>2, <2>3, Zenon DEF Following
  <2>5. QED  BY <1>4, <2>3, <2>4, Zenon DEF IteratorInv
<1>7. QED  BY <1>2, <1>5, <1>6, Zenon

(* Steps of a statement that serves no EXECUTE.                            *)
LEMMA IdleStep ==
  ASSUME IteratorInv, wire' = <<>>, ~ended', ~panicked', Len(bound_types') \in Nat
  PROVE  IteratorInv'
BY Zenon DEF IteratorInv, Following

LEMMA IteratorStays ==
  ASSUME IteratorInv, UNCHANGED vars
  PROVE  IteratorInv'
<1>1. UNCHANGED <<bound_types, long_data, wire, nullmap, input, col, produced, ended, panicked>>
  BY DEF vars, statement, iterator
<1>2. Counted' = Counted /\ \A f : Stands(f)' = Stands(f)
  BY <1>1, Zenon DEF Counted, Stands
<1>3. QED  BY <1>1, <1>2, Zenon DEF IteratorInv, Following

(* While an EXECUTE is served, the iterator is where validate has been.    *)
THEOREM IteratorFollows == Spec => []IteratorInv
<1>1. Init => IteratorInv
  <2> SUFFICES ASSUME Init PROVE IteratorInv
    OBVIOUS
  <2>1. bound_types = <<>> /\ wire = <<>> /\ ended = FALSE /\ panicked = FALSE
    BY Zenon DEF Init
  <2>2. Len(bound_types) \in Nat
    BY <2>1
  <2>3. QED  BY <2>1, <2>2, Zenon DEF IteratorInv, Following
<1>2. IteratorInv /\ [Next]_vars => IteratorInv'
  <2> SUFFICES ASSUME IteratorInv, [Next]_vars PROVE IteratorInv'
    OBVIOUS
  <2>1. Len(bound_types) \in Nat /\ ~panicked /\ (wire = <<>> => ~ended)
    BY Zenon DEF IteratorInv
  <2>2. CASE Execute
    <3>1. PICK w, types, meant : Receives(w, types, meant)
      BY <2>2, Zenon DEF Execute
    <3>2. Idle
      BY <2>2, Zenon DEF Execute
    <3>3. QED  BY <3>1, <3>2, ReceivesStep, Zenon
  <2>3. CASE ExecutePending
    BY <2>1, <2>3, IdleStep, Zenon DEF ExecutePending, Idle, statement, iterator
  <2>4. CASE NextParam
    BY <2>4, NextParamStep
  <2>5. CASE Answer
    BY <2>1, <2>5, IdleStep, Zenon DEF Answer
  <2>6. CASE SendLongData
    BY <2>1, <2>6, IdleStep, Zenon DEF SendLongData, Idle, iterator
  <2>7. CASE Reset
    BY <2>1, <2>7, IdleStep, Zenon DEF Reset, Idle, iterator, TypesAfterReset
  <2>8. CASE UNCHANGED vars
    BY <2>8, IteratorStays
  <2>9. QED  BY <2>2, <2>3, <2>4, <2>5, <2>6, <2>7, <2>8 DEF Next
<1>3. QED  BY <1>1, <1>2, PTL DEF Spec

(* Whatever packet arrives, Params::next never unwraps an error: what      *)
(* validate accepted decodes, for every column.                            *)
THEOREM IteratorNeverPanics == Spec => []NeverPanics
<1>1. IteratorInv => NeverPanics
  BY Zenon DEF IteratorInv, NeverPanics
<1>2. QED  BY <1>1, IteratorFollows, PTL

(* ... and once the iterator has ended, it has returned one value for each *)
(* parameter and there is no byte left.                                    *)
THEOREM PacketsAreConsumed == Spec => []AllConsumed
<1>1. IteratorInv => AllConsumed
  <2> SUFFICES ASSUME IteratorInv, ended PROVE Len(produced) = Params /\ input = <<>>
    BY Zenon DEF AllConsumed
  <2>1. wire # <<>> /\ nullmap /\ col = Params /\ Counted
    BY Zenon DEF IteratorInv, Following
  <2>2. PICK f : Validated(wire, bound_types, long_data, f) /\ Stands(f)
    BY <2>1, Zenon DEF IteratorInv, Following
  <2>3. QED  BY <2>1, <2>2, Zenon DEF Counted, Validated, Stands
<1>2. QED  BY <1>1, IteratorFollows, PTL

-----------------------------------------------------------------------------
(* What an honest client sends: the header.                                *)

BitmapBytes(vs) == [k \in 1 .. NullMapLen |-> BitmapByte(vs, k)]
TypeBytes(types) == [i \in 1 .. Params |-> (CHOOSE n \in Byte : TypeOf(n) = types[i])]
Flagged(types, send) == IF send THEN <<1>> \o TypeBytes(types) ELSE <<0>>
Encoded(types, vs) == [i \in 1 .. Params |-> EncodedValue(vs[i], types[i])]

LEMMA EncodeParts ==
  ASSUME NEW types, NEW vs, NEW send
  PROVE  Encode(types, vs, send)
         = (BitmapBytes(vs) \o Flagged(types, send)) \o FlattenSeq(Encoded(types, vs))
BY Zenon DEF Encode, BitmapBytes, Flagged, TypeBytes, Encoded

LEMMA BitmapBytesType ==
  ASSUME NEW vs
  PROVE  BitmapBytes(vs) \in Seq(Nat) /\ Len(BitmapBytes(vs)) = NullMapLen
<1>1. \A k \in 1 .. NullMapLen : BitmapByte(vs, k) \in Nat
  <2>1. NullBits \in Nat
    BY ParametersAssumption
  <2>2. QED  BY <2>1, ByteOfType, Zenon DEF BitmapByte
<1> DEFINE f == BitmapBytes(vs)
<1>2. f = [k \in 1 .. NullMapLen |-> f[k]] /\ \A k \in 1 .. NullMapLen : f[k] = BitmapByte(vs, k)
  BY DEF BitmapBytes
<1> HIDE DEF f
<1>3. \A k \in 1 .. NullMapLen : f[k] \in Nat
  BY <1>1, <1>2
<1>4. f \in Seq(Nat) /\ Len(f) = NullMapLen
  BY <1>2, <1>3, NullMapLenType, FunctionIsSequence
<1>5. QED  BY <1>4 DEF f

(* A type's byte is read back as the type.                                 *)
LEMMA TypeByteReads ==
  ASSUME NEW type \in UsedType
  PROVE  /\ (CHOOSE n \in Byte : TypeOf(n) = type) \in Nat
         /\ TypeOf(CHOOSE n \in Byte : TypeOf(n) = type) = type
         /\ type \in ColumnType
<1>1. type \in {"tiny", "blob", "date"}
  BY ParametersAssumption
<1>2. \E n \in Byte : TypeOf(n) = type
  <2>1. TypeOf(0) = "tiny" /\ TypeOf(1) = "blob" /\ TypeOf(2) = "date"
    BY DEF TypeOf, TypeCode
  <2>2. QED  BY <1>1, <2>1 DEF Byte
<1> DEFINE n0 == CHOOSE n \in Byte : TypeOf(n) = type
<1>3. n0 \in Byte /\ TypeOf(n0) = type
  BY <1>2
<1> HIDE DEF n0
<1>4. n0 \in Nat
  BY <1>3 DEF Byte
<1>5. type \in ColumnType
  BY <1>1 DEF ColumnType
<1>6. QED  BY <1>3, <1>4, <1>5 DEF n0

LEMMA TypeBytesType ==
  ASSUME NEW types \in ClientTypes
  PROVE  /\ TypeBytes(types) \in Seq(Nat) /\ Len(TypeBytes(types)) = Params
         /\ \A i \in 1 .. Params : /\ TypeOf(TypeBytes(types)[i]) = types[i]
                                   /\ types[i] \in ColumnType
<1> DEFINE f == TypeBytes(types)
<1>1. f = [k \in 1 .. Params |-> f[k]]
  BY DEF TypeBytes
<1>2. \A i \in 1 .. Params : f[i] \in Nat /\ TypeOf(f[i]) = types[i] /\ types[i] \in ColumnType
  <2> TAKE i \in 1 .. Params
  <2>1. types[i] \in UsedType
    BY DEF ClientTypes
  <2>2. f[i] = CHOOSE n \in Byte : TypeOf(n) = types[i]
    BY DEF TypeBytes
  <2> HIDE DEF f
  <2>3. QED  BY <2>1, <2>2, TypeByteReads
<1> HIDE DEF f
<1>3. Params \in Nat /\ \A i \in 1 .. Params : f[i] \in Nat
  BY <1>2, ParamsPositive
<1>4. f \in Seq(Nat) /\ Len(f) = Params
  BY <1>1, <1>3, FunctionIsSequence
<1>5. QED  BY <1>2, <1>4 DEF f

LEMMA FlaggedType ==
  ASSUME NEW types \in ClientTypes, NEW send \in BOOLEAN
  PROVE  /\ Flagged(types, send) \in Seq(Nat)
         /\ Len(Flagged(types, send)) = IF send THEN 1 + Params ELSE 1
         /\ Flagged(types, send)[1] = IF send THEN 1 ELSE 0
         /\ send => \A i \in 1 .. Params : Flagged(types, send)[1 + i] = TypeBytes(types)[i]
<1> DEFINE f == TypeBytes(types)
<1>1. f \in Seq(Nat) /\ Len(f) = Params
  BY TypeBytesType
<1>2. Flagged(types, send) = IF send THEN <<1>> \o f ELSE <<0>>
  BY DEF Flagged
<1> HIDE DEF f
<1> DEFINE one == <<1>>
<1>3. one \in Seq(Nat) /\ Len(one) = 1 /\ one[1] = 1 /\ 1 \in 1 .. 1
  OBVIOUS
<1> HIDE DEF one
<1>4. /\ one \o f \in Seq(Nat) /\ Len(one \o f) = 1 + Params /\ (one \o f)[1] = 1
      /\ \A i \in 1 .. Params : (one \o f)[1 + i] = f[i]
  <2>1. one \o f \in Seq(Nat) /\ Len(one \o f) = Len(one) + Len(f)
    BY <1>1, <1>3, Concatenated
  <2>2. \A i \in 1 .. Len(one) : (one \o f)[i] = one[i]
    BY <1>1, <1>3, Concatenated
  <2>3. \A i \in 1 .. Len(f) : (one \o f)[Len(one) + i] = f[i]
    BY <1>1, <1>3, Concatenated, SMTT(60)
  <2> DEFINE r == one \o f
  <2>4. /\ r \in Seq(Nat) /\ Len(r) = Len(one) + Len(f)
        /\ \A i \in 1 .. Len(one) : r[i] = one[i]
        /\ \A i \in 1 .. Len(f) : r[Len(one) + i] = f[i]
    BY <2>1, <2>2, <2>3
  <2> HIDE DEF r
  <2>5. r \in Seq(Nat) /\ Len(r) = 1 + Params /\ r[1] = 1 /\ \A i \in 1 .. Params : r[1 + i] = f[i]
    BY <1>1, <1>3, <2>4
  <2>6. QED  BY <2>5 DEF r
<1>5. Flagged(types, send) = IF send THEN one \o f ELSE <<0>>
  BY <1>2 DEF one
<1>6. CASE send
  BY <1>4, <1>5, <1>6 DEF f
<1>7. CASE ~send
  BY <1>5, <1>7
<1>8. QED  BY <1>6, <1>7

(* What the client may mean by one parameter.                              *)
Inlined(v, type) == \E s \in InlineValues(type) : v = Inline(s)

LEMMA ClientValueIs ==
  ASSUME NEW types \in ClientTypes, NEW vs \in ClientValues(types), NEW i \in 1 .. Params
  PROVE  /\ types[i] \in UsedType
         /\ i - 1 \in long_data => vs[i] = Uploaded
         /\ i - 1 \notin long_data => vs[i] = Null \/ Inlined(vs[i], types[i])
<1>1. types[i] \in UsedType
  BY DEF ClientTypes
<1> DEFINE AnyInline == UNION {{Inline(s) : s \in InlineValues(t)} : t \in UsedType}
<1>2. /\ vs[i] \in {Null, Uploaded} \cup AnyInline
      /\ IF i - 1 \in long_data THEN vs[i] = Uploaded
         ELSE vs[i] = Null \/ (vs[i].kind = "inline" /\ vs[i].bytes \in InlineValues(types[i]))
  BY DEF ClientValues
<1>3. vs[i].kind = "inline" => \E s : vs[i] = Inline(s)
  <2>1. Null.kind # "inline" /\ Uploaded.kind # "inline"
    BY DEF Null, Uploaded
  <2>2. vs[i] \in AnyInline => \E s : vs[i] = Inline(s)
    OBVIOUS
  <2>3. QED  BY <1>2, <2>1, <2>2
<1>4. \A s : Inline(s).bytes = s
  BY DEF Inline
<1>5. vs[i].kind = "inline" /\ vs[i].bytes \in InlineValues(types[i]) => Inlined(vs[i], types[i])
  BY <1>3, <1>4 DEF Inlined
<1>6. QED  BY <1>1, <1>2, <1>5

LEMMA InlineIsNeither ==
  ASSUME NEW type, NEW v, Inlined(v, type)
  PROVE  v # Null /\ v # Uploaded /\ v.kind = "inline"
BY DEF Inlined, Inline, Null, Uploaded

LEMMA NeverBoth == Null # Uploaded /\ Null.kind # "inline" /\ Uploaded.kind # "inline"
BY DEF Null, Uploaded

(* A column's bit is in one of the bitmap's bytes, and says NULL or not.   *)
LEMMA BitmapReaches ==
  ASSUME NEW c \in 0 .. Params - 1
  PROVE  /\ c \div NullBits + 1 \in 1 .. NullMapLen
         /\ c % NullBits \in 0 .. NullBits - 1
         /\ (c \div NullBits) * NullBits + (c % NullBits) = c
<1> DEFINE k == c \div NullBits
           b == c % NullBits
           a == Params + NullBits - 1
           q == a \div NullBits
           r == a % NullBits
<1>1. NullBits \in Nat \ {0} /\ Params \in Nat \ {0} /\ a \in Nat /\ c \in Nat
  BY ParametersAssumption
<1>2. k \in Nat /\ b \in 0 .. NullBits - 1 /\ c = k * NullBits + b
  BY <1>1, Quotient
<1>3. q \in Nat /\ r \in 0 .. NullBits - 1 /\ a = q * NullBits + r /\ a = Params + NullBits - 1
  <2> HIDE DEF a
  <2>1. q \in Nat /\ r \in 0 .. NullBits - 1 /\ a = q * NullBits + r
    BY <1>1, Quotient
  <2>2. QED  BY <2>1 DEF a
<1>4. NullMapLen = q
  BY DEF NullMapLen
<1> HIDE DEF k, b, a, q, r
<1>5. k < q
  <2> SUFFICES ASSUME q <= k PROVE FALSE
    BY <1>2, <1>3
  <2> DEFINE x == q * NullBits
             y == k * NullBits
  <2>1. x \in Nat /\ y \in Nat /\ x <= y
    BY <1>1, <1>2, <1>3, ProductType, ProductMonotonic
  <2>2. a = x + r /\ c = y + b
    BY <1>2, <1>3
  <2> HIDE DEF x, y
  <2>3. QED  BY <1>1, <1>2, <1>3, <2>1, <2>2
<1>6. k + 1 \in 1 .. NullMapLen
  BY <1>2, <1>3, <1>4, <1>5
<1>7. k * NullBits + b = c
  BY <1>2, Zenon
<1>8. c \div NullBits + 1 \in 1 .. NullMapLen
  BY <1>6 DEF k
<1>9. c % NullBits \in 0 .. NullBits - 1
  BY <1>2 DEF b
<1>10. (c \div NullBits) * NullBits + (c % NullBits) = c
  BY <1>7, Zenon DEF k, b
<1>11. QED  BY <1>8, <1>9, <1>10, Zenon

BitsOf(vs, k) ==
  {b \in 0 .. NullBits - 1 : (k - 1) * NullBits + b \in Columns /\ vs[(k - 1) * NullBits + b + 1] = Null}

LEMMA BitmapByteIs ==
  ASSUME NEW vs, NEW k
  PROVE  BitmapByte(vs, k) = ByteOf(BitsOf(vs, k), NullBits)
BY DEF BitmapByte, BitsOf

LEMMA NullBitReads ==
  ASSUME NEW vs, NEW c \in 0 .. Params - 1
  PROVE  IsSet(BitmapByte(vs, c \div NullBits + 1), c % NullBits) <=> vs[c + 1] = Null
<1> DEFINE k == c \div NullBits
           b == c % NullBits
<1>1. k \in Nat /\ b \in 0 .. NullBits - 1 /\ k * NullBits + b = c /\ NullBits \in Nat
  <2>1. b \in 0 .. NullBits - 1 /\ k * NullBits + b = c
    <3>1. b \in 0 .. NullBits - 1
      BY BitmapReaches
    <3>2. k * NullBits + b = c
      BY BitmapReaches, Zenon
    <3>3. QED  BY <3>1, <3>2, Zenon
  <2>2. k \in Nat /\ NullBits \in Nat
    BY ParametersAssumption, Quotient
  <2>3. QED  BY <2>1, <2>2
<1>2. c \in Columns
  BY DEF Columns
<1> HIDE DEF k, b
<1>3. (k + 1) - 1 = k
  BY <1>1
<1>4. ((k + 1) - 1) * NullBits + b = c
  BY <1>1, <1>3, Zenon
<1>5. b \in BitsOf(vs, k + 1) <=> vs[c + 1] = Null
  BY <1>1, <1>2, <1>4, Zenon DEF BitsOf
<1>6. IsSet(ByteOf(BitsOf(vs, k + 1), NullBits), b) <=> b \in BitsOf(vs, k + 1)
  BY <1>1, ByteOfReads
<1>7. IsSet(BitmapByte(vs, k + 1), b) <=> vs[c + 1] = Null
  BY <1>5, <1>6, BitmapByteIs, Zenon
<1>8. QED  BY <1>7, Zenon DEF k, b

(* The values' bytes.                                                      *)
LEMMA InlineValueBytes ==
  ASSUME NEW type \in UsedType, NEW s \in InlineValues(type)
  PROVE  /\ s \in Seq(Nat)
         /\ type = "tiny" => Len(s) = 1 /\ s = <<s[1]>>
         /\ type = "date" => Len(s) \in TemporalLengths
         /\ type \in {"tiny", "blob", "date"}
<1>1. type \in {"tiny", "blob", "date"}
  BY ParametersAssumption
<1>2. CASE type = "tiny"
  <2>1. s = <<0>> \/ s = <<3>>
    BY <1>2 DEF InlineValues
  <2>2. \A x : <<x>>[1] = x
    OBVIOUS
  <2>3. s \in Seq(Nat) /\ Len(s) = 1
    <3>1. <<0>> \in Seq(Nat) /\ Len(<<0>>) = 1 /\ <<3>> \in Seq(Nat) /\ Len(<<3>>) = 1
      OBVIOUS
    <3>2. QED  BY <2>1, <3>1, Zenon
  <2>4. s = <<s[1]>>
    BY <2>1, <2>2, Zenon
  <2>5. QED  BY <1>2, <2>3, <2>4
<1>3. CASE type = "blob"
  <2>1. s \in {<<>>, <<1>>}
    BY <1>3 DEF InlineValues
  <2>2. s \in Seq(Nat)
    <3>1. <<>> \in Seq(Nat) /\ <<1>> \in Seq(Nat)
      OBVIOUS
    <3>2. QED  BY <2>1, <3>1, Zenon
  <2>3. QED  BY <1>3, <2>2
<1>4. CASE type = "date"
  <2>1. s \in {<<>>, <<1, 0>>}
    BY <1>4 DEF InlineValues
  <2>2. s \in Seq(Nat) /\ Len(s) \in TemporalLengths
    <3>1. /\ <<>> \in Seq(Nat) /\ Len(<<>>) \in TemporalLengths
          /\ <<1, 0>> \in Seq(Nat) /\ Len(<<1, 0>>) \in TemporalLengths
      BY DEF TemporalLengths
    <3>2. QED  BY <2>1, <3>1, Zenon
  <2>3. QED  BY <1>4, <2>2
<1>5. QED  BY <1>1, <1>2, <1>3, <1>4

LEMMA InlineEncoded ==
  ASSUME NEW type \in UsedType, NEW s \in InlineValues(type)
  PROVE  EncodedValue(Inline(s), type) = IF type = "tiny" THEN s ELSE <<Len(s)>> \o s
<1>1. Inline(s).kind = "inline" /\ Inline(s).bytes = s
  BY DEF Inline
<1>2. QED  BY <1>1, Zenon DEF EncodedValue

(* A length, the bytes it counts, and whatever follows.                    *)
Prefixed(enc, s) == enc = <<Len(s)>> \o s
Followed(t, enc, rest) == t = enc \o rest

LEMMA Counts ==
  ASSUME NEW s \in Seq(Nat), NEW rest \in Seq(Nat), NEW enc, Prefixed(enc, s),
         NEW t, Followed(t, enc, rest)
  PROVE  /\ enc \in Seq(Nat) /\ t \in Seq(Nat) /\ t # <<>> /\ t[1] = Len(s) /\ t[1] < Len(t)
         /\ SubSeq(t, 2, 1 + Len(s)) = s
         /\ From(t, 1 + Len(s)) = rest
<1> DEFINE n == <<Len(s)>>
           u == SubSeq(t, 2, 1 + Len(s))
<1>1. n \in Seq(Nat) /\ Len(n) = 1 /\ n[1] = Len(s) /\ Len(s) \in Nat /\ Len(rest) \in Nat
  OBVIOUS
<1>2. enc = n \o s
  BY DEF Prefixed
<1> HIDE DEF n
<1>3. InARow(t, n, s, rest)
  BY <1>2, Zenon DEF Followed, InARow
<1>4. /\ t \in Seq(Nat) /\ Len(t) = Len(n) + Len(s) + Len(rest)
      /\ \A i \in 1 .. Len(n) : t[i] = n[i]
      /\ \A i \in 1 .. Len(s) : t[Len(n) + i] = s[i]
      /\ SubSeq(t, Len(n) + Len(s) + 1, Len(t)) = rest
  <2>0. n \in Seq(Nat)
    BY <1>1
  <2> HIDE DEF u
  <2>1. QED  BY <1>3, <2>0, ThreeParts
<1>5. enc \in Seq(Nat)
  BY <1>1, <1>2
<1>6. t # <<>> /\ t[1] = Len(s) /\ t[1] < Len(t)
  BY <1>1, <1>4
<1>7. u = s
  <2>1. 2 \in Nat /\ 1 + Len(s) <= Len(t) /\ Len(s) \in Nat
    BY <1>1, <1>4
  <2>2. u \in Seq(Nat) /\ Len(u) = Len(s) /\ \A i \in 1 .. Len(s) : u[i] = t[1 + i]
    BY SMTT(60), <1>4, <2>1
  <2> HIDE DEF u
  <2>3. \A i \in 1 .. Len(s) : u[i] = s[i]
    BY <1>1, <1>4, <2>2
  <2>4. QED  BY <2>2, <2>3, SeqEqual
<1>8. From(t, 1 + Len(s)) = rest
  <2>1. Len(n) + Len(s) + 1 = (1 + Len(s)) + 1
    BY <1>1
  <2>2. QED  BY <1>4, <2>1, Zenon DEF From
<1>9. QED  BY <1>4, <1>5, <1>6, <1>7, <1>8 DEF u

Reads(t, type, v, rest) ==
  Parses(t, type) /\ From(t, Width(t, type)) = rest /\ Parsed(t, type) = v

(* A value's encoding, whatever follows, is parsed as the value.           *)
LEMMA ValueReads ==
  ASSUME NEW type \in UsedType, NEW v, Inlined(v, type), NEW rest \in Seq(Nat),
         NEW t, t = EncodedValue(v, type) \o rest
  PROVE  Reads(t, type, v, rest)
<1>1. PICK s \in InlineValues(type) : v = Inline(s)
  BY DEF Inlined
<1>2. EncodedValue(v, type) = IF type = "tiny" THEN s ELSE <<Len(s)>> \o s
  BY <1>1, InlineEncoded
<1>3. /\ s \in Seq(Nat)
      /\ type = "tiny" => Len(s) = 1 /\ s = <<s[1]>>
      /\ type = "date" => Len(s) \in TemporalLengths
      /\ type \in {"tiny", "blob", "date"}
  BY InlineValueBytes
<1>4. CASE type = "tiny"
  <2>1. t = s \o rest
    BY <1>2, <1>4
  <2>2. SubSeq(t, Len(s) + 1, Len(t)) = rest
    BY <1>3, <2>1, AfterPrefix
  <2>3. Len(t) = 1 + Len(rest) /\ Len(rest) \in Nat /\ t \in Seq(Nat) /\ t[1] = s[1]
    <3>1. Len(s) = 1 /\ Len(rest) \in Nat /\ 1 \in 1 .. 1
      BY <1>3, <1>4
    <3>2. t \in Seq(Nat) /\ Len(t) = Len(s) + Len(rest)
      BY <1>3, <2>1, Concatenated
    <3>3. \A i \in 1 .. Len(s) : t[i] = s[i]
      BY <1>3, <2>1, Concatenated
    <3>4. QED  BY <3>1, <3>2, <3>3
  <2>4. t # <<>> /\ Width(t, type) = 1 /\ Parsed(t, type) = Inline(<<t[1]>>)
    BY <1>4, <2>3 DEF Width, Parsed
  <2>5. Parses(t, type)
    BY <1>4, <2>4 DEF Parses
  <2>6. From(t, Width(t, type)) = rest
    BY <1>3, <1>4, <2>2, <2>4 DEF From
  <2>7. Parsed(t, type) = v
    BY <1>1, <1>3, <1>4, <2>3, <2>4
  <2>8. QED  BY <2>5, <2>6, <2>7 DEF Reads
<1>5. CASE type # "tiny"
  <2> DEFINE enc == <<Len(s)>> \o s
  <2>1. t = enc \o rest
    BY <1>2, <1>5
  <2>2. Prefixed(enc, s) /\ Followed(t, enc, rest)
    BY <2>1 DEF Prefixed, Followed
  <2> HIDE DEF enc
  <2>3. /\ t # <<>> /\ t[1] = Len(s) /\ t[1] < Len(t)
        /\ SubSeq(t, 2, 1 + Len(s)) = s
        /\ From(t, 1 + Len(s)) = rest
    <3>1. s \in Seq(Nat)
      BY <1>3
    <3>2. QED  BY <2>2, <3>1, Counts
  <2>4. Parses(t, type)
    BY <1>3, <1>5, <2>3 DEF Parses
  <2>5. Width(t, type) = 1 + Len(s)
    BY <1>5, <2>3, Zenon DEF Width
  <2>6. Parsed(t, type) = v
    BY <1>1, <1>5, <2>3, Zenon DEF Parsed
  <2>7. QED  BY <2>3, <2>4, <2>5, <2>6, Zenon DEF Reads
<1>6. QED  BY <1>4, <1>5

(* The values one after the other.                                         *)
LEMMA EncodedType ==
  ASSUME NEW types \in ClientTypes, NEW vs \in ClientValues(types)
  PROVE  /\ Encoded(types, vs) \in Seq(Seq(Nat)) /\ Len(Encoded(types, vs)) = Params
         /\ \A i \in 1 .. Params : /\ Encoded(types, vs)[i] = EncodedValue(vs[i], types[i])
                                   /\ ~Inlined(vs[i], types[i]) => Encoded(types, vs)[i] = <<>>
<1> DEFINE f == Encoded(types, vs)
<1>1. f = [i \in 1 .. Params |-> f[i]] /\ \A i \in 1 .. Params : f[i] = EncodedValue(vs[i], types[i])
  BY DEF Encoded
<1> HIDE DEF f
<1>2. ASSUME NEW i \in 1 .. Params
      PROVE f[i] \in Seq(Nat) /\ (~Inlined(vs[i], types[i]) => f[i] = <<>>)
  <2>1. /\ types[i] \in UsedType
        /\ vs[i] = Uploaded \/ vs[i] = Null \/ Inlined(vs[i], types[i])
    BY ClientValueIs
  <2>2. CASE Inlined(vs[i], types[i])
    <3>1. PICK s \in InlineValues(types[i]) : vs[i] = Inline(s)
      BY <2>2 DEF Inlined
    <3>2. f[i] = IF types[i] = "tiny" THEN s ELSE <<Len(s)>> \o s
      BY <1>1, <2>1, <3>1, InlineEncoded
    <3>3. s \in Seq(Nat)
      BY <2>1, InlineValueBytes
    <3>4. QED  BY <2>2, <3>2, <3>3
  <2>3. CASE vs[i] = Uploaded \/ vs[i] = Null
    <3>1. vs[i].kind # "inline"
      BY <2>3, NeverBoth
    <3>2. f[i] = <<>>
      BY <1>1, <3>1, Zenon DEF EncodedValue
    <3>3. QED  BY <3>2
  <2>4. QED  BY <2>1, <2>2, <2>3
<1>3. f \in Seq(Seq(Nat)) /\ Len(f) = Params
  <2>1. Params \in Nat /\ \A i \in 1 .. Params : f[i] \in Seq(Nat)
    BY <1>2, ParamsPositive
  <2>2. QED  BY <1>1, <2>1, FunctionIsSequence
<1>4. QED  BY <1>1, <1>2, <1>3 DEF f

LEMMA HonestHeader ==
  ASSUME NEW types \in ClientTypes, NEW vs \in ClientValues(types), NEW send \in BOOLEAN,
         NEW w, w = Encode(types, vs, send)
  PROVE  /\ HeaderComplete(w)
         /\ NewParamsBound(w) <=> send
         /\ send => TypeMap(w) = TypeBytes(types)
         /\ Values(w) = FlattenSeq(Encoded(types, vs))
         /\ \A c \in 0 .. Params - 1 : IsNull(w, c) <=> vs[c + 1] = Null
<1> DEFINE a == BitmapBytes(vs)
           b == Flagged(types, send)
           encs == Encoded(types, vs)
           d == FlattenSeq(encs)
           codes == TypeBytes(types)
<1>1. InARow(w, a, b, d)
  BY EncodeParts, Zenon DEF InARow
<1>2. a \in Seq(Nat) /\ Len(a) = NullMapLen
  BY BitmapBytesType
<1>3. /\ b \in Seq(Nat) /\ Len(b) = (IF send THEN 1 + Params ELSE 1) /\ b[1] = IF send THEN 1 ELSE 0
      /\ send => \A i \in 1 .. Params : b[1 + i] = codes[i]
  BY FlaggedType
<1>4. d \in Seq(Nat)
  <2>1. encs \in Seq(Seq(Nat))
    BY EncodedType
  <2> HIDE DEF encs
  <2>2. QED  BY <2>1, FlattenSeqType
<1>5. codes \in Seq(Nat) /\ Len(codes) = Params
  BY TypeBytesType
<1>6. \A k \in 1 .. NullMapLen : a[k] = BitmapByte(vs, k)
  BY DEF BitmapBytes
<1>7. NullMapLen \in Nat /\ Params \in Nat \ {0}
  BY NullMapLenType, ParamsPositive
<1> HIDE DEF a, b, d, codes
<1>8. /\ w \in Seq(Nat) /\ Len(w) = Len(a) + Len(b) + Len(d)
      /\ \A i \in 1 .. Len(a) : w[i] = a[i]
      /\ \A i \in 1 .. Len(b) : w[Len(a) + i] = b[i]
      /\ SubSeq(w, Len(a) + Len(b) + 1, Len(w)) = d
  <2>1. a \in Seq(Nat) /\ b \in Seq(Nat)
    BY <1>2, <1>3
  <2> HIDE DEF encs
  <2>2. QED  BY <1>1, <1>4, <2>1, ThreeParts, SMTT(60)
<1> DEFINE L == NullMapLen
<1>9. L \in Nat /\ Len(a) = L /\ Len(d) \in Nat
  BY <1>2, <1>4, <1>7
<1>10. \A k \in 1 .. L : w[k] = BitmapByte(vs, k)
  BY <1>2, <1>6, <1>8
<1> HIDE DEF L
<1>11. Len(w) = L + Len(b) + Len(d) /\ w[L + 1] = b[1] /\ Len(w) > L
  <2>1. Len(b) \in Nat /\ 1 \in 1 .. Len(b)
    BY <1>3, <1>7
  <2>2. w[L + 1] = b[1]
    BY <1>8, <1>9, <2>1
  <2>3. Len(w) = L + Len(b) + Len(d)
    BY <1>8, <1>9
  <2>4. QED  BY <1>9, <2>1, <2>2, <2>3
<1>12. w[L + 1] # 0 <=> send
  BY <1>3, <1>11
<1>13. NewParamsBound(w) <=> send
  BY <1>12 DEF NewParamsBound, L
<1>14. HeaderComplete(w)
  <2>1. send => Len(w) >= L + 1 + Params
    BY <1>3, <1>7, <1>9, <1>11
  <2>2. QED  BY <1>11, <1>13, <2>1, Zenon DEF HeaderComplete, L
<1>15. ASSUME send PROVE TypeMap(w) = codes
  <2> DEFINE x == SubSeq(w, L + 2, L + 1 + Params)
  <2>1. Len(b) = 1 + Params /\ L + 1 + Params <= Len(w)
    BY <1>3, <1>7, <1>9, <1>11, <1>15
  <2>2. \A i \in 1 .. Params : w[L + 1 + i] = codes[i]
    <3> TAKE i \in 1 .. Params
    <3>1. 1 + i \in 1 .. Len(b) /\ L + (1 + i) = L + 1 + i
      BY <1>7, <1>9, <2>1
    <3>2. w[Len(a) + (1 + i)] = b[1 + i] /\ b[1 + i] = codes[i]
      BY <1>3, <1>8, <1>15, <3>1
    <3>3. QED  BY <1>9, <3>1, <3>2
  <2>3. x \in Seq(Nat) /\ Len(x) = Params /\ \A i \in 1 .. Params : x[i] = w[L + 1 + i]
    BY SMTT(60), <1>7, <1>8, <1>9, <2>1
  <2> HIDE DEF x
  <2>4. x = codes
    BY <1>5, <2>2, <2>3, SeqEqual
  <2>5. QED  BY <2>4, Zenon DEF TypeMap, x, L
<1>16. Values(w) = d
  <2> DEFINE n == L + 1 + (IF send THEN Params ELSE 0)
  <2>1. n = Len(a) + Len(b)
    BY <1>3, <1>7, <1>9
  <2> HIDE DEF n
  <2>2. From(w, n) = d
    BY <1>8, <2>1, Zenon DEF From
  <2>3. Values(w) = From(w, L + 1 + (IF NewParamsBound(w) THEN Params ELSE 0))
    BY Zenon DEF Values, L
  <2>4. n = L + 1 + (IF NewParamsBound(w) THEN Params ELSE 0)
    BY <1>13 DEF n
  <2>5. QED  BY <2>2, <2>3, <2>4, Zenon
<1>17. ASSUME NEW c \in 0 .. Params - 1 PROVE IsNull(w, c) <=> vs[c + 1] = Null
  <2> DEFINE k == c \div NullBits + 1
  <2>1. k \in 1 .. L
    BY BitmapReaches DEF L
  <2>2. IsSet(BitmapByte(vs, k), c % NullBits) <=> vs[c + 1] = Null
    BY NullBitReads
  <2>3. IsNull(w, c) <=> IsSet(w[k], c % NullBits)
    BY Zenon DEF IsNull
  <2> HIDE DEF k
  <2>4. w[k] = BitmapByte(vs, k)
    BY <1>10, <2>1
  <2>5. QED  BY <2>2, <2>3, <2>4, Zenon
<1>18. QED  BY <1>13, <1>14, <1>15, <1>16, <1>17 DEF d, codes

(* The type map an honest client sends is read back as its types.          *)
LEMMA HonestTypes ==
  ASSUME NEW types \in ClientTypes, NEW old
  PROVE  Rebound(old, TypeBytes(types)) = types
<1> DEFINE tb == TypeBytes(types)
           good == {n \in 0 .. Len(tb) : \A i \in 1 .. n : TypeOf(tb[i]) \in ColumnType}
           n0 == CHOOSE n \in good : \A k \in good : k <= n
<1>1. /\ tb \in Seq(Nat) /\ Len(tb) = Params
      /\ \A i \in 1 .. Params : TypeOf(tb[i]) = types[i] /\ types[i] \in ColumnType
  BY TypeBytesType
<1>2. Params \in Nat
  BY ParamsPositive
<1> HIDE DEF tb
<1>3. good \in SUBSET (0 .. Params) /\ Params \in good
  BY <1>1, <1>2
<1>4. Rebound(old, tb) = [i \in 1 .. n0 |-> TypeOf(tb[i])]
  BY Zenon DEF Rebound
<1> HIDE DEF good
<1>5. \A k \in good : k <= Params
  BY <1>2, <1>3
<1>6. n0 \in good /\ \A k \in good : k <= n0
  BY <1>3, <1>5, Zenon
<1> HIDE DEF n0
<1>7. n0 = Params
  BY <1>2, <1>3, <1>6
<1>8. Rebound(old, tb) = [i \in 1 .. Params |-> types[i]]
  BY <1>1, <1>4, <1>7
<1>9. types = [i \in 1 .. Params |-> types[i]]
  BY DEF ClientTypes
<1>10. QED  BY <1>8, <1>9, Zenon DEF tb

LEMMA ClientTypesLength ==
  ASSUME NEW types \in ClientTypes
  PROVE  Len(types) = Params
<1>1. types = [i \in 1 .. Params |-> types[i]] /\ \A i \in 1 .. Params : types[i] \in UsedType
  BY DEF ClientTypes
<1>2. Params \in Nat
  BY ParamsPositive
<1>3. QED  BY <1>1, <1>2, FunctionIsSequence

-----------------------------------------------------------------------------
(* What is left of an honest client's values before a column.              *)
Remains(encs, c) == FlattenSeq(SubSeq(encs, c + 1, Params))

LEMMA RemainsStep ==
  ASSUME NEW encs \in Seq(Seq(Nat)), Len(encs) = Params, NEW c \in 0 .. Params - 1
  PROVE  /\ Remains(encs, c) = encs[c + 1] \o Remains(encs, c + 1)
         /\ Remains(encs, c + 1) \in Seq(Nat) /\ encs[c + 1] \in Seq(Nat)
<1> DEFINE ss == SubSeq(encs, c + 1, Params)
           tt == SubSeq(encs, (c + 1) + 1, Params)
<1>1. Params \in Nat /\ c + 1 \in 1 .. Len(encs) /\ Params \in c + 1 .. Len(encs)
  BY ParamsPositive
<1>2. Head(ss) = encs[c + 1] /\ Tail(ss) = tt
  BY <1>1, HeadTailOfSubSeq
<1>3. ss \in Seq(Seq(Nat)) /\ Len(ss) = Params - c /\ tt \in Seq(Seq(Nat))
  BY <1>1
<1>4. ss # <<>> /\ encs[c + 1] \in Seq(Nat)
  <2>1. encs[c + 1] \in Seq(Nat)
    BY <1>1
  <2> HIDE DEF ss
  <2>2. Len(ss) # 0
    BY <1>1, <1>3
  <2>3. ss # <<>>
    BY <2>2
  <2>4. QED  BY <2>1, <2>3, Zenon
<1> HIDE DEF ss, tt
<1>5. FlattenSeq(ss) = Head(ss) \o FlattenSeq(Tail(ss))
  BY <1>3, <1>4, FlattenSeqFirst
<1>6. FlattenSeq(tt) \in Seq(Nat)
  BY <1>3, FlattenSeqType
<1>7. Remains(encs, c) = FlattenSeq(ss) /\ Remains(encs, c + 1) = FlattenSeq(tt)
  BY Zenon DEF Remains, ss, tt
<1>8. QED  BY <1>2, <1>4, <1>5, <1>6, <1>7

LEMMA RemainsFirst ==
  ASSUME NEW encs \in Seq(Seq(Nat)), Len(encs) = Params
  PROVE  Remains(encs, 0) = FlattenSeq(encs) /\ Remains(encs, Params) = <<>>
<1>1. SubSeq(encs, 0 + 1, Params) = encs
  <2>1. SubSeq(encs, 1, Len(encs)) = encs
    BY SubSeqFull
  <2>2. QED  BY <2>1
<1>2. SubSeq(encs, Params + 1, Params) = <<>>
  BY ParamsPositive
<1>3. QED  BY <1>1, <1>2, FlattenSeqEmpty DEF Remains

Malformed(r) == r.error = "malformed"

(* One column of a walk.                                                   *)
LEMMA ColumnSteps ==
  ASSUME NEW f, NEW w, NEW types, NEW uploads, Walks(f, w, types, uploads),
         NEW c \in 0 .. Params - 1
  PROVE  /\ ~Well(f[c]) => f[c + 1] = f[c]
         /\ Well(f[c]) /\ c \in uploads =>
              f[c + 1] = f[c] \/ (~Well(f[c + 1]) /\ ~Malformed(f[c + 1]))
         /\ Well(f[c]) /\ c \notin uploads /\ IsNull(w, c) => f[c + 1] = f[c]
         /\ Well(f[c]) /\ c \notin uploads /\ ~IsNull(w, c) /\ Parses(f[c].left, types[c + 1]) =>
              /\ Well(f[c + 1])
              /\ f[c + 1].left = From(f[c].left, Width(f[c].left, types[c + 1]))
<1>1. c \in 0 .. Params /\ (c + 1) - 1 = c
  BY ParamsPositive
<1>2. PICK e, l : f[c] = [error |-> e, left |-> l]
  BY <1>1, WalkRests DEF IsRest
<1> DEFINE type == types[c + 1]
           r == f[c]
           r2 == [r EXCEPT !.error = "long_data"]
           r3 == [r EXCEPT !.left = From(@, Width(@, type))]
           r4 == [r EXCEPT !.error = "malformed"]
<1>3. f[c + 1] = IF ~Well(r) THEN r
                 ELSE IF c \in uploads THEN IF type = "blob" THEN r ELSE r2
                 ELSE IF IsNull(w, c) THEN r
                 ELSE IF Parses(r.left, type) THEN r3 ELSE r4
  <2>1. f[c + 1] = CheckColumn(w, types, uploads, c + 1, f[c])
    BY WalkStep, Zenon
  <2>2. QED  BY <1>1, <2>1, Zenon DEF CheckColumn, Well
<1>4. r2.error = "long_data"
  BY <1>2
<1>5. r3.error = r.error /\ r3.left = From(r.left, Width(r.left, type))
  BY <1>2
<1>6. ~Well(r2) /\ ~Malformed(r2) /\ (Well(r) => Well(r3))
  BY <1>4, <1>5, Zenon DEF Well, Malformed
<1> HIDE DEF r2, r3, r4
<1>7. QED  BY <1>3, <1>5, <1>6, Zenon DEF r, type

(* The walk through an honest client's values.                             *)
Goes(r, encs, c) == ~Malformed(r) /\ (Well(r) => r.left = Remains(encs, c))

LEMMA HonestWalk ==
  ASSUME NEW types \in ClientTypes, NEW vs \in ClientValues(types), NEW send \in BOOLEAN,
         NEW w, w = Encode(types, vs, send), NEW f, Walks(f, w, types, long_data)
  PROVE  \A c \in 0 .. Params : Goes(f[c], Encoded(types, vs), c)
<1> DEFINE encs == Encoded(types, vs)
<1>1. /\ encs \in Seq(Seq(Nat)) /\ Len(encs) = Params
      /\ \A i \in 1 .. Params : /\ encs[i] = EncodedValue(vs[i], types[i])
                                /\ ~Inlined(vs[i], types[i]) => encs[i] = <<>>
  BY EncodedType
<1>2. /\ Values(w) = FlattenSeq(encs)
      /\ \A c \in 0 .. Params - 1 : IsNull(w, c) <=> vs[c + 1] = Null
  BY HonestHeader
<1> HIDE DEF encs
<1>3. Params \in Nat
  BY ParamsPositive
<1> DEFINE T == {c \in Nat : c <= Params => Goes(f[c], encs, c)}
<1>4. 0 \in T
  <2>1. f[0] = Start(w)
    BY WalkFirst, Zenon
  <2>2. Start(w).left = Values(w)
    BY DEF Start
  <2>3. Well(Start(w))
    BY Zenon DEF Start, Well
  <2>4. ~Malformed(Start(w))
    BY <2>3, Zenon DEF Well, Malformed
  <2>5. Values(w) = Remains(encs, 0)
    BY <1>1, <1>2, RemainsFirst
  <2>6. Goes(f[0], encs, 0)
    BY <2>1, <2>2, <2>4, <2>5, Zenon DEF Goes
  <2>7. QED  BY <2>6
<1>5. ASSUME NEW c \in Nat, c \in T PROVE c + 1 \in T
  <2> SUFFICES ASSUME c + 1 <= Params PROVE Goes(f[c + 1], encs, c + 1)
    OBVIOUS
  <2>1. c \in 0 .. Params - 1 /\ c + 1 \in 1 .. Params /\ c <= Params /\ (c + 1) - 1 = c
    BY <1>3
  <2>2. Goes(f[c], encs, c)
    BY <1>5, <2>1
  <2>3. /\ Remains(encs, c) = encs[c + 1] \o Remains(encs, c + 1)
        /\ Remains(encs, c + 1) \in Seq(Nat)
    BY <1>1, <2>1, RemainsStep
  <2>4. encs[c + 1] = <<>> => Remains(encs, c) = Remains(encs, c + 1)
    BY <2>3
  <2>5. /\ types[c + 1] \in UsedType
        /\ c \in long_data => vs[c + 1] = Uploaded
        /\ c \notin long_data => vs[c + 1] = Null \/ Inlined(vs[c + 1], types[c + 1])
    BY <2>1, ClientValueIs
  <2>6. CASE ~Well(f[c])
    BY <2>1, <2>2, <2>6, ColumnSteps, Zenon DEF Goes
  <2>7. CASE Well(f[c]) /\ c \in long_data
    <3>1. encs[c + 1] = <<>>
      BY <1>1, <2>1, <2>5, <2>7, InlineIsNeither, Zenon
    <3>2. f[c + 1] = f[c] \/ (~Well(f[c + 1]) /\ ~Malformed(f[c + 1]))
      BY <2>1, <2>7, ColumnSteps, ZenonT(90)
    <3>3. QED  BY <2>2, <2>4, <3>1, <3>2, Zenon DEF Goes
  <2>8. CASE Well(f[c]) /\ c \notin long_data /\ vs[c + 1] = Null
    <3>1. encs[c + 1] = <<>>
      BY <1>1, <2>1, <2>5, <2>8, InlineIsNeither, Zenon
    <3>2. f[c + 1] = f[c]
      BY <1>2, <2>1, <2>8, ColumnSteps, Zenon
    <3>3. QED  BY <2>2, <2>4, <3>1, <3>2, Zenon DEF Goes
  <2>9. CASE Well(f[c]) /\ c \notin long_data /\ vs[c + 1] # Null
    <3>1. Inlined(vs[c + 1], types[c + 1]) /\ ~IsNull(w, c)
      BY <1>2, <2>1, <2>5, <2>9, Zenon
    <3>2. encs[c + 1] = EncodedValue(vs[c + 1], types[c + 1])
      BY <1>1, <2>1
    <3>3. Reads(Remains(encs, c), types[c + 1], vs[c + 1], Remains(encs, c + 1))
      <4> DEFINE type == types[c + 1]
                 v == vs[c + 1]
                 rest == Remains(encs, c + 1)
                 t == Remains(encs, c)
      <4>1. /\ type \in UsedType /\ Inlined(v, type) /\ rest \in Seq(Nat)
            /\ t = EncodedValue(v, type) \o rest
        BY <2>3, <2>5, <3>1, <3>2
      <4> HIDE DEF type, v, rest, t
      <4>2. Reads(t, type, v, rest)
        BY <4>1, ValueReads
      <4>3. QED  BY <4>2 DEF type, v, rest, t
    <3>4. f[c].left = Remains(encs, c)
      BY <2>2, <2>9, Zenon DEF Goes
    <3>5. Well(f[c + 1]) /\ f[c + 1].left = Remains(encs, c + 1)
      <4> DEFINE type == types[c + 1]
                 left == f[c].left
      <4>1. Parses(left, type) /\ From(left, Width(left, type)) = Remains(encs, c + 1)
        BY <3>3, <3>4, Zenon DEF Reads
      <4>2. Well(f[c]) /\ c \notin long_data /\ ~IsNull(w, c)
        BY <2>9, <3>1
      <4>3. Well(f[c + 1]) /\ f[c + 1].left = From(left, Width(left, type))
        BY <2>1, <4>1, <4>2, ColumnSteps
      <4>4. QED  BY <4>1, <4>3, Zenon
    <3>6. ~Malformed(f[c + 1])
      BY <3>5, Zenon DEF Well, Malformed
    <3>7. QED  BY <3>5, <3>6, Zenon DEF Goes
  <2>10. QED  BY <2>6, <2>7, <2>8, <2>9
<1> HIDE DEF T
<1>6. Nat \subseteq T
  BY <1>4, <1>5, NatInductionOnSet
<1>7. \A c \in 0 .. Params : c \in Nat /\ c <= Params
  BY <1>3
<1>8. QED  BY <1>6, <1>7, Zenon DEF T, encs

-----------------------------------------------------------------------------
(* The invariant: the types an honest client counts on are those bound,    *)
(* and what is served is its EXECUTE, read up to the column the iterator   *)
(* stands before.                                                          *)

HonestAs(types, vs, send) ==
  /\ bound_types = types /\ intended = vs /\ wire = Encode(types, vs, send)
  /\ vs \in ClientValues(types) /\ produced = SubSeq(vs, 1, col)

Served == \E types \in ClientTypes, send \in BOOLEAN : \E vs : HonestAs(types, vs, send)

HonestInv ==
  /\ client_types \in ClientTypes => bound_types = client_types
  /\ HonestExecuteAccepted
  /\ wire # <<>> /\ intended # <<>> => Served

LEMMA ClientValuesSequence ==
  ASSUME NEW types, NEW vs \in ClientValues(types)
  PROVE  \E S : vs \in Seq(S) /\ Len(vs) = Params
<1> DEFINE V == {Null, Uploaded} \cup UNION {{Inline(s) : s \in InlineValues(t)} : t \in UsedType}
<1>1. vs \in [1 .. Params -> V]
  BY DEF ClientValues
<1> HIDE DEF V
<1>2. vs = [i \in 1 .. Params |-> vs[i]] /\ \A i \in 1 .. Params : vs[i] \in V
  BY <1>1
<1>3. Params \in Nat
  BY ParamsPositive
<1>4. vs \in Seq(V) /\ Len(vs) = Params
  BY <1>2, <1>3, FunctionIsSequence
<1>5. QED  BY <1>4

LEMMA NoTypesYet == <<>> \notin ClientTypes
<1>1. SUFFICES ASSUME <<>> \in ClientTypes PROVE FALSE
  OBVIOUS
<1>2. Len(<<>>) = Params /\ Len(<<>>) = 0
  BY <1>1, ClientTypesLength
<1>3. QED  BY <1>2, ParamsPositive

(* An honest EXECUTE binds the types it means and is malformed to nobody.  *)
LEMMA HonestReceived ==
  ASSUME NEW types \in ClientTypes, NEW vs \in ClientValues(types), NEW send \in BOOLEAN,
         ~send => bound_types = types, NEW w, w = Encode(types, vs, send)
  PROVE  TypesAfter(w) = types /\ Validate(w) # "malformed"
<1> DEFINE encs == Encoded(types, vs)
<1>1. /\ HeaderComplete(w) /\ (NewParamsBound(w) <=> send)
      /\ send => TypeMap(w) = TypeBytes(types)
  BY HonestHeader
<1>2. TypesAfter(w) = types
  <2>1. Rebound(bound_types, TypeBytes(types)) = types
    BY HonestTypes
  <2>2. QED  BY <1>1, <2>1, Zenon DEF TypesAfter
<1>3. PICK f : Walks(f, w, types, long_data) /\ Walk(w, types, long_data) = f[Params]
  BY WalkIs, Zenon
<1>4. Goes(f[Params], encs, Params)
  <2>1. \A c \in 0 .. Params : Goes(f[c], encs, c)
    BY <1>3, HonestWalk
  <2>2. Params \in 0 .. Params
    BY ParamsPositive
  <2>3. QED  BY <2>1, <2>2, Zenon
<1>5. Remains(encs, Params) = <<>>
  <2>1. encs \in Seq(Seq(Nat)) /\ Len(encs) = Params
    BY EncodedType
  <2> HIDE DEF encs
  <2>2. QED  BY <2>1, RemainsFirst
<1>6. ~(Len(types) < Params)
  BY ClientTypesLength, ParamsPositive
<1>7. CASE ~Well(f[Params])
  <2>1. Validate(w) = f[Params].error
    BY <1>1, <1>2, <1>3, <1>6, <1>7, Zenon DEF Validate, Well
  <2>2. QED  BY <1>2, <1>4, <2>1, Zenon DEF Goes, Malformed
<1>8. CASE Well(f[Params])
  <2>1. f[Params].left = <<>>
    BY <1>4, <1>5, <1>8, Zenon DEF Goes
  <2>2. Accepted(w)
    BY <1>1, <1>2, <1>3, <1>6, <1>8, <2>1, Zenon DEF Accepted, Validate, Well, Trailing
  <2>3. QED  BY <1>2, <2>2, Zenon DEF Accepted
<1>9. QED  BY <1>7, <1>8

LEMMA HonestExecuteStep ==
  ASSUME IteratorInv, HonestInv, Execute
  PROVE  HonestInv'
<1>0. PICK types \in ClientTypes :
        \E vs \in ClientValues(types), send \in BOOLEAN :
          /\ ~send => client_types = types
          /\ \/ Receives(Encode(types, vs, send), types, vs)
             \/ \E a \in Altered(Encode(types, vs, send)) : Receives(a, <<>>, <<>>)
  BY Zenon DEF Execute
<1>1. PICK vs \in ClientValues(types), send \in BOOLEAN :
        /\ ~send => client_types = types
        /\ \/ Receives(Encode(types, vs, send), types, vs)
           \/ \E a \in Altered(Encode(types, vs, send)) : Receives(a, <<>>, <<>>)
  BY <1>0
<1> DEFINE w == Encode(types, vs, send)
<1>2. wire = <<>>
  BY Zenon DEF Execute, Idle
<1>3. CASE Receives(w, types, vs)
  <2>1. ~send => bound_types = types
    BY <1>1, Zenon DEF HonestInv
  <2> HIDE DEF w
  <2>2. TypesAfter(w) = types /\ Validate(w) # "malformed"
    BY <2>1, HonestReceived, Zenon DEF w
  <2>3. bound_types' = types /\ intended' = vs
    BY <1>3, <2>2, Zenon DEF Receives
  <2>4. CASE ~Accepted(w)
    <3>1. Rejects(Validate(w))
      BY <1>3, <2>4, Zenon DEF Receives, Accepted
    <3>2. client_types' = <<>> /\ refused' # "malformed" /\ wire' = <<>>
      BY <1>2, <2>2, <3>1, Zenon DEF Rejects
    <3>3. QED  BY <3>2, NoTypesYet, Zenon DEF HonestInv, HonestExecuteAccepted
  <2>5. CASE Accepted(w)
    <3>1. Serves(w) /\ client_types' = types
      BY <1>3, <2>5, Zenon DEF Receives, Accepted
    <3>2. /\ wire' = w /\ col' = 0 /\ produced' = <<>> /\ refused' # "malformed"
          /\ long_data' = long_data
      BY <3>1, Zenon DEF Serves
    <3>3. (vs \in ClientValues(types))'
      BY <3>2 DEF ClientValues
    <3>4. SubSeq(vs, 1, 0) = <<>>
      BY SubSeqEmpty
    <3>5. HonestAs(types, vs, send)'
      BY <2>3, <3>2, <3>3, <3>4, Zenon DEF HonestAs, w
    <3>6. Served'
      BY <3>5, Zenon DEF Served
    <3>7. QED  BY <2>3, <3>1, <3>2, <3>6, Zenon DEF HonestInv, HonestExecuteAccepted
  <2>6. QED  BY <2>4, <2>5
<1>4. CASE \E a \in Altered(w) : Receives(a, <<>>, <<>>)
  <2>1. PICK a : Receives(a, <<>>, <<>>)
    BY <1>4
  <2>2. intended' = <<>>
    BY <2>1, Zenon DEF Receives
  <2>3. client_types' = <<>>
    BY <2>1, Zenon DEF Receives, Rejects
  <2>4. QED  BY <2>2, <2>3, NoTypesYet, Zenon DEF HonestInv, HonestExecuteAccepted
<1>5. QED  BY <1>1, <1>3, <1>4

(* A parameter the iterator returns is the one the client meant.           *)
LEMMA HonestRead ==
  ASSUME NEW types \in ClientTypes, NEW send \in BOOLEAN, NEW vs, HonestAs(types, vs, send),
         NEW f, Validated(wire, bound_types, long_data, f), NEW c \in 0 .. Params - 1
  PROVE  ReadAt(f, c) = vs[c + 1]
<1> DEFINE encs == Encoded(types, vs)
<1>1. bound_types = types /\ wire = Encode(types, vs, send) /\ vs \in ClientValues(types)
  BY Zenon DEF HonestAs
<1>2. Walks(f, wire, types, long_data) /\ Well(f[Params])
  BY <1>1, Zenon DEF Validated
<1>3. c \in 0 .. Params /\ c + 1 \in 1 .. Params /\ (c + 1) - 1 = c
  BY ParamsPositive
<1>4. f[c].left = Remains(encs, c)
  <2>1. Goes(f[c], encs, c)
    BY <1>1, <1>2, <1>3, HonestWalk, Zenon
  <2>2. Well(f[c])
    BY <1>2, <1>3, WalkGoesWell, Zenon
  <2>3. QED  BY <2>1, <2>2, Zenon DEF Goes
<1>5. IsNull(wire, c) <=> vs[c + 1] = Null
  BY <1>1, HonestHeader, Zenon
<1>6. /\ types[c + 1] \in UsedType
      /\ c \in long_data => vs[c + 1] = Uploaded
      /\ c \notin long_data => vs[c + 1] = Null \/ Inlined(vs[c + 1], types[c + 1])
  BY <1>1, <1>3, ClientValueIs, Zenon
<1>7. CASE c \in long_data \/ vs[c + 1] = Null
  BY <1>5, <1>6, <1>7, Zenon DEF ReadAt
<1>8. CASE c \notin long_data /\ vs[c + 1] # Null
  <2> DEFINE type == types[c + 1]
             v == vs[c + 1]
             rest == Remains(encs, c + 1)
             t == Remains(encs, c)
  <2>1. /\ encs \in Seq(Seq(Nat)) /\ Len(encs) = Params
        /\ encs[c + 1] = EncodedValue(vs[c + 1], types[c + 1])
    BY <1>1, <1>3, EncodedType
  <2> HIDE DEF encs
  <2>2. t = encs[c + 1] \o rest /\ rest \in Seq(Nat)
    BY <2>1, RemainsStep
  <2>3. t = EncodedValue(v, type) \o rest /\ type \in UsedType /\ Inlined(v, type)
    BY <1>6, <1>8, <2>1, <2>2
  <2> HIDE DEF type, v, rest, t
  <2>4. Reads(t, type, v, rest)
    BY <2>2, <2>3, ValueReads
  <2>5. Parsed(t, type) = v
    BY <2>4, Zenon DEF Reads
  <2>6. QED  BY <1>1, <1>4, <1>5, <1>8, <2>5, Zenon DEF ReadAt, type, v, t
<1>9. QED  BY <1>7, <1>8

LEMMA HonestNextParamStep ==
  ASSUME IteratorInv, HonestInv, NextParam
  PROVE  HonestInv'
<1>1. PICK f : Reading(f)
  BY NextParamReads
<1>2. /\ Validated(wire, bound_types, long_data, f) /\ wire # <<>>
      /\ UNCHANGED <<bound_types, long_data, wire>>
      /\ \/ UNCHANGED <<col, produced>>
         \/ /\ col \in 0 .. Params - 1 /\ col' = col + 1
            /\ produced' = Append(produced, ReadAt(f, col))
  BY <1>1, Zenon DEF Reading
<1>3. UNCHANGED <<client_types, intended, refused>>
  BY Zenon DEF NextParam
<1>4. ASSUME intended # <<>> PROVE Served'
  <2>1. PICK types \in ClientTypes, send \in BOOLEAN : \E vs : HonestAs(types, vs, send)
    BY <1>2, <1>4, Zenon DEF HonestInv, Served
  <2>2. PICK vs : HonestAs(types, vs, send)
    BY <2>1
  <2>3. /\ bound_types = types /\ intended = vs /\ wire = Encode(types, vs, send)
        /\ vs \in ClientValues(types) /\ produced = SubSeq(vs, 1, col)
    BY <2>2, Zenon DEF HonestAs
  <2>4. (vs \in ClientValues(types))'
    BY <1>2, <2>3 DEF ClientValues
  <2>5. produced' = SubSeq(vs, 1, col')
    <3>1. CASE UNCHANGED <<col, produced>>
      BY <2>3, <3>1, Zenon
    <3>2. CASE /\ col \in 0 .. Params - 1 /\ col' = col + 1
               /\ produced' = Append(produced, ReadAt(f, col))
      <4>1. produced' = Append(SubSeq(vs, 1, col), vs[col + 1])
        BY <1>2, <2>2, <2>3, <3>2, HonestRead, Zenon
      <4>2. Append(SubSeq(vs, 1, col), vs[col + 1]) = SubSeq(vs, 1, col + 1)
        <5>1. \E S : vs \in Seq(S) /\ Len(vs) = Params
          BY <2>3, ClientValuesSequence
        <5>2. PICK S : vs \in Seq(S) /\ Len(vs) = Params
          BY <5>1
        <5>3. col \in 0 .. Len(vs) - 1 /\ Len(vs) \in Nat
          BY <3>2, <5>2, ParamsPositive
        <5>4. QED  BY <5>2, <5>3, PrefixGrows
      <4>3. QED  BY <3>2, <4>1, <4>2, Zenon
    <3>3. QED  BY <1>2, <3>1, <3>2
  <2>6. HonestAs(types, vs, send)'
    BY <1>2, <1>3, <2>3, <2>4, <2>5, Zenon DEF HonestAs
  <2>7. QED  BY <2>6, Zenon DEF Served
<1>5. QED  BY <1>2, <1>3, <1>4, Zenon DEF HonestInv, HonestExecuteAccepted

(* Steps after which the client means no EXECUTE.                          *)
LEMMA NothingMeant ==
  ASSUME HonestInv, intended' = <<>>, bound_types' = bound_types,
         client_types' = client_types \/ client_types' = <<>>
  PROVE  HonestInv'
BY NoTypesYet, Zenon DEF HonestInv, HonestExecuteAccepted

LEMMA HonestStays ==
  ASSUME HonestInv, UNCHANGED vars
  PROVE  HonestInv'
<1>1. UNCHANGED <<bound_types, long_data, wire, col, produced, client_types, intended, refused>>
  BY DEF vars, statement, iterator
<1>2. \A types : ClientValues(types)' = ClientValues(types)
  BY <1>1 DEF ClientValues
<1>3. \A types, vs, send : HonestAs(types, vs, send)' = HonestAs(types, vs, send)
  BY <1>1, <1>2, Zenon DEF HonestAs
<1>4. Served' = Served
  BY <1>3, Zenon DEF Served
<1>5. QED  BY <1>1, <1>4, Zenon DEF HonestInv, HonestExecuteAccepted

(* The client's own EXECUTEs are served with the types it counts on and    *)
(* read back as it meant them.                                             *)
THEOREM HonestExecutesAreServed == Spec => []HonestInv
<1>1. Init => HonestInv
  <2> SUFFICES ASSUME Init PROVE HonestInv
    OBVIOUS
  <2>1. client_types = <<>> /\ intended = <<>>
    BY Zenon DEF Init
  <2>2. QED  BY <2>1, NoTypesYet, Zenon DEF HonestInv, HonestExecuteAccepted
<1>2. IteratorInv /\ HonestInv /\ [Next]_vars => HonestInv'
  <2> SUFFICES ASSUME IteratorInv, HonestInv, [Next]_vars PROVE HonestInv'
    OBVIOUS
  <2>1. CASE Execute
    BY <2>1, HonestExecuteStep
  <2>2. CASE ExecutePending
    BY <2>2, NothingMeant, Zenon DEF ExecutePending, statement
  <2>3. CASE NextParam
    BY <2>3, HonestNextParamStep
  <2>4. CASE Answer
    BY <2>4, NothingMeant, Zenon DEF Answer
  <2>5. CASE SendLongData
    BY <2>5, NothingMeant, Zenon DEF SendLongData
  <2>6. CASE Reset
    BY <2>6, NothingMeant, Zenon DEF Reset, TypesAfterReset
  <2>7. CASE UNCHANGED vars
    BY <2>7, HonestStays
  <2>8. QED  BY <2>1, <2>2, <2>3, <2>4, <2>5, <2>6, <2>7 DEF Next
<1>3. QED  BY <1>1, <1>2, IteratorFollows, PTL DEF Spec

(* The backend is handed the values the client meant, each under its own   *)
(* parameter, and once the iterator has ended, all of them.                *)
THEOREM ParametersComeAsSent == Spec => []ParametersAsSent
<1>1. IteratorInv /\ HonestInv => ParametersAsSent
  <2> SUFFICES ASSUME IteratorInv, HonestInv, wire # <<>>, intended # <<>>
               PROVE  IF ended THEN produced = intended ELSE IsPrefix(produced, intended)
    BY Zenon DEF ParametersAsSent
  <2>1. PICK types \in ClientTypes, send \in BOOLEAN : \E vs : HonestAs(types, vs, send)
    BY Zenon DEF HonestInv, Served
  <2>2. PICK vs : HonestAs(types, vs, send)
    BY <2>1
  <2>3. vs \in ClientValues(types) /\ intended = vs /\ produced = SubSeq(vs, 1, col)
    BY <2>2, Zenon DEF HonestAs
  <2>4. PICK S : vs \in Seq(S) /\ Len(vs) = Params
    BY <2>3, ClientValuesSequence
  <2>5. col \in 0 .. Params /\ (ended => col = Params)
    BY Zenon DEF IteratorInv, Following
  <2>6. Len(vs) \in Nat /\ col \in 0 .. Len(vs)
    BY <2>4, <2>5, ParamsPositive
  <2>7. CASE ended
    <3>1. produced = SubSeq(vs, 1, Len(vs))
      BY <2>3, <2>4, <2>5, <2>7
    <3>2. QED  BY <2>3, <2>4, <2>7, <3>1, SubSeqFull
  <2>8. CASE ~ended
    <3>1. produced = SubSeq(vs, 1, col) /\ col \in 0 .. Len(vs)
      BY <2>3, <2>6
    <3>2. IsPrefix(produced, vs)
      BY <2>4, <3>1, PrefixIsPrefix
    <3>3. QED  BY <2>3, <2>8, <3>2
  <2>9. QED  BY <2>7, <2>8
<1>2. QED  BY <1>1, IteratorFollows, HonestExecutesAreServed, PTL

(* An honest EXECUTE is malformed to nobody, also one that relies on types *)
(* bound before a RESET or before uploads.                                 *)
THEOREM HonestExecutesAreAccepted == Spec => []HonestExecuteAccepted
<1>1. HonestInv => HonestExecuteAccepted
  BY Zenon DEF HonestInv
<1>2. QED  BY <1>1, HonestExecutesAreServed, PTL

=============================================================================
