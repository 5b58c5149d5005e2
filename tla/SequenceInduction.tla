-------------------------- MODULE SequenceInduction --------------------------
(***************************************************************************)
(* Induction over the natural numbers stated with sets instead of          *)
(* predicates, and what follows from it for sequences put together from    *)
(* shorter ones, for functions defined by recursion over the numbers, and  *)
(* for the bits of a byte: the lemmas behind the proofs about streams of   *)
(* bytes.                                                                  *)
(***************************************************************************)
EXTENDS SequencesExt, SequenceTheorems, WellFoundedInduction, Bits, TLAPS

-----------------------------------------------------------------------------
(* A set of numbers that is not empty has a least one.                     *)
LEMMA LeastNatural ==
  ASSUME NEW T \in SUBSET Nat, T # {}
  PROVE  \E n \in T : \A m \in T : n <= m
<1> DEFINE R == OpToRel(<, Nat)
<1>1. IsWellFoundedOn(R, Nat)
  BY NatLessThanWellFounded
<1>2. \A m, n \in Nat : <<m, n>> \in R <=> m < n
  BY DEF OpToRel
<1> HIDE DEF R
<1>3. PICK n \in T : \A m \in T : ~(<<m, n>> \in R)
  BY <1>1, WFMin
<1>4. \A m \in T : ~(m < n)
  BY <1>2, <1>3
<1>5. \A m \in T : m \in Nat /\ n \in Nat
  OBVIOUS
<1>6. QED  BY <1>4, <1>5

(* A set that holds 0 and, with a number, the next holds every number.     *)
LEMMA NatInductionOnSet ==
  ASSUME NEW T, 0 \in T, \A n \in Nat : n \in T => n + 1 \in T
  PROVE  Nat \subseteq T
<1> DEFINE U == Nat \ T
<1> SUFFICES ASSUME U # {} PROVE FALSE
  OBVIOUS
<1>1. PICK n \in U : \A m \in U : n <= m
  BY LeastNatural
<1>2. n # 0
  OBVIOUS
<1>3. n - 1 \in Nat /\ n - 1 \notin U
  BY <1>1, <1>2
<1>4. n - 1 \in T
  BY <1>3
<1>5. (n - 1) + 1 = n
  BY <1>3
<1>6. QED  BY <1>3, <1>4, <1>5

-----------------------------------------------------------------------------
(* The function FlattenSeq chooses: f[i] is the first i sequences.         *)
Concatenates(f, ss) ==
  f = [i \in 1 .. Len(ss) |-> IF i = 1 THEN ss[i] ELSE f[i-1] \o ss[i]]

(* There is one, for every sequence of sequences.                          *)
LEMMA ConcatenationExists ==
  ASSUME NEW ss, Len(ss) \in Nat
  PROVE  \E f : Concatenates(f, ss)
<1> DEFINE Upto(f, n) == f = [i \in 1 .. n |-> IF i = 1 THEN ss[i] ELSE f[i-1] \o ss[i]]
           T == {n \in Nat : \E f : Upto(f, n)}
<1>1. 0 \in T
  <2>1. Upto(<<>>, 0)
    OBVIOUS
  <2>2. QED  BY <2>1
<1>2. ASSUME NEW n \in Nat, n \in T  PROVE n + 1 \in T
  <2>1. PICK f : Upto(f, n)
    BY <1>2
  <2> DEFINE g == [i \in 1 .. n + 1 |-> IF i = 1 THEN ss[i] ELSE f[i-1] \o ss[i]]
  <2>2. \A i \in 1 .. n : g[i] = f[i]
    <3> DEFINE body(i) == IF i = 1 THEN ss[i] ELSE f[i-1] \o ss[i]
    <3>1. f = [i \in 1 .. n |-> body(i)]
      BY <2>1
    <3>2. g = [i \in 1 .. n + 1 |-> body(i)]
      OBVIOUS
    <3> HIDE DEF body, g
    <3>3. \A i \in 1 .. n : i \in 1 .. n + 1
      OBVIOUS
    <3>4. QED  BY <3>1, <3>2, <3>3, Zenon
  <2>3. \A i \in 1 .. n + 1 : i # 1 => i - 1 \in 1 .. n
    OBVIOUS
  <2>4. \A i \in 1 .. n + 1 :
          (IF i = 1 THEN ss[i] ELSE f[i-1] \o ss[i]) = (IF i = 1 THEN ss[i] ELSE g[i-1] \o ss[i])
    <3> HIDE DEF g
    <3>1. QED  BY <2>2, <2>3
  <2>5. Upto(g, n + 1)
    <3>1. [i \in 1 .. n + 1 |-> IF i = 1 THEN ss[i] ELSE f[i-1] \o ss[i]]
          = [i \in 1 .. n + 1 |-> IF i = 1 THEN ss[i] ELSE g[i-1] \o ss[i]]
      <4> HIDE DEF g
      <4>1. QED  BY <2>4
    <3>2. QED  BY <3>1
  <2> HIDE DEF g, Upto
  <2>6. QED  BY <2>5
<1> HIDE DEF T
<1>3. Len(ss) \in T
  BY <1>1, <1>2, NatInductionOnSet
<1>4. QED  BY <1>3 DEF T, Concatenates

(* ... and FlattenSeq is the last value of one.                            *)
LEMMA FlattenSeqConcatenates ==
  ASSUME NEW ss, Len(ss) \in Nat \ {0}
  PROVE  \E f : Concatenates(f, ss) /\ FlattenSeq(ss) = f[Len(ss)]
<1>1. \E f : Concatenates(f, ss)
  BY ConcatenationExists
<1> DEFINE f == CHOOSE f : Concatenates(f, ss)
<1>2. Concatenates(f, ss)
  BY <1>1
<1>3. FlattenSeq(ss) = f[Len(ss)]
  BY Zenon DEF FlattenSeq, Concatenates
<1>4. QED  BY <1>2, <1>3

(* Its values, one by one.                                                 *)
LEMMA ConcatenatesFirst ==
  ASSUME NEW f, NEW ss, Len(ss) \in Nat \ {0}, Concatenates(f, ss)
  PROVE  f[1] = ss[1]
<1>1. 1 \in 1 .. Len(ss)
  OBVIOUS
<1>2. f[1] = IF 1 = 1 THEN ss[1] ELSE f[1 - 1] \o ss[1]
  BY <1>1, Zenon DEF Concatenates
<1>3. QED  BY <1>2

LEMMA ConcatenatesStep ==
  ASSUME NEW f, NEW ss, Concatenates(f, ss), NEW i \in Nat, (i + 1) + 1 \in 1 .. Len(ss)
  PROVE  f[(i + 1) + 1] = f[i + 1] \o ss[(i + 1) + 1]
<1>1. (i + 1) + 1 # 1 /\ ((i + 1) + 1) - 1 = i + 1
  OBVIOUS
<1>2. f[(i + 1) + 1] = IF (i + 1) + 1 = 1 THEN ss[(i + 1) + 1]
                       ELSE f[((i + 1) + 1) - 1] \o ss[(i + 1) + 1]
  BY Zenon DEF Concatenates
<1>3. QED  BY <1>1, <1>2

(* The elements of the whole are those of the parts.                       *)
LEMMA ConcatenatesType ==
  ASSUME NEW S, NEW ss \in Seq(Seq(S)), NEW f, Concatenates(f, ss), NEW k \in 1 .. Len(ss)
  PROVE  f[k] \in Seq(S)
<1>0. Len(ss) \in Nat \ {0}
  OBVIOUS
<1> DEFINE T == {n \in Nat : n + 1 \in 1 .. Len(ss) => f[n + 1] \in Seq(S)}
<1>1. 0 \in T
  BY <1>0, ConcatenatesFirst
<1>2. ASSUME NEW n \in Nat, n \in T  PROVE n + 1 \in T
  <2> SUFFICES ASSUME (n + 1) + 1 \in 1 .. Len(ss) PROVE f[(n + 1) + 1] \in Seq(S)
    OBVIOUS
  <2>1. f[n + 1] \in Seq(S) /\ ss[(n + 1) + 1] \in Seq(S)
    BY <1>0, <1>2
  <2>2. f[(n + 1) + 1] = f[n + 1] \o ss[(n + 1) + 1]
    BY ConcatenatesStep
  <2>3. QED  BY <2>1, <2>2
<1> HIDE DEF T
<1>3. Nat \subseteq T
  BY <1>1, <1>2, NatInductionOnSet
<1>4. k - 1 \in T /\ k - 1 \in Nat /\ (k - 1) + 1 = k
  BY <1>0, <1>3
<1>5. QED  BY <1>4 DEF T

LEMMA FlattenSeqType ==
  ASSUME NEW S, NEW ss \in Seq(Seq(S))
  PROVE  FlattenSeq(ss) \in Seq(S)
<1>1. CASE Len(ss) = 0
  BY <1>1 DEF FlattenSeq
<1>2. CASE Len(ss) # 0
  <2>1. Len(ss) \in Nat \ {0} /\ Len(ss) \in 1 .. Len(ss)
    BY <1>2
  <2>2. PICK f : Concatenates(f, ss) /\ FlattenSeq(ss) = f[Len(ss)]
    BY <2>1, FlattenSeqConcatenates
  <2>3. QED  BY <2>1, <2>2, ConcatenatesType
<1>3. QED  BY <1>1, <1>2

LEMMA FlattenSeqEmpty == FlattenSeq(<<>>) = <<>>
BY DEF FlattenSeq

(* One part more at the end.                                               *)
LEMMA FlattenSeqAppend ==
  ASSUME NEW S, NEW ss \in Seq(Seq(S)), NEW s \in Seq(S)
  PROVE  FlattenSeq(Append(ss, s)) = FlattenSeq(ss) \o s
<1> DEFINE n == Len(ss)
           tt == Append(ss, s)
<1>1. n \in Nat /\ tt \in Seq(Seq(S)) /\ Len(tt) = n + 1 /\ n + 1 \in Nat \ {0} /\ tt[n + 1] = s
  OBVIOUS
<1>2. \A i \in 1 .. n : tt[i] = ss[i]
  OBVIOUS
<1> HIDE DEF tt
<1>3. PICK g : Concatenates(g, tt) /\ FlattenSeq(tt) = g[n + 1]
  BY <1>1, FlattenSeqConcatenates
<1>4. CASE n = 0
  <2>1. ss = <<>> /\ FlattenSeq(ss) = <<>>
    BY <1>4 DEF FlattenSeq
  <2>2. g[1] = s
    BY <1>1, <1>3, <1>4, ConcatenatesFirst
  <2>3. <<>> \o s = s
    BY ConcatEmptySeq
  <2>4. QED  BY <1>3, <1>4, <2>1, <2>2, <2>3 DEF tt
<1>5. CASE n # 0
  <2>1. n \in Nat \ {0}
    BY <1>1, <1>5
  <2>2. PICK f : Concatenates(f, ss) /\ FlattenSeq(ss) = f[n]
    BY <2>1, FlattenSeqConcatenates
  <2> DEFINE T == {i \in Nat : i + 1 \in 1 .. n => f[i + 1] = g[i + 1]}
  <2>3. 0 \in T
    BY <1>1, <1>2, <1>3, <2>1, <2>2, ConcatenatesFirst
  <2>4. ASSUME NEW i \in Nat, i \in T  PROVE i + 1 \in T
    <3> SUFFICES ASSUME (i + 1) + 1 \in 1 .. n PROVE f[(i + 1) + 1] = g[(i + 1) + 1]
      OBVIOUS
    <3>1. f[i + 1] = g[i + 1] /\ ss[(i + 1) + 1] = tt[(i + 1) + 1] /\ (i + 1) + 1 \in 1 .. n + 1
      BY <1>2, <2>1, <2>4
    <3>2. f[(i + 1) + 1] = f[i + 1] \o ss[(i + 1) + 1]
      BY <2>2, ConcatenatesStep
    <3>3. g[(i + 1) + 1] = g[i + 1] \o tt[(i + 1) + 1]
      BY <1>1, <1>3, <3>1, ConcatenatesStep
    <3>4. QED  BY <3>1, <3>2, <3>3
  <2> HIDE DEF T
  <2>5. Nat \subseteq T
    BY <2>3, <2>4, NatInductionOnSet
  <2>6. n - 1 \in T /\ n - 1 \in Nat /\ (n - 1) + 1 = n
    BY <2>1, <2>5
  <2>7. f[n] = g[n]
    BY <2>1, <2>6 DEF T
  <2>8. g[n + 1] = g[n] \o tt[n + 1]
    <3>1. (n - 1) + 1 = n /\ n - 1 \in Nat /\ ((n - 1) + 1) + 1 \in 1 .. Len(tt)
      BY <1>1, <2>1
    <3>2. g[((n - 1) + 1) + 1] = g[(n - 1) + 1] \o tt[((n - 1) + 1) + 1]
      BY <1>1, <1>3, <3>1, ConcatenatesStep
    <3>3. QED  BY <3>1, <3>2
  <2>9. QED  BY <1>1, <1>3, <2>2, <2>7, <2>8 DEF tt
<1>6. QED  BY <1>4, <1>5


(* A function on 1 .. n is a sequence.                                     *)
LEMMA FunctionIsSequence ==
  ASSUME NEW S, NEW n \in Nat, NEW f, f = [i \in 1 .. n |-> f[i]], \A i \in 1 .. n : f[i] \in S
  PROVE  f \in Seq(S) /\ Len(f) = n
OBVIOUS

(* Concatenation is associative, without nested concatenations.            *)
LEMMA Associativity ==
  ASSUME NEW S, NEW a \in Seq(S), NEW b \in Seq(S), NEW c \in Seq(S),
         NEW ab, ab = a \o b, NEW bc, bc = b \o c
  PROVE  ab \o c = a \o bc
BY SMTT(60)

(* Which part an element of a concatenation is from.                       *)
LEMMA Concatenated ==
  ASSUME NEW S, NEW h \in Seq(S), NEW g \in Seq(S)
  PROVE  /\ h \o g \in Seq(S) /\ Len(h \o g) = Len(h) + Len(g)
         /\ \A i \in 1 .. Len(h) : (h \o g)[i] = h[i]
         /\ \A i \in 1 .. Len(g) : (h \o g)[Len(h) + i] = g[i]
<1> DEFINE m == Len(h)
           n == Len(g)
<1>1. m \in Nat /\ n \in Nat
  OBVIOUS
<1>2. /\ h \o g \in Seq(S) /\ Len(h \o g) = m + n
      /\ \A i \in 1 .. m + n : (h \o g)[i] = IF i <= m THEN h[i] ELSE g[i - m]
  BY ConcatProperties
<1> HIDE DEF m, n
<1>3. \A i \in 1 .. m : i \in 1 .. m + n /\ i <= m
  BY <1>1
<1>4. \A i \in 1 .. n : m + i \in 1 .. m + n /\ ~(m + i <= m) /\ (m + i) - m = i
  BY <1>1
<1>5. \A i \in 1 .. m : (h \o g)[i] = h[i]
  BY <1>2, <1>3
<1>6. ASSUME NEW i \in 1 .. n PROVE (h \o g)[m + i] = g[i]
  <2>1. (h \o g)[m + i] = g[(m + i) - m]
    BY <1>2, <1>4
  <2>2. QED  BY <1>4, <2>1
<1>7. QED  BY <1>2, <1>5, <1>6 DEF m, n

(* The first part, then the others.                                        *)
LEMMA FlattenSeqFirst ==
  ASSUME NEW S, NEW ss \in Seq(Seq(S)), ss # <<>>
  PROVE  FlattenSeq(ss) = Head(ss) \o FlattenSeq(Tail(ss))
<1> DEFINE n == Len(ss)
           tt == Tail(ss)
<1>1. /\ n \in Nat \ {0} /\ tt \in Seq(Seq(S)) /\ Len(tt) = n - 1 /\ n \in 1 .. n
      /\ Head(ss) = ss[1] /\ ss[1] \in Seq(S)
      /\ \A i \in 1 .. n - 1 : tt[i] = ss[i + 1]
  OBVIOUS
<1> HIDE DEF tt
<1>2. PICK f : Concatenates(f, ss) /\ FlattenSeq(ss) = f[n]
  BY <1>1, FlattenSeqConcatenates
<1>3. f[1] = ss[1]
  BY <1>1, <1>2, ConcatenatesFirst
<1>4. CASE n = 1
  <2>1. tt = <<>> /\ FlattenSeq(tt) = <<>>
    BY <1>1, <1>4 DEF FlattenSeq
  <2>2. ss[1] \o <<>> = ss[1]
    BY <1>1, ConcatEmptySeq
  <2>3. QED  BY <1>1, <1>2, <1>3, <1>4, <2>1, <2>2 DEF tt
<1>5. CASE n # 1
  <2>1. Len(tt) \in Nat \ {0} /\ n - 1 \in Nat \ {0} /\ n - 1 \in 1 .. Len(tt)
    BY <1>1, <1>5
  <2>2. PICK g : Concatenates(g, tt) /\ FlattenSeq(tt) = g[n - 1]
    BY <1>1, <2>1, FlattenSeqConcatenates
  <2> DEFINE Matches(i) == i + 1 \in 1 .. n - 1 => f[(i + 1) + 1] = ss[1] \o g[i + 1]
             T == {i \in Nat : Matches(i)}
  <2>3. 0 \in T
    <3>1. g[1] = tt[1] /\ tt[1] = ss[2] /\ (0 + 1) + 1 \in 1 .. Len(ss)
      BY <1>1, <2>1, <2>2, ConcatenatesFirst
    <3>2. f[(0 + 1) + 1] = f[0 + 1] \o ss[(0 + 1) + 1]
      BY ZenonT(90), <1>2, <3>1, ConcatenatesStep
    <3>3. 0 + 1 = 1 /\ (0 + 1) + 1 = 2 /\ 0 \in Nat
      OBVIOUS
    <3>4. f[(0 + 1) + 1] = ss[1] \o g[0 + 1]
      BY <1>3, <3>1, <3>2, <3>3
    <3>5. Matches(0)
      BY <3>4
    <3> HIDE DEF Matches
    <3>6. QED  BY <3>3, <3>5
  <2>4. ASSUME NEW i \in Nat, i \in T  PROVE i + 1 \in T
    <3>0. Matches(i)
      <4> HIDE DEF Matches
      <4>1. QED  BY <2>4
    <3> SUFFICES ASSUME (i + 1) + 1 \in 1 .. n - 1 PROVE Matches(i + 1)
      <4>1. i + 1 \in Nat
        OBVIOUS
      <4>2. (i + 1) + 1 \notin 1 .. n - 1 => Matches(i + 1)
        OBVIOUS
      <4> HIDE DEF Matches
      <4>3. QED  BY <4>1, <4>2
    <3>a. /\ i + 1 \in Nat /\ i + 1 \in 1 .. Len(tt) /\ i + 1 \in 1 .. n - 1
          /\ ((i + 1) + 1) + 1 \in 1 .. Len(ss) /\ (i + 1) + 1 \in 1 .. Len(tt)
      BY <1>1
    <3>b. f[(i + 1) + 1] = ss[1] \o g[i + 1]
      BY <3>0, <3>a
    <3>1. /\ f[(i + 1) + 1] = ss[1] \o g[i + 1] /\ i + 1 \in Nat /\ i + 1 \in 1 .. Len(tt)
          /\ ((i + 1) + 1) + 1 \in 1 .. Len(ss) /\ (i + 1) + 1 \in 1 .. Len(tt)
          /\ tt[(i + 1) + 1] = ss[((i + 1) + 1) + 1]
      <4>1. tt[(i + 1) + 1] = ss[((i + 1) + 1) + 1]
        BY <1>1, <3>a
      <4>2. QED  BY <3>a, <3>b, <4>1
    <3>2. f[((i + 1) + 1) + 1] = f[(i + 1) + 1] \o ss[((i + 1) + 1) + 1]
      BY <1>2, <3>1, ConcatenatesStep
    <3>3. g[(i + 1) + 1] = g[i + 1] \o tt[(i + 1) + 1]
      BY <2>2, <3>1, ConcatenatesStep
    <3>4. g[i + 1] \in Seq(S) /\ tt[(i + 1) + 1] \in Seq(S)
      BY <1>1, <2>2, <3>1, ConcatenatesType
    <3>5. f[(i + 1) + 1] \o tt[(i + 1) + 1] = ss[1] \o g[(i + 1) + 1]
      <4> HIDE DEF Matches, T
      <4> DEFINE a == ss[1]
                 b == g[i + 1]
                 c == tt[(i + 1) + 1]
                 ab == f[(i + 1) + 1]
                 bc == g[(i + 1) + 1]
      <4>1. a \in Seq(S) /\ b \in Seq(S) /\ c \in Seq(S) /\ ab = a \o b /\ bc = b \o c
        BY <1>1, <3>1, <3>3, <3>4
      <4> HIDE DEF a, b, c, ab, bc
      <4>2. ab \o c = a \o bc
        BY <4>1, Associativity, SMTT(60)
      <4>3. QED  BY <4>2 DEF a, b, c, ab, bc
    <3>6. QED  BY <3>1, <3>2, <3>3, <3>5
  <2> HIDE DEF T
  <2>5. Nat \subseteq T
    BY <2>3, <2>4, NatInductionOnSet
  <2>6. n - 2 \in T /\ n - 2 \in Nat /\ (n - 2) + 1 = n - 1 /\ ((n - 2) + 1) + 1 = n
    BY <1>1, <2>1, <2>5
  <2>7. f[n] = ss[1] \o g[n - 1]
    <3>1. Matches(n - 2)
      <4> HIDE DEF Matches
      <4>1. QED  BY <2>6 DEF T
    <3>2. (n - 2) + 1 \in 1 .. n - 1
      BY <1>1, <1>5
    <3>3. QED  BY <2>6, <3>1, <3>2
  <2>8. QED  BY <1>1, <1>2, <2>2, <2>7 DEF tt
<1>6. QED  BY <1>4, <1>5

-----------------------------------------------------------------------------
(* Products and quotients of variables, which the SMT solver knows little  *)
(* about.                                                                  *)
LEMMA ProductType ==
  ASSUME NEW m \in Nat, NEW n \in Nat
  PROVE  m * n \in Nat
OBVIOUS

LEMMA ProductStep ==
  ASSUME NEW k \in Nat, NEW n \in Nat
  PROVE  (k + 1) * n = k * n + n
OBVIOUS

LEMMA ProductMonotonic ==
  ASSUME NEW k \in Nat, NEW m \in Nat, NEW n \in Nat, k <= m
  PROVE  k * n <= m * n
<1>1. PICK d \in Nat : m = k + d
  <2>1. m - k \in Nat /\ m = k + (m - k)
    OBVIOUS
  <2>2. QED  BY <2>1
<1>2. (k + d) * n = k * n + d * n
  OBVIOUS
<1>3. d * n \in Nat /\ k * n \in Nat
  BY ProductType
<1>4. QED  BY <1>1, <1>2, <1>3

LEMMA Quotient ==
  ASSUME NEW a \in Nat, NEW b \in Nat \ {0}
  PROVE  /\ a \div b \in Nat /\ a % b \in 0 .. b - 1
         /\ a = (a \div b) * b + (a % b)
OBVIOUS

(* No other quotient and remainder.                                        *)
LEMMA QuotientUnique ==
  ASSUME NEW a \in Nat, NEW b \in Nat \ {0}, NEW q \in Nat, NEW r \in 0 .. b - 1, a = q * b + r
  PROVE  a \div b = q /\ a % b = r
<1> DEFINE d == a \div b
           m == a % b
<1>1. d \in Nat /\ m \in 0 .. b - 1 /\ a = d * b + m
  BY Quotient
<1> HIDE DEF d, m
<1>2. d * b \in Nat /\ q * b \in Nat
  BY <1>1, ProductType
<1>3. ASSUME NEW x \in Nat, NEW y \in Nat, x < y PROVE x * b + b <= y * b
  <2>1. x + 1 \in Nat /\ x + 1 <= y
    BY <1>3
  <2>2. (x + 1) * b <= y * b /\ (x + 1) * b = x * b + b
    BY <2>1, ProductMonotonic, ProductStep
  <2>3. QED  BY <2>2
<1> DEFINE db == d * b
           qb == q * b
<1>4. (d < q => db + b <= qb) /\ (q < d => qb + b <= db)
  BY <1>1, <1>3
<1>5. db \in Nat /\ qb \in Nat /\ db + m = qb + r
  BY <1>1, <1>2
<1> HIDE DEF db, qb
<1>6. d = q
  BY <1>1, <1>4, <1>5
<1>7. m = r
  BY <1>1, <1>5, <1>6 DEF db, qb
<1>8. QED  BY <1>6, <1>7 DEF d, m

(* The remainder of the next number, where the remainder wraps and where it*)
(* does not; and it is another one.                                        *)
LEMMA NextRemainder ==
  ASSUME NEW a \in Nat, NEW b \in Nat \ {0}
  PROVE  /\ (a + 1) % b = ((a % b) + 1) % b
         /\ b # 1 => (a + 1) % b # a % b
<1> DEFINE d == a \div b
           m == a % b
<1>1. d \in Nat /\ m \in 0 .. b - 1 /\ a = d * b + m /\ d * b \in Nat
  BY Quotient, ProductType
<1> HIDE DEF d, m
<1>2. CASE m + 1 < b
  <2>1. m + 1 \in 0 .. b - 1 /\ m + 1 \in Nat /\ a + 1 \in Nat
    BY <1>1, <1>2
  <2>2. a + 1 = d * b + (m + 1)
    BY <1>1
  <2>3. (a + 1) % b = m + 1
    BY <1>1, <2>1, <2>2, QuotientUnique
  <2>4. m + 1 = 0 * b + (m + 1) /\ 0 \in Nat
    BY <1>1
  <2>5. (m + 1) % b = m + 1
    BY <2>1, <2>4, QuotientUnique
  <2>6. m + 1 # m
    BY <1>1
  <2>7. QED  BY <2>3, <2>5, <2>6 DEF m
<1>3. CASE ~(m + 1 < b)
  <2>1. m + 1 = b /\ 0 \in 0 .. b - 1 /\ a + 1 \in Nat /\ d + 1 \in Nat /\ b \in Nat
    BY <1>1, <1>3
  <2>2. (d + 1) * b = d * b + b
    BY <1>1, ProductStep
  <2>3. a + 1 = (d + 1) * b + 0
    BY <1>1, <2>1, <2>2
  <2>4. (a + 1) % b = 0
    BY <2>1, <2>3, QuotientUnique
  <2>5. b = 1 * b + 0 /\ 1 \in Nat
    OBVIOUS
  <2>6. (m + 1) % b = 0
    BY <2>1, <2>5, QuotientUnique
  <2>7. b # 1 => m # 0
    BY <1>1, <2>1
  <2>8. QED  BY <2>4, <2>6, <2>7 DEF m
<1>4. QED  BY <1>2, <1>3

(* Parts of the same length, but for the last: where each of them is.      *)
LEMMA FlattenSeqUniform ==
  ASSUME NEW S, NEW ss \in Seq(Seq(S)), ss # <<>>, NEW L \in Nat,
         \A i \in 1 .. Len(ss) - 1 : Len(ss[i]) = L
  PROVE  /\ Len(FlattenSeq(ss)) = (Len(ss) - 1) * L + Len(ss[Len(ss)])
         /\ \A k \in 0 .. Len(ss) - 1 : \A j \in 1 .. Len(ss[k + 1]) :
              FlattenSeq(ss)[k * L + j] = ss[k + 1][j]
<1> DEFINE n == Len(ss)
<1>1. n \in Nat \ {0}
  OBVIOUS
<1>2. PICK f : Concatenates(f, ss) /\ FlattenSeq(ss) = f[n]
  BY <1>1, FlattenSeqConcatenates
<1> DEFINE Placed(i) == /\ Len(f[i + 1]) = i * L + Len(ss[i + 1])
                        /\ \A k \in 0 .. i : \A j \in 1 .. Len(ss[k + 1]) :
                             f[i + 1][k * L + j] = ss[k + 1][j]
           T == {i \in Nat : i + 1 \in 1 .. n => Placed(i)}
<1>3. 0 \in T
  <2>1. f[1] = ss[1] /\ Len(ss[1]) \in Nat /\ 0 * L = 0 /\ 0 + 1 = 1
    BY <1>1, <1>2, ConcatenatesFirst
  <2>2. Len(f[0 + 1]) = 0 * L + Len(ss[0 + 1])
    <3>1. Len(ss[1]) = 0 + Len(ss[1])
      BY <2>1
    <3>2. QED  BY <2>1, <3>1, Zenon
  <2>3. ASSUME NEW k \in 0 .. 0, NEW j \in 1 .. Len(ss[k + 1])
        PROVE  f[0 + 1][k * L + j] = ss[k + 1][j]
    <3>1. k = 0 /\ k * L + j = j /\ k + 1 = 1 /\ 0 + 1 = 1
      BY <2>1
    <3>2. QED  BY <2>1, <3>1
  <2>4. Placed(0)
    BY <2>2, <2>3
  <2> HIDE DEF Placed
  <2>5. QED  BY <2>4
<1>4. ASSUME NEW i \in Nat, i \in T  PROVE i + 1 \in T
  <2> SUFFICES ASSUME (i + 1) + 1 \in 1 .. n PROVE Placed(i + 1)
    <3> HIDE DEF Placed
    <3>1. QED  OBVIOUS
  <2> DEFINE part == ss[(i + 1) + 1]
             front == f[i + 1]
  <2>1. /\ i + 1 \in 1 .. n /\ i + 1 \in 1 .. n - 1
        /\ part \in Seq(S) /\ Len(part) \in Nat /\ Len(ss[i + 1]) = L
    BY <1>1
  <2>2. front \in Seq(S)
    BY <1>2, <2>1, ConcatenatesType
  <2>3. f[(i + 1) + 1] = front \o part
    BY <1>2, ConcatenatesStep
  <2>4. Placed(i)
    BY <1>4, <2>1
  <2>5. i * L \in Nat /\ (i + 1) * L = i * L + L
    BY ProductType, ProductStep
  <2>6. Len(front) = (i + 1) * L
    BY <2>1, <2>4, <2>5
  <2> HIDE DEF part, front
  <2>7. /\ Len(front \o part) = (i + 1) * L + Len(part)
        /\ \A m \in 1 .. (i + 1) * L : (front \o part)[m] = front[m]
        /\ \A j \in 1 .. Len(part) : (front \o part)[(i + 1) * L + j] = part[j]
    <3>1. (i + 1) * L \in Nat
      BY ProductType
    <3> DEFINE P == (i + 1) * L
    <3> HIDE DEF P
    <3>2. P \in Nat /\ Len(front) = P
      BY <2>6, <3>1 DEF P
    <3>3. /\ Len(front \o part) = P + Len(part)
          /\ \A m \in 1 .. P + Len(part) :
               (front \o part)[m] = IF m <= P THEN front[m] ELSE part[m - P]
      BY ZenonT(90), <2>1, <2>2, <3>2, ConcatProperties
    <3>4. \A m \in 1 .. P : m \in 1 .. P + Len(part) /\ m <= P
      BY <2>1, <3>2
    <3>5. \A j \in 1 .. Len(part) : P + j \in 1 .. P + Len(part) /\ ~(P + j <= P) /\ (P + j) - P = j
      BY <2>1, <3>2
    <3>6. \A j \in 1 .. Len(part) : (front \o part)[P + j] = part[j]
      <4> SUFFICES ASSUME NEW j \in 1 .. Len(part) PROVE (front \o part)[P + j] = part[j]
        OBVIOUS
      <4>1. (front \o part)[P + j] = part[(P + j) - P]
        BY <3>3, <3>5
      <4>2. QED  BY <3>5, <4>1
    <3>7. \A m \in 1 .. P : (front \o part)[m] = front[m]
      BY <3>3, <3>4
    <3>8. QED  BY <3>3, <3>6, <3>7 DEF P
  <2>8. ASSUME NEW k \in 0 .. i + 1, NEW j \in 1 .. Len(ss[k + 1])
        PROVE  (front \o part)[k * L + j] = ss[k + 1][j]
    <3>1. CASE k = i + 1
      BY <2>7, <3>1 DEF part
    <3>2. CASE k # i + 1
      <4>1. k \in 0 .. i /\ k \in Nat /\ k + 1 \in 1 .. n - 1 /\ k + 1 \in Nat /\ k + 1 <= i + 1 /\ i + 1 \in Nat
        BY <2>1, <3>2
      <4>2. front[k * L + j] = ss[k + 1][j]
        BY <2>4, <4>1 DEF front
      <4>3. Len(ss[k + 1]) = L
        BY <4>1
      <4>4. (k + 1) * L <= (i + 1) * L
        BY <4>1, ProductMonotonic
      <4>5. k * L \in Nat /\ (k + 1) * L = k * L + L /\ (i + 1) * L \in Nat
        BY <4>1, ProductType, ProductStep
      <4>6. k * L + j \in 1 .. (i + 1) * L
        <5> DEFINE a == k * L
                   b == (i + 1) * L
                   c == (k + 1) * L
        <5> HIDE DEF a, b, c
        <5>1. a \in Nat /\ b \in Nat /\ c = a + L /\ c <= b /\ j \in Nat /\ 1 <= j /\ j <= L
          BY <4>3, <4>4, <4>5 DEF a, b, c
        <5>2. a + j \in 1 .. b
          BY <5>1
        <5>3. QED  BY <5>2 DEF a, b
      <4>7. QED  BY <2>7, <4>2, <4>6
    <3>3. QED  BY <3>1, <3>2
  <2>9. QED  BY <2>3, <2>7, <2>8 DEF part, front
<1> HIDE DEF T
<1>5. Nat \subseteq T
  BY <1>3, <1>4, NatInductionOnSet
<1>6. n - 1 \in T /\ n - 1 \in Nat /\ (n - 1) + 1 = n
  BY <1>1, <1>5
<1>7. Placed(n - 1)
  BY <1>1, <1>6 DEF T
<1>8. QED  BY <1>1, <1>2, <1>6, <1>7


-----------------------------------------------------------------------------
(* Streams that begin alike.                                               *)
LEMMA SamePrefix ==
  ASSUME NEW S, NEW b \in Seq(S), NEW m \in Seq(S), NEW e \in Seq(S), NEW o \in Seq(S),
         b \o m = e \o o
  PROVE  \A i \in Nat \ {0} : i <= Len(b) /\ i <= Len(e) => b[i] = e[i]
<1> SUFFICES ASSUME NEW i \in Nat \ {0}, i <= Len(b), i <= Len(e) PROVE b[i] = e[i]
  OBVIOUS
<1>1. i \in 1 .. Len(b) /\ i \in 1 .. Len(e)
  OBVIOUS
<1>2. (b \o m)[i] = b[i]
  BY <1>1, Concatenated
<1>3. (e \o o)[i] = e[i]
  BY <1>1, Concatenated
<1>4. QED  BY <1>2, <1>3

CutTwice(b, m, e, o) == b \o m = e \o o

LEMMA WholePrefix ==
  ASSUME NEW S, NEW b \in Seq(S), NEW m \in Seq(S), NEW e \in Seq(S), NEW o \in Seq(S),
         CutTwice(b, m, e, o), Len(e) <= Len(b)
  PROVE  /\ SubSeq(b, Len(e) + 1, Len(b)) \in Seq(S)
         /\ b = e \o SubSeq(b, Len(e) + 1, Len(b))
         /\ SubSeq(b, Len(e) + 1, Len(b)) \o m = o
<1> DEFINE rest == SubSeq(b, Len(e) + 1, Len(b))
<1>1. Len(b) \in Nat /\ Len(e) \in Nat /\ Len(m) \in Nat /\ Len(o) \in Nat
  OBVIOUS
<1>2. /\ rest \in Seq(S) /\ Len(rest) = Len(b) - Len(e)
      /\ \A i \in 1 .. Len(b) - Len(e) : rest[i] = b[Len(e) + i]
  OBVIOUS
<1> HIDE DEF rest
<1>3. \A i \in 1 .. Len(e) : b[i] = e[i]
  <2>1. \A i \in 1 .. Len(e) : i \in Nat \ {0} /\ i <= Len(b) /\ i <= Len(e)
    BY <1>1
  <2>2. \A i \in Nat \ {0} : i <= Len(b) /\ i <= Len(e) => b[i] = e[i]
    BY SamePrefix DEF CutTwice
  <2>3. QED  BY <2>1, <2>2
<1>4. b = e \o rest
  <2>1. /\ e \o rest \in Seq(S) /\ Len(e \o rest) = Len(b)
        /\ \A i \in 1 .. Len(e) : (e \o rest)[i] = e[i]
        /\ \A i \in 1 .. Len(rest) : (e \o rest)[Len(e) + i] = rest[i]
    BY <1>1, <1>2, Concatenated
  <2>2. ASSUME NEW i \in 1 .. Len(b) PROVE b[i] = (e \o rest)[i]
    <3>1. CASE i <= Len(e)
      BY <1>1, <1>3, <2>1, <3>1
    <3>2. CASE ~(i <= Len(e))
      <4>1. i - Len(e) \in 1 .. Len(rest) /\ Len(e) + (i - Len(e)) = i
        BY <1>1, <1>2, <3>2
      <4>2. (e \o rest)[i] = rest[i - Len(e)] /\ rest[i - Len(e)] = b[i]
        BY <1>2, <2>1, <4>1
      <4>3. QED  BY <4>2
    <3>3. QED  BY <3>1, <3>2
  <2>3. QED  BY <2>1, <2>2, SeqEqual
<1>5. rest \o m = o
  <2> DEFINE x == b \o m
             y == e \o o
             z == rest \o m
  <2>1. /\ Len(x) = Len(b) + Len(m)
        /\ \A i \in 1 .. Len(b) : x[i] = b[i]
        /\ \A i \in 1 .. Len(m) : x[Len(b) + i] = m[i]
    BY Concatenated
  <2>2. Len(y) = Len(e) + Len(o) /\ \A i \in 1 .. Len(o) : y[Len(e) + i] = o[i]
    BY Concatenated
  <2>3. /\ z \in Seq(S) /\ Len(z) = Len(rest) + Len(m)
        /\ \A i \in 1 .. Len(rest) : z[i] = rest[i]
        /\ \A i \in 1 .. Len(m) : z[Len(rest) + i] = m[i]
    <3>1. rest \in Seq(S)
      BY <1>2
    <3>2. QED  BY <3>1, Concatenated
  <2>4. x = y
    BY DEF CutTwice
  <2> HIDE DEF x, y, z
  <2>5. Len(z) = Len(o)
    <3>1. Len(b) + Len(m) = Len(e) + Len(o)
      BY <2>1, <2>2, <2>4, Zenon
    <3>2. Len(z) = (Len(b) - Len(e)) + Len(m)
      BY <1>2, <2>3, Zenon
    <3>3. QED  BY <1>1, <3>1, <3>2
  <2>6. ASSUME NEW i \in 1 .. Len(z) PROVE z[i] = o[i]
    <3>1. o[i] = x[Len(e) + i]
      BY <2>2, <2>4, <2>5
    <3>2. CASE i <= Len(rest)
      <4>1. i \in 1 .. Len(rest) /\ Len(e) + i \in 1 .. Len(b)
        BY <1>1, <1>2, <3>2
      <4>2. x[Len(e) + i] = b[Len(e) + i] /\ b[Len(e) + i] = rest[i] /\ z[i] = rest[i]
        BY <1>2, <2>1, <2>3, <4>1
      <4>3. QED  BY <3>1, <4>2
    <3>3. CASE ~(i <= Len(rest))
      <4> DEFINE j == i - Len(rest)
      <4>1. j \in 1 .. Len(m) /\ Len(b) + j = Len(e) + i /\ Len(rest) + j = i
        BY <1>1, <1>2, <2>3, <3>3
      <4>2. x[Len(b) + j] = m[j] /\ z[Len(rest) + j] = m[j]
        BY <2>1, <2>3, <4>1
      <4>3. QED  BY <3>1, <4>1, <4>2
    <3>4. QED  BY <3>2, <3>3
  <2>7. z = o
    BY <2>3, <2>5, <2>6, SeqEqual
  <2>8. QED  BY <2>7 DEF z
<1>6. QED  BY <1>2, <1>4, <1>5 DEF rest


(* A sequence cut in two.                                                  *)
LEMMA CutInTwo ==
  ASSUME NEW S, NEW s \in Seq(S), NEW n \in 0 .. Len(s)
  PROVE  /\ SubSeq(s, 1, n) \in Seq(S) /\ Len(SubSeq(s, 1, n)) = n
         /\ SubSeq(s, n + 1, Len(s)) \in Seq(S) /\ Len(SubSeq(s, n + 1, Len(s))) = Len(s) - n
         /\ s = SubSeq(s, 1, n) \o SubSeq(s, n + 1, Len(s))
<1>1. Len(s) \in Nat /\ n \in Nat /\ n <= Len(s)
  OBVIOUS
<1>2. /\ SubSeq(s, 1, n) \in Seq(S) /\ Len(SubSeq(s, 1, n)) = n
      /\ SubSeq(s, n + 1, Len(s)) \in Seq(S) /\ Len(SubSeq(s, n + 1, Len(s))) = Len(s) - n
  BY <1>1
<1>3. s = SubSeq(s, 1, n) \o SubSeq(s, n + 1, Len(s))
  <2>1. 1 \in 1 .. Len(s) + 1 /\ n \in 1 - 1 .. Len(s) /\ Len(s) \in n .. Len(s)
    BY <1>1
  <2>2. SubSeq(s, 1, n) \o SubSeq(s, n + 1, Len(s)) = SubSeq(s, 1, Len(s))
    BY <2>1, ConcatAdjacentSubSeq
  <2>3. SubSeq(s, 1, Len(s)) = s
    BY SubSeqFull
  <2>4. QED  BY <2>2, <2>3, Zenon
<1>4. QED  BY <1>2, <1>3, Zenon

-----------------------------------------------------------------------------
(* Three sequences in a row, between which elements move: what has been    *)
(* read of a stream, what waits in it, and what is still to be written.    *)
Joined(b, w, c) == b \o (w \o c)

LEMMA JoinedType ==
  ASSUME NEW S, NEW b \in Seq(S), NEW w \in Seq(S), NEW c \in Seq(S)
  PROVE  /\ Joined(b, w, c) \in Seq(S)
         /\ Joined(<<>>, <<>>, c) = c
         /\ Joined(b, w, c) = <<>> => b = <<>>
<1> DEFINE wc == w \o c
           bwc == b \o wc
<1>1. wc \in Seq(S) /\ bwc \in Seq(S)
  OBVIOUS
<1>2. <<>> \o c = c
  OBVIOUS
<1>3. bwc = <<>> => b = <<>>
  <2>1. Len(bwc) = Len(b) + Len(wc) /\ Len(b) \in Nat /\ Len(wc) \in Nat
    BY <1>1
  <2>2. b # <<>> => Len(b) # 0
    OBVIOUS
  <2>3. Len(<<>>) = 0
    OBVIOUS
  <2> HIDE DEF bwc, wc
  <2>4. QED  BY <2>1, <2>2, <2>3
<1>4. Joined(b, w, c) = bwc /\ Joined(<<>>, <<>>, c) = c
  BY <1>2, Zenon DEF Joined
<1>5. QED  BY <1>1, <1>3, <1>4, Zenon

LEMMA JoinedMore ==
  ASSUME NEW S, NEW b \in Seq(S), NEW w \in Seq(S), NEW c \in Seq(S)
  PROVE  Joined(b, w, <<>>) \o c = Joined(b, w, c)
<1> DEFINE wc == w \o c
           bw == b \o w
<1>1. bw \o c = b \o wc
  BY SMTT(60), Associativity
<1>2. w \o <<>> = w
  OBVIOUS
<1> HIDE DEF wc, bw
<1>3. Joined(b, w, <<>>) = bw /\ Joined(b, w, c) = b \o wc
  BY <1>2, Zenon DEF Joined, bw, wc
<1>4. QED  BY <1>1, <1>3, Zenon

LEMMA JoinedWritten ==
  ASSUME NEW S, NEW b \in Seq(S), NEW w \in Seq(S), NEW c \in Seq(S), NEW n \in 0 .. Len(c)
  PROVE  Joined(b, w \o SubSeq(c, 1, n), SubSeq(c, n + 1, Len(c))) = Joined(b, w, c)
<1> DEFINE x == SubSeq(c, 1, n)
           y == SubSeq(c, n + 1, Len(c))
           wx == w \o x
           xy == x \o y
<1>1. x \in Seq(S) /\ y \in Seq(S) /\ c = xy
  BY CutInTwo
<1> HIDE DEF x, y
<1>2. wx \o y = w \o xy
  BY SMTT(60), <1>1, Associativity
<1> HIDE DEF wx, xy
<1>3. Joined(b, wx, y) = Joined(b, w, c)
  BY <1>1, <1>2, Zenon DEF Joined
<1>4. QED  BY <1>3 DEF wx, x, y

LEMMA JoinedFlushed ==
  ASSUME NEW S, NEW b \in Seq(S), NEW w \in Seq(S), NEW c \in Seq(S)
  PROVE  Joined(b, w \o c, <<>>) = Joined(b, w, c)
<1> DEFINE wc == w \o c
<1>1. wc \in Seq(S)
  OBVIOUS
<1> HIDE DEF wc
<1>2. wc \o <<>> = wc
  BY <1>1
<1>3. QED  BY <1>2, Zenon DEF Joined, wc

LEMMA JoinedRead ==
  ASSUME NEW S, NEW b \in Seq(S), NEW w \in Seq(S), NEW c \in Seq(S), NEW n \in 0 .. Len(w)
  PROVE  Joined(b \o SubSeq(w, 1, n), SubSeq(w, n + 1, Len(w)), c) = Joined(b, w, c)
<1> DEFINE x == SubSeq(w, 1, n)
           y == SubSeq(w, n + 1, Len(w))
<1>1. x \in Seq(S) /\ y \in Seq(S) /\ w = x \o y
  BY CutInTwo, Zenon
<1> HIDE DEF x, y
<1> DEFINE bx == b \o x
           yc == y \o c
           wc == w \o c
<1>2. bx \in Seq(S) /\ yc \in Seq(S) /\ wc \in Seq(S)
  BY <1>1
<1>3. bx = b \o x /\ yc = y \o c /\ wc = w \o c
  OBVIOUS
<1> HIDE DEF bx, yc, wc
<1>4. wc = x \o yc
  BY SMTT(60), <1>1, <1>3, Associativity
<1>5. bx \o yc = b \o wc
  <2>1. b \in Seq(S) /\ x \in Seq(S) /\ yc \in Seq(S) /\ bx = b \o x /\ wc = x \o yc
    BY <1>1, <1>2, <1>3, <1>4
  <2>2. QED  BY SMTT(60), <2>1, Associativity
<1>6. QED  BY <1>5 DEF Joined, bx, yc, wc, x, y

(* The first sequence and the first of the parts agree as far as both go.  *)
Agree(b, e) == \A i \in Nat \ {0} : i <= Len(b) /\ i <= Len(e) => b[i] = e[i]

Spells(b, w, c, u) == Joined(b, w, c) = FlattenSeq(u)

(* What is behind the first part, once all of it is there.                 *)
Dropped(b, e) == SubSeq(b, Len(e) + 1, Len(b))

LEMMA JoinedAgrees ==
  ASSUME NEW S, NEW b \in Seq(S), NEW w \in Seq(S), NEW c \in Seq(S),
         NEW u \in Seq(Seq(S)), u # <<>>, Spells(b, w, c, u)
  PROVE  /\ Agree(b, Head(u))
         /\ Len(Head(u)) <= Len(b) =>
              /\ Dropped(b, Head(u)) \in Seq(S)
              /\ Spells(Dropped(b, Head(u)), w, c, Tail(u))
<1> DEFINE e == Head(u)
           o == FlattenSeq(Tail(u))
           wc == w \o c
           rest == Dropped(b, e)
<1>1. e \in Seq(S) /\ Tail(u) \in Seq(Seq(S))
  OBVIOUS
<1>2. o \in Seq(S)
  BY <1>1, FlattenSeqType
<1>3. wc \in Seq(S)
  OBVIOUS
<1>4. FlattenSeq(u) = e \o o
  BY FlattenSeqFirst
<1>5. b \o wc = e \o o
  BY <1>4 DEF Joined, Spells
<1>6. CutTwice(b, wc, e, o)
  BY <1>5 DEF CutTwice
<1> HIDE DEF e, o, wc
<1>7. Agree(b, e)
  BY <1>1, <1>2, <1>3, <1>5, SamePrefix DEF Agree
<1> HIDE DEF rest
<1>8. ASSUME Len(e) <= Len(b) PROVE rest \in Seq(S) /\ rest \o wc = o
  <2>1. /\ SubSeq(b, Len(e) + 1, Len(b)) \in Seq(S)
        /\ SubSeq(b, Len(e) + 1, Len(b)) \o wc = o
    BY SMTT(60), <1>1, <1>2, <1>3, <1>6, <1>8, WholePrefix
  <2>2. QED  BY <2>1 DEF rest, Dropped
<1>9. Spells(rest, w, c, Tail(u)) <=> rest \o wc = o
  BY DEF Joined, Spells, wc, o
<1>10. QED  BY <1>7, <1>8, <1>9, Zenon DEF e, rest

(* Parts in two groups.                                                    *)
LEMMA FlattenSeqConcat ==
  ASSUME NEW S, NEW a \in Seq(Seq(S)), NEW b \in Seq(Seq(S))
  PROVE  FlattenSeq(a \o b) = FlattenSeq(a) \o FlattenSeq(b)
<1> DEFINE fa == FlattenSeq(a)
           Splits(c) == FlattenSeq(a \o c) = fa \o FlattenSeq(c)
           T == {n \in Nat : \A c \in Seq(Seq(S)) : Len(c) = n => Splits(c)}
<1>1. fa \in Seq(S)
  BY FlattenSeqType
<1> HIDE DEF fa
<1>2. 0 \in T
  <2> SUFFICES ASSUME NEW c \in Seq(Seq(S)), Len(c) = 0 PROVE Splits(c)
    OBVIOUS
  <2>1. c = <<>> /\ a \o c = a
    OBVIOUS
  <2>2. fa \o <<>> = fa
    BY <1>1
  <2>3. QED  BY <2>1, <2>2, FlattenSeqEmpty, Zenon DEF fa
<1>3. ASSUME NEW n \in T PROVE n + 1 \in T
  <2>1. n \in Nat /\ \A c \in Seq(Seq(S)) : Len(c) = n => Splits(c)
    OBVIOUS
  <2> HIDE DEF Splits
  <2> SUFFICES ASSUME NEW c \in Seq(Seq(S)), Len(c) = n + 1 PROVE Splits(c)
    BY <2>1
  <2> DEFINE d == SubSeq(c, 1, n)
             x == c[n + 1]
  <2>2. d \in Seq(Seq(S)) /\ Len(d) = n /\ x \in Seq(S) /\ c = Append(d, x)
    BY <2>1
  <2> HIDE DEF d, x
  <2> DEFINE ad == a \o d
             fd == FlattenSeq(d)
  <2>3. ad \in Seq(Seq(S)) /\ a \o c = Append(ad, x)
    BY <2>2
  <2>4. FlattenSeq(ad) = fa \o fd
    BY <2>1, <2>2 DEF Splits
  <2>5. fd \in Seq(S)
    BY <2>2, FlattenSeqType
  <2>6. FlattenSeq(c) = fd \o x
    BY <2>2, FlattenSeqAppend
  <2> DEFINE e == FlattenSeq(ad)
  <2>7. FlattenSeq(a \o c) = e \o x
    BY <2>2, <2>3, FlattenSeqAppend
  <2> DEFINE y == fd \o x
  <2> HIDE DEF ad, fd
  <2>8. e \o x = fa \o y
    BY SMTT(60), <1>1, <2>2, <2>4, <2>5, Associativity
  <2>9. FlattenSeq(c) = y
    BY <2>6
  <2> HIDE DEF e, y
  <2>10. QED  BY <2>7, <2>8, <2>9, Zenon DEF Splits
<1> HIDE DEF Splits
<1>4. Nat \subseteq T
  <2>1. \A n \in Nat : n \in T => n + 1 \in T
    BY <1>3
  <2> HIDE DEF T
  <2>2. QED  BY <1>2, <2>1, NatInductionOnSet
<1>5. Len(b) \in Nat
  OBVIOUS
<1>6. Splits(b)
  BY <1>4, <1>5
<1>7. QED  BY <1>6 DEF Splits, fa

LEMMA FirstPart ==
  ASSUME NEW S, NEW x \in Seq(S), NEW y \in Seq(S), NEW t, t = x \o y
  PROVE  IsPrefix(x, t)
<1>1. Len(t) = Len(x) + Len(y) /\ Len(x) \in Nat /\ Len(y) \in Nat
  OBVIOUS
<1>2. Len(x) <= Len(t)
  BY <1>1
<1>3. SubSeq(t, 1, Len(x)) = x
  OBVIOUS
<1>4. SubSeq(x, 1, Len(x)) = x
  OBVIOUS
<1>5. QED  BY <1>2, <1>3, <1>4, Zenon DEF IsPrefix

(* More at the end, and more through the middle.                           *)
Joins(joined, more, longer) == longer = joined \o more

LEMMA JoinedTo ==
  ASSUME NEW S, NEW b \in Seq(S), NEW w \in Seq(S), NEW c \in Seq(S), NEW d \in Seq(S)
  PROVE  Joins(Joined(b, w, c), d, Joined(b, w, c \o d))
<1> DEFINE wc == w \o c
           cd == c \o d
           bwc == b \o wc
           wcd == wc \o d
<1>1. wc \in Seq(S) /\ cd \in Seq(S) /\ bwc \in Seq(S)
  OBVIOUS
<1>2. wcd = w \o cd
  BY Associativity
<1>3. bwc \o d = b \o wcd
  <2> HIDE DEF wc
  <2>1. QED  BY SMTT(60), <1>1, Associativity
<1> HIDE DEF wc, cd, wcd
<1>4. Joined(b, w, cd) = b \o wcd
  BY <1>2, Zenon DEF Joined
<1>5. Joined(b, w, c) = bwc
  BY Zenon DEF Joined, wc
<1>6. QED  BY <1>3, <1>4, <1>5, Zenon DEF cd, Joins

LEMMA JoinedThrough ==
  ASSUME NEW S, NEW b \in Seq(S), NEW w \in Seq(S), NEW d \in Seq(S)
  PROVE  Joins(Joined(b, w, <<>>), d, Joined(b, w \o d, <<>>))
<1>1. Joined(b, w \o d, <<>>) = Joined(b, w, d)
  BY JoinedFlushed
<1>2. Joined(b, w, <<>>) \o d = Joined(b, w, d)
  BY JoinedMore
<1>3. QED  BY <1>1, <1>2, Zenon DEF Joins

LEMMA JoinedAll ==
  ASSUME NEW S, NEW b \in Seq(S), NEW w \in Seq(S), NEW c \in Seq(S)
  PROVE  (b \o w) \o c = Joined(b, w, c)
<1> DEFINE bw == b \o w
           wc == w \o c
<1>1. bw \o c = b \o wc
  BY SMTT(60), Associativity
<1>2. QED  BY <1>1 DEF Joined

(* The first element of what is left goes to what is done.                 *)
LEMMA HeadMoves ==
  ASSUME NEW S, NEW a \in Seq(S), NEW b \in Seq(S), NEW r \in Seq(S), b # <<>>
  PROVE  /\ a \o (b \o r) = Append(a, Head(b)) \o (Tail(b) \o r)
         /\ Append(a, Head(b)) \in Seq(S)
<1> DEFINE h == <<Head(b)>>
           t == Tail(b)
           ah == a \o h
           tr == t \o r
           br == b \o r
<1>1. h \in Seq(S) /\ t \in Seq(S) /\ b = h \o t /\ Append(a, Head(b)) = ah
  <2>1. Head(b) \in S /\ t \in Seq(S)
    OBVIOUS
  <2>2. b = h \o t
    OBVIOUS
  <2>3. Append(a, Head(b)) = ah
    OBVIOUS
  <2>4. QED  BY <2>1, <2>2, <2>3
<1> HIDE DEF h, t
<1>2. ah \in Seq(S) /\ tr \in Seq(S) /\ br \in Seq(S)
  BY <1>1
<1>3. br = h \o tr
  BY SMTT(60), <1>1, Associativity
<1> DEFINE htr == h \o tr
<1>4. ah \o tr = a \o htr
  <2> HIDE DEF tr
  <2>1. QED  BY SMTT(60), <1>1, <1>2, Associativity
<1> HIDE DEF ah, tr, br, htr
<1>5. a \o br = ah \o tr
  BY <1>3, <1>4, Zenon DEF htr
<1>6. QED  BY <1>1, <1>2, <1>5, Zenon DEF tr, br, t

(* A part of a part.                                                       *)
LEMMA PartOfPart ==
  ASSUME NEW S, NEW b \in Seq(S), NEW w \in 0 .. Len(b), NEW n \in 0 .. Len(b) - w
  PROVE  LET held == SubSeq(b, w + 1, Len(b))
         IN  /\ held \in Seq(S) /\ Len(held) = Len(b) - w
             /\ SubSeq(b, w + 1, w + n) = SubSeq(held, 1, n)
             /\ SubSeq(b, w + n + 1, Len(b)) = SubSeq(held, n + 1, Len(held))
<1> DEFINE held == SubSeq(b, w + 1, Len(b))
<1>1. /\ held \in Seq(S) /\ Len(held) = Len(b) - w
      /\ \A i \in 1 .. Len(b) - w : held[i] = b[w + i]
  OBVIOUS
<1> DEFINE x == SubSeq(b, w + 1, w + n)
           y == SubSeq(b, w + n + 1, Len(b))
<1>2. x \in Seq(S) /\ Len(x) = n /\ \A i \in 1 .. n : x[i] = b[w + i]
  OBVIOUS
<1>3. /\ y \in Seq(S) /\ Len(y) = Len(b) - w - n
      /\ \A i \in 1 .. Len(b) - w - n : y[i] = b[w + n + i]
  OBVIOUS
<1> HIDE DEF held, x, y
<1> DEFINE u == SubSeq(held, 1, n)
           v == SubSeq(held, n + 1, Len(held))
<1>4. u \in Seq(S) /\ Len(u) = n /\ \A i \in 1 .. n : u[i] = held[i]
  BY <1>1
<1>5. /\ v \in Seq(S) /\ Len(v) = Len(held) - n
      /\ \A i \in 1 .. Len(held) - n : v[i] = held[n + i]
  BY <1>1
<1> HIDE DEF u, v
<1>6. x = u
  <2>1. \A i \in 1 .. n : i \in 1 .. Len(b) - w
    OBVIOUS
  <2>2. \A i \in 1 .. n : x[i] = u[i]
    BY <1>1, <1>2, <1>4, <2>1, Zenon
  <2>3. QED  BY <1>2, <1>4, <2>2, SeqEqual
<1>7. y = v
  <2>1. ASSUME NEW i \in 1 .. Len(b) - w - n PROVE y[i] = v[i]
    <3>1. n + i \in 1 .. Len(b) - w /\ i \in 1 .. Len(held) - n /\ w + (n + i) = w + n + i
      BY <1>1
    <3>2. v[i] = held[n + i] /\ held[n + i] = b[w + (n + i)]
      BY <1>1, <1>5, <3>1, Zenon
    <3>3. QED  BY <1>3, <3>1, <3>2
  <2>2. Len(y) = Len(v)
    BY <1>1, <1>3, <1>5
  <2>3. QED  BY <1>3, <1>5, <2>1, <2>2, SeqEqual
<1>8. QED  BY <1>1, <1>6, <1>7 DEF held, x, y, u, v

-----------------------------------------------------------------------------
(* Parts of a sequence put together.                                       *)
LEMMA SuffixElements ==
  ASSUME NEW S, NEW s \in Seq(S), NEW n \in 0 .. Len(s)
  PROVE  LET r == SubSeq(s, n + 1, Len(s))
         IN  r \in Seq(S) /\ Len(r) = Len(s) - n /\ \A i \in 1 .. Len(s) - n : r[i] = s[n + i]
OBVIOUS

LEMMA AfterPrefix ==
  ASSUME NEW S, NEW x \in Seq(S), NEW y \in Seq(S), NEW t, t = x \o y
  PROVE  SubSeq(t, Len(x) + 1, Len(t)) = y
<1>1. Len(x) \in Nat /\ Len(y) \in Nat
  OBVIOUS
<1>2. t \in Seq(S) /\ Len(t) = Len(x) + Len(y)
  BY Concatenated
<1>3. \A i \in 1 .. Len(y) : t[Len(x) + i] = y[i]
  BY Concatenated
<1> DEFINE n == Len(x)
<1>4. t \in Seq(S) /\ n \in 0 .. Len(t) /\ Len(y) = Len(t) - n
      /\ \A i \in 1 .. Len(y) : t[n + i] = y[i]
  BY <1>1, <1>2, <1>3
<1> HIDE DEF n
<1> DEFINE r == SubSeq(t, n + 1, Len(t))
<1>5. r \in Seq(S) /\ Len(r) = Len(t) - n /\ \A i \in 1 .. Len(t) - n : r[i] = t[n + i]
  BY <1>4, SuffixElements
<1> HIDE DEF r
<1>6. Len(r) = Len(y) /\ \A i \in 1 .. Len(y) : r[i] = y[i]
  BY <1>4, <1>5
<1>7. r = y
  BY <1>5, <1>6, SeqEqual
<1>8. QED  BY <1>7 DEF r, n

(* Three sequences in a row.                                               *)
InARow(w, a, b, c) == w = (a \o b) \o c

LEMMA ThreeParts ==
  ASSUME NEW S, NEW a \in Seq(S), NEW b \in Seq(S), NEW c \in Seq(S), NEW w, InARow(w, a, b, c)
  PROVE  /\ w \in Seq(S) /\ Len(w) = Len(a) + Len(b) + Len(c)
         /\ \A i \in 1 .. Len(a) : w[i] = a[i]
         /\ \A i \in 1 .. Len(b) : w[Len(a) + i] = b[i]
         /\ SubSeq(w, Len(a) + Len(b) + 1, Len(w)) = c
<1> DEFINE ab == a \o b
<1>1. /\ ab \in Seq(S) /\ Len(ab) = Len(a) + Len(b) /\ Len(a) \in Nat /\ Len(b) \in Nat
      /\ \A i \in 1 .. Len(a) : ab[i] = a[i]
      /\ \A i \in 1 .. Len(b) : ab[Len(a) + i] = b[i]
  <2>1. \A i \in 1 .. Len(a) : ab[i] = a[i]
    BY Concatenated
  <2>2. \A i \in 1 .. Len(b) : ab[Len(a) + i] = b[i]
    BY Concatenated
  <2>3. ab \in Seq(S) /\ Len(ab) = Len(a) + Len(b) /\ Len(a) \in Nat /\ Len(b) \in Nat
    BY Concatenated
  <2> HIDE DEF ab
  <2>4. QED  BY <2>1, <2>2, <2>3
<1>2. w = ab \o c
  BY DEF InARow
<1> HIDE DEF ab
<1>3. /\ ab \o c \in Seq(S) /\ Len(ab \o c) = Len(ab) + Len(c)
      /\ \A i \in 1 .. Len(ab) : (ab \o c)[i] = ab[i]
  <2>1. ab \o c \in Seq(S) /\ Len(ab \o c) = Len(ab) + Len(c)
    BY <1>1, Concatenated
  <2>2. \A i \in 1 .. Len(ab) : (ab \o c)[i] = ab[i]
    BY <1>1, Concatenated
  <2>3. QED  BY <2>1, <2>2
<1>4. SubSeq(w, Len(ab) + 1, Len(w)) = c
  BY <1>1, <1>2, AfterPrefix
<1>5. \A i \in 1 .. Len(a) : i \in 1 .. Len(ab)
  BY <1>1
<1>6. \A i \in 1 .. Len(b) : Len(a) + i \in 1 .. Len(ab)
  BY <1>1
<1>7. \A i \in 1 .. Len(ab) : w[i] = ab[i]
  BY <1>2, <1>3
<1>8. \A i \in 1 .. Len(a) : w[i] = a[i]
  BY <1>1, <1>5, <1>7
<1>9. \A i \in 1 .. Len(b) : w[Len(a) + i] = b[i]
  BY <1>1, <1>6, <1>7
<1>10. QED  BY <1>1, <1>2, <1>3, <1>4, <1>8, <1>9

LEMMA PrefixGrows ==
  ASSUME NEW S, NEW s \in Seq(S), NEW n \in 0 .. Len(s) - 1
  PROVE  Append(SubSeq(s, 1, n), s[n + 1]) = SubSeq(s, 1, n + 1)
<1>1. 1 \in 1 .. Len(s) /\ n + 1 \in 1 .. Len(s) /\ (n + 1) - 1 = n
  OBVIOUS
<1>2. SubSeq(s, 1, n + 1) = SubSeq(s, 1, (n + 1) - 1) \o <<s[n + 1]>>
  BY <1>1, SubSeqRecursiveSecond
<1>3. SubSeq(s, 1, n) \in Seq(S) /\ s[n + 1] \in S
  OBVIOUS
<1>4. Append(SubSeq(s, 1, n), s[n + 1]) = SubSeq(s, 1, n) \o <<s[n + 1]>>
  BY <1>3, AppendIsConcat
<1>5. QED  BY <1>1, <1>2, <1>4

LEMMA PrefixIsPrefix ==
  ASSUME NEW S, NEW s \in Seq(S), NEW n \in 0 .. Len(s), NEW p, p = SubSeq(s, 1, n)
  PROVE  IsPrefix(p, s)
<1>1. Len(p) = n /\ p = SubSeq(s, 1, n) /\ p \in Seq(S) /\ n \in Nat /\ Len(s) \in Nat
  OBVIOUS
<1>2. SubSeq(p, 1, Len(p)) = p
  BY <1>1, SubSeqFull
<1>3. QED  BY <1>1, <1>2 DEF IsPrefix

-----------------------------------------------------------------------------
(* A function defined by recursion over the numbers exists.                *)
RecursUpto(f, n, S, a, g) ==
  f \in [0 .. n -> S] /\ f[0] = a /\ \A k \in 0 .. n - 1 : f[k + 1] = g[<<k, f[k]>>]

LEMMA BeginningsExist ==
  ASSUME NEW S, NEW a \in S, NEW g \in [Nat \X S -> S]
  PROVE  \A n \in Nat : \E f : RecursUpto(f, n, S, a, g)
<1> DEFINE T == {n \in Nat : \E f : RecursUpto(f, n, S, a, g)}
<1>1. 0 \in T
  <2> DEFINE f == [k \in 0 .. 0 |-> a]
  <2>1. f \in [0 .. 0 -> S] /\ f[0] = a /\ 0 .. 0 - 1 = {}
    OBVIOUS
  <2> HIDE DEF f
  <2>2. QED  BY <2>1, Zenon DEF RecursUpto
<1>2. ASSUME NEW n \in Nat, n \in T  PROVE n + 1 \in T
  <2>1. PICK f : RecursUpto(f, n, S, a, g)
    BY <1>2
  <2>2. f \in [0 .. n -> S] /\ f[0] = a /\ \A k \in 0 .. n - 1 : f[k + 1] = g[<<k, f[k]>>]
    BY <2>1 DEF RecursUpto
  <2> DEFINE h == [k \in 0 .. n + 1 |-> IF k <= n THEN f[k] ELSE g[<<n, f[n]>>]]
  <2>3. f[n] \in S /\ g[<<n, f[n]>>] \in S
    BY <2>2
  <2>4. h \in [0 .. n + 1 -> S]
    BY <2>2, <2>3
  <2>5. (\A k \in 0 .. n : h[k] = f[k]) /\ h[n + 1] = g[<<n, f[n]>>]
    OBVIOUS
  <2> HIDE DEF h
  <2>6. \A k \in 0 .. n : h[k + 1] = g[<<k, h[k]>>]
    <3> TAKE k \in 0 .. n
    <3>1. CASE k = n
      BY <2>5, <3>1
    <3>2. CASE k # n
      <4>1. k \in 0 .. n - 1 /\ k + 1 \in 0 .. n
        BY <3>2
      <4>2. h[k + 1] = f[k + 1] /\ h[k] = f[k] /\ f[k + 1] = g[<<k, f[k]>>]
        BY <2>2, <2>5, <4>1
      <4>3. QED  BY <4>2
    <3>3. QED  BY <3>1, <3>2
  <2>7. h[0] = a /\ (n + 1) - 1 = n
    BY <2>2, <2>5
  <2>8. RecursUpto(h, n + 1, S, a, g)
    BY <2>4, <2>6, <2>7, Zenon DEF RecursUpto
  <2>9. QED  BY <2>8
<1> HIDE DEF T
<1>3. Nat \subseteq T
  BY <1>1, <1>2, NatInductionOnSet
<1>4. QED  BY <1>3 DEF T

LEMMA BeginningsAgree ==
  ASSUME NEW S, NEW a, NEW g, NEW m \in Nat, NEW n \in Nat, NEW f, NEW h,
         RecursUpto(f, m, S, a, g), RecursUpto(h, n, S, a, g)
  PROVE  \A k \in Nat : k <= m /\ k <= n => f[k] = h[k]
<1> DEFINE T == {k \in Nat : k <= m /\ k <= n => f[k] = h[k]}
<1>1. 0 \in T
  BY DEF RecursUpto
<1>2. ASSUME NEW k \in Nat, k \in T  PROVE k + 1 \in T
  <2> SUFFICES ASSUME k + 1 <= m, k + 1 <= n PROVE f[k + 1] = h[k + 1]
    OBVIOUS
  <2>1. k \in 0 .. m - 1 /\ k \in 0 .. n - 1 /\ k <= m /\ k <= n
    OBVIOUS
  <2>2. f[k] = h[k]
    BY <1>2, <2>1
  <2>3. f[k + 1] = g[<<k, f[k]>>] /\ h[k + 1] = g[<<k, h[k]>>]
    BY <2>1, Zenon DEF RecursUpto
  <2>4. QED  BY <2>2, <2>3
<1> HIDE DEF T
<1>3. Nat \subseteq T
  BY <1>1, <1>2, NatInductionOnSet
<1>4. QED  BY <1>3 DEF T

Recurs(f, S, a, g) ==
  f \in [Nat -> S] /\ f[0] = a /\ \A k \in Nat : f[k + 1] = g[<<k, f[k]>>]

LEMMA RecursionOnNat ==
  ASSUME NEW S, NEW a \in S, NEW g \in [Nat \X S -> S]
  PROVE  \E f : Recurs(f, S, a, g)
<1> DEFINE b(n) == CHOOSE f : RecursUpto(f, n, S, a, g)
<1>1. \A n \in Nat : RecursUpto(b(n), n, S, a, g)
  <2> TAKE n \in Nat
  <2>1. \E f : RecursUpto(f, n, S, a, g)
    BY BeginningsExist
  <2>2. QED  BY <2>1, Zenon
<1> HIDE DEF b
<1> DEFINE f == [n \in Nat |-> b(n)[n]]
<1>2. \A n \in Nat : f[n] = b(n)[n]
  OBVIOUS
<1>3. f \in [Nat -> S]
  <2>1. ASSUME NEW n \in Nat PROVE b(n)[n] \in S
    <3>1. b(n) \in [0 .. n -> S]
      BY <1>1, Zenon DEF RecursUpto
    <3>2. n \in 0 .. n
      OBVIOUS
    <3>3. QED  BY <3>1, <3>2, Zenon
  <2>2. QED  BY <2>1
<1> HIDE DEF f
<1>4. f[0] = a
  <2>1. 0 \in Nat
    OBVIOUS
  <2>2. RecursUpto(b(0), 0, S, a, g)
    BY <1>1, <2>1, Zenon
  <2>3. QED  BY <1>2, <2>1, <2>2, Zenon DEF RecursUpto
<1>5. ASSUME NEW k \in Nat PROVE f[k + 1] = g[<<k, f[k]>>]
  <2>1. k + 1 \in Nat /\ k \in 0 .. (k + 1) - 1 /\ k <= k /\ k <= k + 1
    OBVIOUS
  <2>2. RecursUpto(b(k), k, S, a, g) /\ RecursUpto(b(k + 1), k + 1, S, a, g)
    BY <1>1, <2>1, Zenon
  <2> DEFINE f1 == b(k)
             f2 == b(k + 1)
  <2>3. f1[k] = f2[k]
    <3>1. RecursUpto(f1, k, S, a, g) /\ RecursUpto(f2, k + 1, S, a, g)
      BY <2>2
    <3> HIDE DEF f1, f2
    <3>2. \A i \in Nat : i <= k /\ i <= k + 1 => f1[i] = f2[i]
      BY <2>1, <3>1, BeginningsAgree
    <3>3. QED  BY <2>1, <3>2
  <2>4. b(k + 1)[k + 1] = g[<<k, b(k + 1)[k]>>]
    BY <2>1, <2>2, Zenon DEF RecursUpto
  <2>5. QED  BY <1>2, <2>1, <2>3, <2>4, Zenon
<1>6. QED  BY <1>3, <1>4, <1>5, Zenon DEF Recurs

-----------------------------------------------------------------------------
(* Bits.                                                                   *)

LEMMA BitIs ==
  /\ Bit \in [Nat -> Nat] /\ Bit[0] = 1
  /\ \A k \in Nat : Bit[k + 1] = 2 * Bit[k] /\ Bit[k] \in Nat \ {0}
<1> DEFINE g == [p \in Nat \X Nat |-> 2 * p[2]]
           Is(f) == f = [k \in Nat |-> IF k = 0 THEN 1 ELSE 2 * f[k - 1]]
<1>1. g \in [Nat \X Nat -> Nat] /\ \A k, x \in Nat : g[<<k, x>>] = 2 * x
  OBVIOUS
<1> HIDE DEF g
<1>2. PICK f : f \in [Nat -> Nat] /\ f[0] = 1 /\ \A k \in Nat : f[k + 1] = g[<<k, f[k]>>]
  <2>1. 1 \in Nat
    OBVIOUS
  <2>2. \E f : Recurs(f, Nat, 1, g)
    BY <1>1, <2>1, RecursionOnNat
  <2>3. QED  BY <2>2, Zenon DEF Recurs
<1>3. Is(f)
  <2>1. \A k \in Nat : f[k] = IF k = 0 THEN 1 ELSE 2 * f[k - 1]
    <3> TAKE k \in Nat
    <3>1. CASE k # 0
      <4>1. k - 1 \in Nat /\ (k - 1) + 1 = k /\ f[k - 1] \in Nat
        BY <1>2, <3>1
      <4>2. f[(k - 1) + 1] = g[<<k - 1, f[k - 1]>>]
        BY <1>2, <4>1
      <4>3. QED  BY <1>1, <3>1, <4>1, <4>2
    <3>2. QED  BY <1>2, <3>1
  <2> DEFINE body(k) == IF k = 0 THEN 1 ELSE 2 * f[k - 1]
  <2>2. f = [k \in Nat |-> f[k]]
    BY <1>2
  <2>3. \A k \in Nat : f[k] = body(k)
    BY <2>1
  <2> HIDE DEF body
  <2>4. f = [k \in Nat |-> body(k)]
    BY <2>2, <2>3, Zenon
  <2>5. QED  BY <2>4 DEF body
<1>4. Is(Bit)
  <2>1. Bit = CHOOSE h : Is(h)
    BY DEF Bit
  <2> HIDE DEF Is
  <2>2. QED  BY <1>3, <2>1, Zenon
<1>5. \A k \in Nat : Bit[k] = IF k = 0 THEN 1 ELSE 2 * Bit[k - 1]
  BY <1>4
<1>6. Bit[0] = 1 /\ \A k \in Nat : Bit[k + 1] = 2 * Bit[k]
  <2>1. \A k \in Nat : k + 1 \in Nat /\ k + 1 # 0 /\ (k + 1) - 1 = k
    OBVIOUS
  <2>2. \A k \in Nat : Bit[k + 1] = 2 * Bit[(k + 1) - 1]
    BY <1>5, <2>1
  <2>3. \A k \in Nat : Bit[k + 1] = 2 * Bit[k]
    BY <2>1, <2>2, Zenon
  <2>4. QED  BY <1>5, <2>3
<1> DEFINE T == {k \in Nat : Bit[k] \in Nat \ {0}}
<1>7. 0 \in T
  BY <1>6
<1>8. ASSUME NEW k \in Nat, k \in T PROVE k + 1 \in T
  <2>1. Bit[k] \in Nat \ {0} /\ Bit[k + 1] = 2 * Bit[k]
    BY <1>6, <1>8
  <2>2. Bit[k + 1] \in Nat \ {0}
    BY <2>1
  <2>3. QED  BY <2>2
<1> HIDE DEF T
<1>9. Nat \subseteq T
  BY <1>7, <1>8, NatInductionOnSet
<1>10. \A k \in Nat : Bit[k] \in Nat \ {0}
  BY <1>9 DEF T
<1>11. Bit \in [Nat -> Nat]
  <2>1. \A k \in Nat : Bit[k] \in Nat
    BY <1>10
  <2>2. Bit = [k \in Nat |-> IF k = 0 THEN 1 ELSE 2 * Bit[k - 1]]
    BY <1>4
  <2> DEFINE body(k) == IF k = 0 THEN 1 ELSE 2 * Bit[k - 1]
  <2>3. Bit = [k \in Nat |-> body(k)] /\ \A k \in Nat : Bit[k] = body(k)
    BY <1>5, <2>2
  <2> HIDE DEF body
  <2>4. \A k \in Nat : body(k) \in Nat
    BY <2>1, <2>3, Zenon
  <2>5. QED  BY <2>3, <2>4, Zenon
<1>12. QED  BY <1>6, <1>10, <1>11

(* The sums of a byte of bits.                                             *)
Sums(s, bits, n) ==
  s = [k \in 0 .. n |-> IF k = 0 THEN 0 ELSE s[k - 1] + (IF k - 1 \in bits THEN Bit[k - 1] ELSE 0)]

Part(bits, k) == IF k \in bits THEN Bit[k] ELSE 0

LEMMA PartType ==
  ASSUME NEW bits, NEW k \in Nat
  PROVE  Part(bits, k) \in Nat
BY BitIs DEF Part

LEMMA SumsExist ==
  ASSUME NEW bits, NEW n \in Nat
  PROVE  \E s : Sums(s, bits, n)
<1> DEFINE g == [p \in Nat \X Nat |-> p[2] + Part(bits, p[1])]
<1>1. g \in [Nat \X Nat -> Nat] /\ \A k, x \in Nat : g[<<k, x>>] = x + Part(bits, k)
  BY PartType
<1> HIDE DEF g
<1>2. PICK f : f \in [Nat -> Nat] /\ f[0] = 0 /\ \A k \in Nat : f[k + 1] = g[<<k, f[k]>>]
  <2>1. 0 \in Nat
    OBVIOUS
  <2>2. \E f : Recurs(f, Nat, 0, g)
    BY <1>1, <2>1, RecursionOnNat
  <2>3. QED  BY <2>2, Zenon DEF Recurs
<1> DEFINE s == [k \in 0 .. n |-> f[k]]
           body(h, k) == IF k = 0 THEN 0 ELSE h[k - 1] + Part(bits, k - 1)
<1>3. \A k \in 0 .. n : f[k] = body(s, k)
  <2> TAKE k \in 0 .. n
  <2>1. CASE k # 0
    <3>1. k - 1 \in Nat /\ (k - 1) + 1 = k /\ f[k - 1] \in Nat /\ s[k - 1] = f[k - 1]
      BY <1>2, <2>1
    <3>2. f[(k - 1) + 1] = g[<<k - 1, f[k - 1]>>]
      BY <1>2, <3>1
    <3> HIDE DEF s
    <3>3. QED  BY <1>1, <2>1, <3>1, <3>2
  <2>2. QED  BY <1>2, <2>1
<1>4. s = [k \in 0 .. n |-> body(s, k)]
  <2> HIDE DEF body
  <2>1. s = [k \in 0 .. n |-> f[k]]
    OBVIOUS
  <2> HIDE DEF s
  <2>2. QED  BY <1>3, <2>1, Zenon
<1>5. Sums(s, bits, n)
  <2> HIDE DEF s
  <2>1. QED  BY <1>4, Zenon DEF Sums, Part
<1>6. QED  BY <1>5

LEMMA SumsStep ==
  ASSUME NEW bits, NEW n \in Nat, NEW s, Sums(s, bits, n)
  PROVE  /\ s[0] = 0
         /\ \A k \in 0 .. n - 1 : s[k + 1] = s[k] + Part(bits, k)
         /\ \A k \in 0 .. n : s[k] \in 0 .. Bit[k] - 1
<1>1. \A k \in 0 .. n : s[k] = IF k = 0 THEN 0 ELSE s[k - 1] + Part(bits, k - 1)
  BY Zenon DEF Sums, Part
<1>2. s[0] = 0
  <2>1. 0 \in 0 .. n
    OBVIOUS
  <2>2. QED  BY <1>1, <2>1, Zenon
<1>3. ASSUME NEW k \in 0 .. n - 1 PROVE s[k + 1] = s[k] + Part(bits, k)
  <2>1. k + 1 \in 0 .. n /\ k + 1 # 0 /\ (k + 1) - 1 = k
    OBVIOUS
  <2>2. s[k + 1] = s[(k + 1) - 1] + Part(bits, (k + 1) - 1)
    BY <1>1, <2>1, Zenon
  <2>3. QED  BY <2>1, <2>2
<1> DEFINE T == {k \in Nat : k <= n => s[k] \in 0 .. Bit[k] - 1}
<1>4. 0 \in T
  BY <1>2, BitIs
<1>5. ASSUME NEW k \in Nat, k \in T PROVE k + 1 \in T
  <2> SUFFICES ASSUME k + 1 <= n PROVE s[k + 1] \in 0 .. Bit[k + 1] - 1
    OBVIOUS
  <2>1. k \in 0 .. n - 1 /\ s[k] \in 0 .. Bit[k] - 1
    BY <1>5
  <2>2. s[k + 1] = s[k] + Part(bits, k)
    BY <1>3, <2>1
  <2>3. Part(bits, k) \in {0, Bit[k]} /\ Bit[k] \in Nat /\ Bit[k + 1] = 2 * Bit[k]
    BY BitIs DEF Part
  <2>4. QED  BY <2>1, <2>2, <2>3
<1> HIDE DEF T
<1>6. Nat \subseteq T
  BY <1>4, <1>5, NatInductionOnSet
<1>7. \A k \in 0 .. n : s[k] \in 0 .. Bit[k] - 1
  <2>1. \A k \in 0 .. n : k \in Nat /\ k <= n
    OBVIOUS
  <2>2. QED  BY <1>6, <2>1 DEF T
<1>8. QED  BY <1>2, <1>3, <1>7

LEMMA ByteOfIs ==
  ASSUME NEW bits, NEW n \in Nat
  PROVE  \E s : Sums(s, bits, n) /\ ByteOf(bits, n) = s[n]
<1>1. \E s : Sums(s, bits, n)
  BY SumsExist
<1> DEFINE s == CHOOSE s : Sums(s, bits, n)
<1>2. Sums(s, bits, n)
  BY <1>1
<1>3. ByteOf(bits, n) = s[n]
  BY Zenon DEF ByteOf, Sums
<1>4. QED  BY <1>2, <1>3

LEMMA ByteOfType ==
  ASSUME NEW bits, NEW n \in Nat
  PROVE  ByteOf(bits, n) \in Nat
<1>1. PICK s : Sums(s, bits, n) /\ ByteOf(bits, n) = s[n]
  BY ByteOfIs, Zenon
<1>2. n \in 0 .. n /\ Bit[n] \in Nat
  BY BitIs
<1>3. s[n] \in 0 .. Bit[n] - 1
  BY <1>1, <1>2, SumsStep
<1>4. QED  BY <1>1, <1>2, <1>3

(* Above a bit there are only multiples of the next.                       *)
LEMMA Distributes ==
  ASSUME NEW p \in Nat, NEW q \in Nat, NEW n \in Nat
  PROVE  (p + q) * n = p * n + q * n
OBVIOUS

LEMMA BitMultiple ==
  ASSUME NEW b \in Nat
  PROVE  \A k \in Nat : \E p \in Nat : Bit[b + k] = p * Bit[b]
<1> DEFINE T == {k \in Nat : \E p \in Nat : Bit[b + k] = p * Bit[b]}
<1>1. 0 \in T
  <2>1. Bit[b + 0] = 1 * Bit[b]
    BY BitIs
  <2>2. QED  BY <2>1
<1>2. ASSUME NEW k \in Nat, k \in T PROVE k + 1 \in T
  <2>1. PICK p \in Nat : Bit[b + k] = p * Bit[b]
    BY <1>2
  <2>2. Bit[b + (k + 1)] = 2 * Bit[b + k] /\ Bit[b] \in Nat
    <3>1. b + k \in Nat /\ b + (k + 1) = (b + k) + 1
      OBVIOUS
    <3>2. QED  BY <3>1, BitIs
  <2>3. (p + p) * Bit[b] = p * Bit[b] + p * Bit[b]
    BY <2>2, Distributes
  <2>4. Bit[b + (k + 1)] = (p + p) * Bit[b]
    <3> DEFINE x == p * Bit[b]
    <3>1. x \in Nat
      BY <2>2, ProductType
    <3> HIDE DEF x
    <3>2. Bit[b + k] = x /\ (p + p) * Bit[b] = x + x
      BY <2>1, <2>3 DEF x
    <3>3. QED  BY <2>2, <3>1, <3>2
  <2>5. QED  BY <2>4
<1> HIDE DEF T
<1>3. Nat \subseteq T
  BY <1>1, <1>2, NatInductionOnSet
<1>4. QED  BY <1>3 DEF T

(* The byte made of a set of bits holds these bits and no others.          *)
LEMMA ByteOfReads ==
  ASSUME NEW bits, NEW n \in Nat, NEW b \in 0 .. n - 1
  PROVE  IsSet(ByteOf(bits, n), b) <=> b \in bits
<1>1. PICK s : Sums(s, bits, n) /\ ByteOf(bits, n) = s[n]
  BY ByteOfIs, Zenon
<1>2. /\ \A k \in 0 .. n - 1 : s[k + 1] = s[k] + Part(bits, k)
      /\ \A k \in 0 .. n : s[k] \in 0 .. Bit[k] - 1
  BY <1>1, SumsStep
<1> DEFINE c == b + 1
           T == {k \in Nat : c + k <= n => \E q \in Nat : s[c + k] = q * Bit[c] + s[c]}
<1>3. c \in Nat /\ c \in 0 .. n /\ b \in Nat /\ b \in 0 .. n /\ Bit[c] \in Nat /\ Bit[b] \in Nat \ {0} /\ Bit[c] = 2 * Bit[b]
  BY BitIs
<1>4. s[c] \in Nat /\ s[b] \in 0 .. Bit[b] - 1
  BY <1>2, <1>3
<1> HIDE DEF c
<1>5. 0 \in T
  <2>1. s[c + 0] = 0 * Bit[c] + s[c]
    BY <1>3, <1>4
  <2>2. QED  BY <2>1
<1>6. ASSUME NEW k \in Nat, k \in T PROVE k + 1 \in T
  <2> SUFFICES ASSUME c + (k + 1) <= n PROVE \E q \in Nat : s[c + (k + 1)] = q * Bit[c] + s[c]
    OBVIOUS
  <2>1. c + k \in 0 .. n - 1 /\ c + (k + 1) = (c + k) + 1 /\ c + k <= n
    BY <1>3
  <2>2. PICK q \in Nat : s[c + k] = q * Bit[c] + s[c]
    BY <1>6, <2>1
  <2>3. PICK p \in Nat : Bit[c + k] = p * Bit[c]
    BY <1>3, BitMultiple
  <2>4. s[c + (k + 1)] = s[c + k] + Part(bits, c + k)
    BY <1>2, <2>1
  <2>5. CASE c + k \in bits
    <3>1. Part(bits, c + k) = p * Bit[c]
      BY <2>3, <2>5 DEF Part
    <3>2. (q + p) * Bit[c] = q * Bit[c] + p * Bit[c]
      BY <1>3, Distributes
    <3>3. q * Bit[c] \in Nat /\ p * Bit[c] \in Nat
      BY <1>3, ProductType
    <3> DEFINE x == q * Bit[c]
               y == p * Bit[c]
    <3>4. x \in Nat /\ y \in Nat /\ s[c + k] = x + s[c] /\ Part(bits, c + k) = y /\ (q + p) * Bit[c] = x + y
      BY <2>2, <3>1, <3>2, <3>3
    <3> HIDE DEF x, y
    <3>5. s[c + (k + 1)] = (q + p) * Bit[c] + s[c]
      BY <1>4, <2>4, <3>4
    <3>6. QED  BY <3>5
  <2>6. CASE c + k \notin bits
    <3>1. s[c + (k + 1)] = s[c + k] + 0
      BY <2>4, <2>6 DEF Part
    <3>2. q * Bit[c] \in Nat
      BY <1>3, ProductType
    <3>3. s[c + (k + 1)] = q * Bit[c] + s[c]
      <4> DEFINE x == q * Bit[c]
      <4>1. x \in Nat /\ s[c + k] = x + s[c]
        BY <2>2, <3>2
      <4> HIDE DEF x
      <4>2. s[c + (k + 1)] = x + s[c]
        BY <1>4, <3>1, <4>1
      <4>3. QED  BY <4>2 DEF x
    <3>4. QED  BY <3>3
  <2>7. QED  BY <2>5, <2>6
<1> HIDE DEF T
<1>7. Nat \subseteq T
  BY <1>5, <1>6, NatInductionOnSet
<1>8. PICK q \in Nat : s[n] = q * Bit[c] + s[c]
  <2>1. n - c \in Nat /\ c + (n - c) = n /\ n <= n
    BY <1>3
  <2>2. \E q \in Nat : s[c + (n - c)] = q * Bit[c] + s[c]
    BY <1>7, <2>1 DEF T
  <2>3. QED  BY <2>1, <2>2
<1> DEFINE x == IF b \in bits THEN 1 ELSE 0
           m == Bit[b]
<1>9. s[c] = x * m + s[b]
  <2>1. s[b + 1] = s[b] + Part(bits, b)
    BY <1>2
  <2>2. Part(bits, b) = x * m
    BY <1>3 DEF Part
  <2>3. QED  BY <1>3, <1>4, <2>1, <2>2 DEF c
<1>10. x \in 0 .. 1 /\ m \in Nat \ {0} /\ Bit[c] = m + m /\ s[b] \in 0 .. m - 1
  BY <1>3, <1>4
<1>11. x = 1 <=> b \in bits
  OBVIOUS
<1> HIDE DEF x, m
<1>12. s[n] = ((q + q) + x) * m + s[b]
  <2> DEFINE qm == q * m
             xm == x * m
  <2>1. q * (m + m) = qm + qm
    BY <1>10
  <2>2. ((q + q) + x) * m = (qm + qm) + xm
    <3>1. ((q + q) + x) * m = (q + q) * m + x * m
      BY <1>10, Distributes
    <3>2. (q + q) * m = q * m + q * m
      BY <1>10, Distributes
    <3>3. QED  BY <3>1, <3>2
  <2>3. qm \in Nat /\ xm \in Nat
    BY <1>10, ProductType
  <2>4. s[n] = q * (m + m) + s[c] /\ s[c] = xm + s[b] /\ s[b] \in Nat
    BY <1>8, <1>9, <1>10
  <2> HIDE DEF qm, xm
  <2>5. QED  BY <2>1, <2>2, <2>3, <2>4
<1> DEFINE d == (q + q) + x
<1>13. d \in Nat /\ (d % 2 = 1 <=> x = 1)
  BY <1>10
<1>14. s[n] = d * m + s[b]
  BY <1>12
<1> HIDE DEF d
<1>15. s[n] \in Nat
  BY <1>10, <1>13, <1>14, ProductType
<1>16. s[n] \div m = d
  <2> DEFINE v == s[n]
             rest == s[b]
  <2>1. v \in Nat /\ m \in Nat \ {0} /\ d \in Nat /\ rest \in 0 .. m - 1 /\ v = d * m + rest
    BY <1>10, <1>13, <1>14, <1>15
  <2> HIDE DEF v, rest
  <2>2. v \div m = d
    BY <2>1, QuotientUnique
  <2>3. QED  BY <2>2 DEF v
<1>17. QED  BY <1>1, <1>11, <1>13, <1>16 DEF IsSet, m

LEMMA ByteOfNone ==
  ASSUME NEW bits, NEW n \in Nat, \A k \in 0 .. n - 1 : k \notin bits
  PROVE  ByteOf(bits, n) = 0
<1>1. PICK s : Sums(s, bits, n) /\ ByteOf(bits, n) = s[n]
  BY ByteOfIs, Zenon
<1>2. s[0] = 0 /\ \A k \in 0 .. n - 1 : s[k + 1] = s[k] + Part(bits, k)
  BY <1>1, SumsStep
<1> DEFINE T == {k \in Nat : k <= n => s[k] = 0}
<1>3. 0 \in T
  BY <1>2
<1>4. ASSUME NEW k \in Nat, k \in T PROVE k + 1 \in T
  <2> SUFFICES ASSUME k + 1 <= n PROVE s[k + 1] = 0
    OBVIOUS
  <2>1. k \in 0 .. n - 1 /\ s[k] = 0
    BY <1>4
  <2>2. s[k + 1] = s[k] + 0
    BY <1>2, <2>1 DEF Part
  <2>3. QED  BY <2>1, <2>2
<1> HIDE DEF T
<1>5. Nat \subseteq T
  BY <1>3, <1>4, NatInductionOnSet
<1>6. n \in T /\ n <= n
  BY <1>5
<1>7. QED  BY <1>1, <1>6 DEF T

(* Setting a bit that is clear.                                            *)
LEMMA ByteOfAdds ==
  ASSUME NEW bits, NEW n \in Nat, NEW b \in 0 .. n - 1, b \notin bits
  PROVE  ByteOf(bits \cup {b}, n) = ByteOf(bits, n) + Bit[b]
<1> DEFINE more == bits \cup {b}
<1>1. PICK s : Sums(s, bits, n) /\ ByteOf(bits, n) = s[n]
  BY ByteOfIs, Zenon
<1>2. PICK t : Sums(t, more, n) /\ ByteOf(more, n) = t[n]
  BY ByteOfIs, Zenon
<1>3. /\ s[0] = 0 /\ \A k \in 0 .. n - 1 : s[k + 1] = s[k] + Part(bits, k)
      /\ \A k \in 0 .. n : s[k] \in 0 .. Bit[k] - 1
  BY <1>1, SumsStep
<1>4. t[0] = 0 /\ \A k \in 0 .. n - 1 : t[k + 1] = t[k] + Part(more, k)
  BY <1>2, SumsStep
<1>5. \A k \in Nat : Part(more, k) = IF k = b THEN Bit[b] ELSE Part(bits, k)
  BY DEF Part
<1>6. Part(bits, b) = 0 /\ Bit[b] \in Nat
  BY BitIs DEF Part
<1> HIDE DEF more
<1> DEFINE T == {k \in Nat : k <= n => t[k] = s[k] + (IF k > b THEN Bit[b] ELSE 0)}
<1>7. 0 \in T
  BY <1>3, <1>4
<1>8. ASSUME NEW k \in Nat, k \in T PROVE k + 1 \in T
  <2> SUFFICES ASSUME k + 1 <= n PROVE t[k + 1] = s[k + 1] + (IF k + 1 > b THEN Bit[b] ELSE 0)
    OBVIOUS
  <2>1. k \in 0 .. n - 1 /\ k \in 0 .. n /\ t[k] = s[k] + (IF k > b THEN Bit[b] ELSE 0)
    BY <1>8
  <2>2. t[k + 1] = t[k] + Part(more, k) /\ s[k + 1] = s[k] + Part(bits, k)
    BY <1>3, <1>4, <2>1
  <2>3. s[k] \in Nat /\ Part(bits, k) \in Nat
    <3>1. s[k] \in 0 .. Bit[k] - 1 /\ Bit[k] \in Nat
      BY <1>3, <2>1, BitIs
    <3>2. Part(bits, k) \in Nat
      BY PartType
    <3>3. QED  BY <3>1, <3>2
  <2>4. Part(more, k) = IF k = b THEN Bit[b] ELSE Part(bits, k)
    BY <1>5
  <2>5. QED  BY <1>6, <2>1, <2>2, <2>3, <2>4
<1> HIDE DEF T
<1>9. Nat \subseteq T
  BY <1>7, <1>8, NatInductionOnSet
<1>10. n \in T /\ n <= n /\ n > b
  BY <1>9
<1>11. QED  BY <1>1, <1>2, <1>10 DEF T, more

=============================================================================
