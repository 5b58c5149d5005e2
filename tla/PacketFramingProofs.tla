------------------------- MODULE PacketFramingProofs -------------------------
(***************************************************************************)
(* Proofs about PacketFraming: for every frame size, limit, modulus of the *)
(* sequence ids and number of packets, the reader returns the packets sent,*)
(* refuses only bad ones, keeps its limit, and takes no cut stream for a   *)
(* clean end.                                                              *)
(*                                                                         *)
(* What the reader has, what the stream holds and what can still come are, *)
(* put together, the encodings of the packets not yet received; and a      *)
(* reader that looks at a prefix of an encoding sees the frames of it.     *)
(***************************************************************************)
EXTENDS PacketFraming, SequenceInduction

-----------------------------------------------------------------------------
(* Packets and their encodings, the illegal ones with the ids they have.   *)

PacketRec ==
  [payload : Seq(Nat), first : 0 .. SeqModulus - 1, last : 0 .. SeqModulus - 1, legal : BOOLEAN]

Size(p) == Len(p.payload)

IdOf(p, k) == SeqOfFrame(p.first, IF p.legal \/ k = 0 THEN k ELSE k + 1)

FrameOf(p, number, k) == Frame(Size(p), number, k, IdOf(p, k))

Frames(p, number) == [k \in 1 .. FrameCount(Size(p)) |-> FrameOf(p, number, k - 1)]

Encoded(p, number) == FlattenSeq(Frames(p, number))

SentAs(p, number) ==
  /\ p.payload = [i \in 1 .. Size(p) |-> number]
  /\ p.last = SeqOfFrame(p.first, FrameCount(Size(p)) - 1)
  /\ ~p.legal => FrameCount(Size(p)) > 1

(* The frames of a payload are full but for the last, and add up to it.    *)
LEMMA FrameSizes ==
  ASSUME NEW size \in Nat
  PROVE  /\ FrameCount(size) \in Nat \ {0}
         /\ \A k \in 0 .. FrameCount(size) - 1 :
              /\ FrameSize(size, k) \in 0 .. U24_MAX
              /\ k * U24_MAX \in Nat /\ k * U24_MAX + FrameSize(size, k) <= size
              /\ k < FrameCount(size) - 1 => FrameSize(size, k) = U24_MAX
              /\ k = FrameCount(size) - 1 =>
                   FrameSize(size, k) < U24_MAX /\ k * U24_MAX + FrameSize(size, k) = size
<1> DEFINE q == size \div U24_MAX
           rest == size % U24_MAX
<1>1. U24_MAX \in Nat \ {0}
  BY FramingAssumption
<1>2. q \in Nat /\ rest \in 0 .. U24_MAX - 1 /\ size = q * U24_MAX + rest /\ q * U24_MAX \in Nat
  BY <1>1, Quotient, ProductType
<1>3. FrameCount(size) = q + 1
  BY DEF FrameCount
<1>4. \A k : FrameSize(size, k) = IF k < q THEN U24_MAX ELSE size - k * U24_MAX
  BY DEF FrameSize
<1> HIDE DEF q, rest
<1>5. ASSUME NEW k \in 0 .. q, k < q
      PROVE  /\ FrameSize(size, k) = U24_MAX
             /\ k * U24_MAX \in Nat /\ k * U24_MAX + U24_MAX <= size
  <2>1. k \in Nat /\ k + 1 \in Nat /\ k + 1 <= q
    BY <1>2, <1>5
  <2>2. (k + 1) * U24_MAX <= q * U24_MAX
    BY <1>1, <1>2, <2>1, ProductMonotonic
  <2>3. (k + 1) * U24_MAX = k * U24_MAX + U24_MAX /\ k * U24_MAX \in Nat
    BY <1>1, <2>1, ProductStep, ProductType
  <2> DEFINE a == k * U24_MAX
             b == q * U24_MAX
  <2> HIDE DEF a, b
  <2>4. a \in Nat /\ b \in Nat /\ a + U24_MAX <= b /\ size = b + rest /\ rest \in Nat
    BY <1>2, <2>2, <2>3 DEF a, b
  <2>5. a + U24_MAX <= size
    BY <1>1, <2>4
  <2>6. QED  BY <1>4, <1>5, <2>3, <2>5 DEF a
<1>6. /\ FrameSize(size, q) = rest
      /\ q * U24_MAX + FrameSize(size, q) = size
  <2> DEFINE b == q * U24_MAX
  <2>1. FrameSize(size, q) = size - b
    BY <1>2, <1>4
  <2> HIDE DEF b
  <2>2. b \in Nat /\ size = b + rest /\ rest \in Nat
    BY <1>2 DEF b
  <2>3. FrameSize(size, q) = rest /\ b + FrameSize(size, q) = size
    BY <2>1, <2>2
  <2>4. QED  BY <2>3 DEF b
<1>7. ASSUME NEW k \in 0 .. q
      PROVE  /\ FrameSize(size, k) \in 0 .. U24_MAX
             /\ k * U24_MAX \in Nat /\ k * U24_MAX + FrameSize(size, k) <= size
             /\ k < q => FrameSize(size, k) = U24_MAX
             /\ k = q => FrameSize(size, k) < U24_MAX /\ k * U24_MAX + FrameSize(size, k) = size
  <2>1. CASE k < q
    BY <1>1, <1>2, <1>5, <2>1
  <2>2. CASE k = q
    BY <1>1, <1>2, <1>6, <2>2
  <2>3. QED  BY <1>2, <2>1, <2>2
<1>8. FrameCount(size) - 1 = q /\ FrameCount(size) \in Nat \ {0}
  BY <1>2, <1>3
<1>9. QED  BY <1>7, <1>8

(* A header that says what is behind it.                                   *)
IsFrame(f, n, number, s) ==
  /\ f \in Seq(Nat) /\ Len(f) = 4 + n
  /\ n = f[1] + 256 * f[2] + 256 * 256 * f[3] /\ f[4] = s
  /\ \A j \in 1 .. n : f[4 + j] = number

LEMMA HeaderAndBody ==
  ASSUME NEW n \in Nat, n < 256 * 256 * 256, NEW number \in Nat, NEW s \in Nat
  PROVE  IsFrame(HeaderOf(n, s) \o [i \in 1 .. n |-> number], n, number, s)
<1> DEFINE f == HeaderOf(n, s) \o [i \in 1 .. n |-> number]
<1> DEFINE body == [i \in 1 .. n |-> number]
           a == n % 256
           b == (n \div 256) % 256
           c == n \div (256 * 256)
           head == <<a, b, c, s>>
<1>1. f = head \o body
  BY DEF HeaderOf
<1> HIDE DEF f
<1>2. a \in Nat /\ b \in Nat /\ c \in Nat /\ n = a + 256 * b + 256 * 256 * c
  <2>1. n = 256 * (n \div 256) + (n % 256) /\ n \div 256 \in Nat
    OBVIOUS
  <2>2. ASSUME NEW m \in Nat PROVE m = 256 * (m \div 256) + (m % 256)
    OBVIOUS
  <2>3. n \div (256 * 256) = (n \div 256) \div 256
    OBVIOUS
  <2>4. a \in Nat /\ b \in Nat /\ c \in Nat
    BY <2>1
  <2>5. n \div 256 = 256 * c + b
    BY <2>1, <2>2, <2>3
  <2> DEFINE m == n \div 256
  <2>6. n = 256 * m + a /\ m = 256 * c + b
    BY <2>1, <2>5
  <2> HIDE DEF a, b, c, m
  <2>7. n = a + 256 * b + 256 * 256 * c
    BY <2>4, <2>6
  <2>8. QED  BY <2>4, <2>7
<1> HIDE DEF a, b, c
<1>3. head \in Seq(Nat) /\ Len(head) = 4 /\ head[1] = a /\ head[2] = b /\ head[3] = c /\ head[4] = s
  BY <1>2
<1>4. body \in Seq(Nat) /\ Len(body) = n /\ \A j \in 1 .. n : body[j] = number
  OBVIOUS
<1> HIDE DEF head, body
<1>5. /\ f \in Seq(Nat) /\ Len(f) = 4 + n
      /\ \A i \in 1 .. 4 : f[i] = head[i]
      /\ \A i \in 1 .. n : f[4 + i] = body[i]
  <2>1. head \in Seq(Nat) /\ body \in Seq(Nat)
    BY <1>3, <1>4
  <2>2. /\ head \o body \in Seq(Nat) /\ Len(head \o body) = Len(head) + Len(body)
        /\ \A i \in 1 .. Len(head) : (head \o body)[i] = head[i]
        /\ \A i \in 1 .. Len(body) : (head \o body)[Len(head) + i] = body[i]
    BY <2>1, Concatenated
  <2>3. QED  BY <1>1, <1>3, <1>4, <2>2, Zenon
<1>6. f[1] = a /\ f[2] = b /\ f[3] = c /\ f[4] = s
  <2>1. 1 \in 1 .. 4 /\ 2 \in 1 .. 4 /\ 3 \in 1 .. 4 /\ 4 \in 1 .. 4
    OBVIOUS
  <2>2. QED  BY <1>3, <1>5, <2>1
<1>7. \A j \in 1 .. n : f[4 + j] = number
  BY <1>4, <1>5
<1>8. n = f[1] + 256 * f[2] + 256 * 256 * f[3]
  BY <1>2, <1>6
<1>9. IsFrame(f, n, number, s)
  BY <1>5, <1>6, <1>7, <1>8 DEF IsFrame
<1>10. QED  BY <1>9 DEF f

LEMMA FrameBytes ==
  ASSUME NEW size \in Nat, NEW number \in Nat, NEW k \in 0 .. FrameCount(size) - 1, NEW s \in Nat
  PROVE  IsFrame(Frame(size, number, k, s), FrameSize(size, k), number, s)
<1>1. FrameSize(size, k) \in 0 .. U24_MAX
  BY FrameSizes, Zenon
<1>2. \A m \in 0 .. U24_MAX : m \in Nat /\ m < 256 * 256 * 256
  BY FramingAssumption
<1>3. FrameSize(size, k) \in Nat /\ FrameSize(size, k) < 256 * 256 * 256
  BY <1>1, <1>2, Zenon
<1>4. QED  BY <1>3, HeaderAndBody, Zenon DEF Frame

(* Where frames start.                                                     *)
LEMMA Starts ==
  /\ Start(0) = 0
  /\ \A k \in Nat : Start(k) \in Nat /\ Start(k + 1) = Start(k) + U24_MAX + 4
  /\ \A k, m \in Nat : k <= m => Start(k) <= Start(m)
<1>1. U24_MAX \in Nat /\ U24_MAX + 4 \in Nat
  BY FramingAssumption
<1>2. \A k \in Nat : k * (U24_MAX + 4) \in Nat
  BY <1>1, ProductType
<1>3. \A k \in Nat : (k + 1) * (U24_MAX + 4) = k * (U24_MAX + 4) + (U24_MAX + 4)
  BY <1>1, ProductStep
<1>4. \A k, m \in Nat : k <= m => k * (U24_MAX + 4) <= m * (U24_MAX + 4)
  BY <1>1, ProductMonotonic
<1>5. Start(0) = 0
  BY <1>1 DEF Start
<1>6. \A k \in Nat : Start(k) = k * (U24_MAX + 4) /\ Start(k + 1) = (k + 1) * (U24_MAX + 4)
  BY DEF Start
<1>7. ASSUME NEW k \in Nat PROVE Start(k) \in Nat /\ Start(k + 1) = Start(k) + U24_MAX + 4
  <2>1. Start(k + 1) = Start(k) + (U24_MAX + 4) /\ Start(k) \in Nat
    BY <1>2, <1>3, <1>6
  <2>2. QED  BY <1>1, <2>1
<1>8. \A k, m \in Nat : k <= m => Start(k) <= Start(m)
  BY <1>4 DEF Start
<1>9. QED  BY <1>5, <1>7, <1>8

LEMMA Ids ==
  ASSUME NEW p \in PacketRec, NEW k \in Nat
  PROVE  IdOf(p, k) \in 0 .. SeqModulus - 1
<1>1. SeqModulus \in Nat \ {0}
  BY FramingAssumption
<1>2. p.first \in Nat /\ p.legal \in BOOLEAN
  BY <1>1 DEF PacketRec
<1>3. \A j \in Nat : (p.first + j) % SeqModulus \in 0 .. SeqModulus - 1
  BY <1>1, <1>2
<1>4. QED  BY <1>2, <1>3 DEF IdOf, SeqOfFrame

(* An encoding, and where its frames are.                                  *)
LEMMA EncodedShape ==
  ASSUME NEW p \in PacketRec, NEW number \in Nat
  PROVE  LET N == FrameCount(Size(p)) IN
         /\ Size(p) \in Nat /\ N \in Nat \ {0}
         /\ Encoded(p, number) \in Seq(Nat)
         /\ Len(Encoded(p, number)) = Start(N - 1) + 4 + FrameSize(Size(p), N - 1)
         /\ \A k \in 0 .. N - 1 :
              \A j \in 1 .. 4 + FrameSize(Size(p), k) :
                Encoded(p, number)[Start(k) + j] = FrameOf(p, number, k)[j]
         /\ \A k \in 0 .. N - 1 :
              /\ IsFrame(FrameOf(p, number, k), FrameSize(Size(p), k), number, IdOf(p, k))
              /\ FrameSize(Size(p), k) \in Nat
              /\ Start(k) + 4 + FrameSize(Size(p), k) <= Len(Encoded(p, number))
<1> DEFINE N == FrameCount(Size(p))
           ss == Frames(p, number)
           L == U24_MAX + 4
<1>1. Size(p) \in Nat
  BY DEF PacketRec, Size
<1>2. N \in Nat \ {0} /\ N = FrameCount(Size(p))
  BY <1>1, FrameSizes
<1> HIDE DEF N
<1>3. L \in Nat /\ U24_MAX \in Nat
  BY FramingAssumption
<1>4. ASSUME NEW k \in 0 .. N - 1
      PROVE  /\ IsFrame(FrameOf(p, number, k), FrameSize(Size(p), k), number, IdOf(p, k))
             /\ FrameOf(p, number, k) \in Seq(Nat)
             /\ FrameSize(Size(p), k) \in Nat
             /\ Len(FrameOf(p, number, k)) = 4 + FrameSize(Size(p), k)
             /\ k < N - 1 => Len(FrameOf(p, number, k)) = L
  <2>1. k \in Nat
    BY <1>2
  <2>2. IdOf(p, k) \in Nat
    <3>1. IdOf(p, k) \in 0 .. SeqModulus - 1
      BY <2>1, Ids, Zenon
    <3>2. 0 .. SeqModulus - 1 \subseteq Nat
      BY FramingAssumption
    <3>3. QED  BY <3>1, <3>2, Zenon
  <2>3. FrameSize(Size(p), k) \in 0 .. U24_MAX /\ (k < N - 1 => FrameSize(Size(p), k) = U24_MAX)
    BY <1>1, FrameSizes, Zenon DEF N
  <2>4. IsFrame(FrameOf(p, number, k), FrameSize(Size(p), k), number, IdOf(p, k))
    BY <1>1, <2>2, FrameBytes, Zenon DEF FrameOf, N
  <2>5. /\ FrameOf(p, number, k) \in Seq(Nat)
        /\ Len(FrameOf(p, number, k)) = 4 + FrameSize(Size(p), k)
    BY <2>4, Zenon DEF IsFrame
  <2>6. U24_MAX = FrameSize(Size(p), k) => 4 + FrameSize(Size(p), k) = L
    BY <1>3
  <2>7. FrameSize(Size(p), k) \in Nat
    BY <1>3, <2>3
  <2>8. QED  BY <2>3, <2>4, <2>5, <2>6, <2>7, Zenon
<1>5. ss \in Seq(Seq(Nat)) /\ Len(ss) = N /\ ss # <<>>
  <2>1. \A k \in 1 .. N : k - 1 \in 0 .. N - 1
    BY <1>2
  <2>2. ss = [k \in 1 .. N |-> FrameOf(p, number, k - 1)]
    BY DEF Frames, N
  <2>3. \A k \in 1 .. N : FrameOf(p, number, k - 1) \in Seq(Nat)
    BY <1>4, <2>1
  <2> HIDE DEF ss
  <2>4. ss \in Seq(Seq(Nat)) /\ Len(ss) = N
    BY <1>2, <2>2, <2>3
  <2>5. QED  BY <1>2, <2>4
<1>6. \A k \in 0 .. N - 1 : ss[k + 1] = FrameOf(p, number, k)
  <2>1. ss = [k \in 1 .. N |-> FrameOf(p, number, k - 1)]
    BY DEF Frames, N
  <2>2. \A k \in 0 .. N - 1 : k + 1 \in 1 .. N /\ (k + 1) - 1 = k
    BY <1>2
  <2> HIDE DEF ss
  <2>3. QED  BY <2>1, <2>2
<1> HIDE DEF ss
<1>7. \A i \in 1 .. Len(ss) - 1 : Len(ss[i]) = L
  <2> SUFFICES ASSUME NEW i \in 1 .. N - 1 PROVE Len(ss[i]) = L
    BY <1>5
  <2>1. i - 1 \in 0 .. N - 1 /\ i - 1 < N - 1 /\ (i - 1) + 1 = i
    BY <1>2
  <2>2. QED  BY <1>4, <1>6, <2>1
<1>8. /\ Len(FlattenSeq(ss)) = (N - 1) * L + Len(ss[N])
      /\ \A k \in 0 .. N - 1 : \A j \in 1 .. Len(ss[k + 1]) :
           FlattenSeq(ss)[k * L + j] = ss[k + 1][j]
  <2>1. /\ Len(FlattenSeq(ss)) = (Len(ss) - 1) * L + Len(ss[Len(ss)])
        /\ \A k \in 0 .. Len(ss) - 1 : \A j \in 1 .. Len(ss[k + 1]) :
             FlattenSeq(ss)[k * L + j] = ss[k + 1][j]
    <3> HIDE DEF L
    <3>1. QED  BY <1>3, <1>5, <1>7, FlattenSeqUniform, Zenon
  <2>2. QED  BY <1>5, <2>1, Zenon
<1>9. FlattenSeq(ss) \in Seq(Nat)
  BY <1>5, FlattenSeqType
<1>10. Len(FlattenSeq(ss)) = Start(N - 1) + 4 + FrameSize(Size(p), N - 1)
  <2>1. N - 1 \in 0 .. N - 1 /\ (N - 1) + 1 = N /\ N - 1 \in Nat
    BY <1>2
  <2>2. Len(ss[N]) = 4 + FrameSize(Size(p), N - 1) /\ FrameSize(Size(p), N - 1) \in Nat
    BY <1>4, <1>6, <2>1
  <2>3. Start(N - 1) = (N - 1) * L /\ Start(N - 1) \in Nat
    BY <2>1, Starts DEF Start
  <2>4. QED  BY <1>8, <2>2, <2>3
<1>11. ASSUME NEW k \in 0 .. N - 1, NEW j \in 1 .. 4 + FrameSize(Size(p), k)
       PROVE  FlattenSeq(ss)[Start(k) + j] = FrameOf(p, number, k)[j]
  <2>1. ss[k + 1] = FrameOf(p, number, k) /\ Len(ss[k + 1]) = 4 + FrameSize(Size(p), k)
    BY <1>4, <1>6
  <2>2. FlattenSeq(ss)[k * L + j] = ss[k + 1][j]
    BY <1>8, <2>1
  <2>3. k * L = Start(k)
    BY DEF Start
  <2>4. QED  BY <2>1, <2>2, <2>3
<1>12. Encoded(p, number) = FlattenSeq(ss)
  BY DEF Encoded, ss
<1>13. ASSUME NEW k \in 0 .. N - 1
       PROVE  Start(k) + 4 + FrameSize(Size(p), k) <= Start(N - 1) + 4 + FrameSize(Size(p), N - 1)
  <2>1. k \in Nat /\ N - 1 \in 0 .. N - 1 /\ N - 1 \in Nat
    BY <1>2
  <2>2. FrameSize(Size(p), N - 1) \in Nat /\ FrameSize(Size(p), k) \in Nat /\ Start(k) \in Nat /\ Start(N - 1) \in Nat
    BY <1>4, <2>1, Starts
  <2>3. CASE k = N - 1
    BY <2>2, <2>3
  <2>4. CASE k # N - 1
    <3>1. k + 1 \in Nat /\ k + 1 <= N - 1 /\ k < N - 1
      BY <1>2, <2>4
    <3>2. FrameSize(Size(p), k) = U24_MAX
      BY <1>1, <3>1, FrameSizes, Zenon DEF N
    <3>3. Start(k + 1) <= Start(N - 1) /\ Start(k + 1) = Start(k) + U24_MAX + 4
      BY <2>1, <3>1, Starts
    <3>4. QED  BY <1>3, <2>2, <3>2, <3>3
  <2>5. QED  BY <2>3, <2>4
<1>14. ASSUME NEW k \in 0 .. N - 1
       PROVE  Start(k) + 4 + FrameSize(Size(p), k) <= Len(FlattenSeq(ss))
  BY <1>10, <1>13, Zenon
<1>15. QED  BY <1>1, <1>2, <1>4, <1>9, <1>10, <1>11, <1>12, <1>14, Zenon DEF N


-----------------------------------------------------------------------------
(* The reader, when what it has read agrees with an encoding.              *)
LEMMA SeesFrame ==
  ASSUME bytes \in Seq(Nat), NEW p \in PacketRec, NEW number \in Nat,
         Agree(bytes, Encoded(p, number)), NEW k \in 0 .. FrameCount(Size(p)) - 1
  PROVE  /\ LengthKnown(k) => LengthOf(k) = FrameSize(Size(p), k)
         /\ HeaderKnown(k) => SeqAt(k) = IdOf(p, k)
         /\ \A j \in 1 .. FrameSize(Size(p), k) :
              Start(k) + 4 + j <= Len(bytes) => bytes[Start(k) + 4 + j] = number
<1> DEFINE N == FrameCount(Size(p))
           n == FrameSize(Size(p), k)
           f == FrameOf(p, number, k)
           e == Encoded(p, number)
           st == Start(k)
<1>1. /\ N \in Nat \ {0} /\ n \in Nat /\ st + 4 + n <= Len(e) /\ e \in Seq(Nat)
      /\ IsFrame(f, n, number, IdOf(p, k))
      /\ \A j \in 1 .. 4 + n : e[st + j] = f[j]
  BY EncodedShape, Zenon
<1>2. st \in Nat
  <2>1. k \in Nat
    BY <1>1
  <2>2. QED  BY <2>1, Starts, Zenon
<1>3. Len(bytes) \in Nat /\ Len(e) \in Nat
  BY <1>1
<1>4. \A i \in Nat \ {0} : i <= Len(bytes) /\ i <= Len(e) => bytes[i] = e[i]
  BY DEF Agree
<1>5. /\ LengthKnown(k) <=> Len(bytes) >= st + 3
      /\ HeaderKnown(k) <=> Len(bytes) >= st + 4
      /\ LengthOf(k) = bytes[st + 1] + 256 * bytes[st + 2] + 256 * 256 * bytes[st + 3]
      /\ SeqAt(k) = bytes[st + 4]
  BY Zenon DEF LengthKnown, HeaderKnown, LengthOf, SeqAt
<1>6. f[1] \in Nat /\ f[2] \in Nat /\ f[3] \in Nat
  <2>1. f \in Seq(Nat) /\ Len(f) = 4 + n
    BY <1>1, Zenon DEF IsFrame
  <2> HIDE DEF f, n
  <2>2. QED  BY SMTT(60), <1>1, <2>1
<1>7. /\ n = f[1] + 256 * f[2] + 256 * 256 * f[3]
      /\ f[4] = IdOf(p, k)
      /\ \A j \in 1 .. n : f[4 + j] = number
  BY <1>1, Zenon DEF IsFrame
<1> HIDE DEF N, n, f, e, st
<1>8. \A j \in 1 .. 4 + n : st + j <= Len(bytes) => bytes[st + j] = f[j]
  <2> SUFFICES ASSUME NEW j \in 1 .. 4 + n, st + j <= Len(bytes) PROVE bytes[st + j] = f[j]
    OBVIOUS
  <2>1. st + j \in Nat \ {0} /\ st + j <= Len(e)
    BY <1>1, <1>2, <1>3
  <2>2. QED  BY <1>1, <1>4, <2>1
<1>9. ASSUME Len(bytes) >= st + 3 PROVE LengthOf(k) = n
  <2>1. 1 \in 1 .. 4 + n /\ 2 \in 1 .. 4 + n /\ 3 \in 1 .. 4 + n
    BY <1>1
  <2>2. st + 1 <= Len(bytes) /\ st + 2 <= Len(bytes) /\ st + 3 <= Len(bytes)
    BY <1>2, <1>3, <1>9
  <2>3. bytes[st + 1] = f[1] /\ bytes[st + 2] = f[2] /\ bytes[st + 3] = f[3]
    BY <1>8, <2>1, <2>2
  <2>4. LengthOf(k) = f[1] + 256 * f[2] + 256 * 256 * f[3]
    BY <1>5, <2>3, ZenonT(90)
  <2>5. QED  BY <1>6, <1>7, <2>4
<1>10. ASSUME Len(bytes) >= st + 4 PROVE SeqAt(k) = IdOf(p, k)
  <2>1. 4 \in 1 .. 4 + n /\ st + 4 <= Len(bytes)
    BY <1>1, <1>2, <1>3, <1>10
  <2>2. bytes[st + 4] = f[4]
    BY <1>8, <2>1
  <2>3. QED  BY <1>5, <1>7, <2>2, Zenon
<1>11. ASSUME NEW j \in 1 .. n, st + 4 + j <= Len(bytes) PROVE bytes[st + 4 + j] = number
  <2>1. 4 + j \in 1 .. 4 + n /\ st + (4 + j) <= Len(bytes) /\ st + (4 + j) = st + 4 + j
    BY <1>1, <1>2, <1>3, <1>11
  <2>2. bytes[st + (4 + j)] = f[4 + j]
    BY <1>8, <2>1
  <2>3. QED  BY <1>7, <2>1, <2>2
<1>12. QED  BY <1>5, <1>9, <1>10, <1>11, Zenon DEF n, st


(* What is known of a frame comes in order.                                *)
LEMMA Known ==
  ASSUME bytes \in Seq(Nat), NEW k \in Nat
  PROVE  /\ HeaderKnown(k) => LengthKnown(k)
         /\ Arrived(k) => HeaderKnown(k)
<1>1. Start(k) \in Nat
  BY Starts, Zenon
<1>2. Len(bytes) \in Nat
  OBVIOUS
<1>3. QED  BY <1>1, <1>2 DEF HeaderKnown, LengthKnown, Arrived

(* It looks at no frame that is not there.                                 *)
LEMMA ProbedFrames ==
  ASSUME bytes \in Seq(Nat), NEW p \in PacketRec, NEW number \in Nat,
         Agree(bytes, Encoded(p, number)), NEW k \in Probed
  PROVE  k \in 0 .. FrameCount(Size(p)) - 1
<1> DEFINE N == FrameCount(Size(p))
<1>1. N \in Nat \ {0} /\ Size(p) \in Nat
  BY EncodedShape
<1>2. k \in Nat /\ Reached(k)
  BY DEF Probed
<1> SUFFICES ASSUME ~(k <= N - 1) PROVE FALSE
  BY <1>1, <1>2
<1> DEFINE j == N - 1
<1>3. j \in 0 .. k - 1 /\ j \in Nat /\ j \in 0 .. N - 1
  BY <1>1, <1>2
<1> HIDE DEF j
<1>4. Arrived(j) /\ LengthOf(j) = U24_MAX
  BY <1>2, <1>3, Zenon DEF Reached
<1>5. LengthKnown(j)
  BY <1>3, <1>4, Known, Zenon
<1>6. LengthOf(j) = FrameSize(Size(p), j)
  BY <1>3, <1>5, SeesFrame, Zenon
<1>7. FrameSize(Size(p), j) < U24_MAX
  BY <1>1, <1>3, FrameSizes, Zenon DEF j
<1>8. U24_MAX \in Nat
  BY FramingAssumption
<1>9. ~(U24_MAX < U24_MAX)
  BY <1>8
<1>10. QED  BY <1>4, <1>6, <1>7, <1>9, Zenon

(* A length that is known adds up to no more than the payload.             *)
LEMMA KnownLengths ==
  ASSUME bytes \in Seq(Nat), NEW p \in PacketRec, NEW number \in Nat,
         Agree(bytes, Encoded(p, number)), NEW k \in Probed, LengthKnown(k)
  PROVE  k * U24_MAX + LengthOf(k) <= Size(p)
<1>1. k \in 0 .. FrameCount(Size(p)) - 1 /\ Size(p) \in Nat
  BY ProbedFrames, EncodedShape, Zenon
<1>2. LengthOf(k) = FrameSize(Size(p), k)
  BY <1>1, SeesFrame, Zenon
<1>3. k * U24_MAX + FrameSize(Size(p), k) <= Size(p)
  BY <1>1, FrameSizes, Zenon
<1>4. QED  BY <1>2, <1>3, Zenon

(* The sequence ids follow in a legal packet, from one frame to the next;  *)
(* in an illegal one they do not behind its first frame.                   *)
LEMMA FollowingIds ==
  ASSUME NEW p \in PacketRec, NEW k \in Nat \ {0}
  PROVE  /\ p.legal => IdOf(p, k) = NextSeq(IdOf(p, k - 1))
         /\ ~p.legal => IdOf(p, 1) # NextSeq(IdOf(p, 0))
<1>1. SeqModulus \in Nat \ {0} /\ SeqModulus # 1 /\ p.first \in Nat /\ p.legal \in BOOLEAN
  BY FramingAssumption DEF PacketRec
<1>2. CASE p.legal
  <2>1. IdOf(p, k) = (p.first + k) % SeqModulus /\ IdOf(p, k - 1) = (p.first + (k - 1)) % SeqModulus
    BY <1>2 DEF IdOf, SeqOfFrame
  <2>2. p.first + (k - 1) \in Nat /\ (p.first + (k - 1)) + 1 = p.first + k
    BY <1>1
  <2>3. ((p.first + (k - 1)) + 1) % SeqModulus = (((p.first + (k - 1)) % SeqModulus) + 1) % SeqModulus
    BY <1>1, <2>2, NextRemainder
  <2>4. QED  BY <1>2, <2>1, <2>2, <2>3 DEF NextSeq
<1>3. CASE ~p.legal
  <2>1. IdOf(p, 1) = (p.first + 2) % SeqModulus /\ IdOf(p, 0) = p.first % SeqModulus
    BY <1>1, <1>3 DEF IdOf, SeqOfFrame
  <2>2. p.first + 1 \in Nat /\ (p.first + 1) + 1 = p.first + 2
    BY <1>1
  <2>3. (p.first + 1) % SeqModulus = ((p.first % SeqModulus) + 1) % SeqModulus
    BY <1>1, NextRemainder
  <2>4. ((p.first + 1) + 1) % SeqModulus # (p.first + 1) % SeqModulus
    BY <1>1, <2>2, NextRemainder
  <2>5. QED  BY <1>3, <2>1, <2>2, <2>3, <2>4 DEF NextSeq
<1>4. QED  BY <1>2, <1>3

(* So the reader complains of no legal packet.                             *)
LEMMA MismatchIsIllegal ==
  ASSUME bytes \in Seq(Nat), NEW p \in PacketRec, NEW number \in Nat,
         Agree(bytes, Encoded(p, number)), Mismatch
  PROVE  ~p.legal
<1>1. PICK k \in Probed \ {0} : HeaderKnown(k) /\ SeqAt(k) # NextSeq(SeqAt(k - 1))
  BY DEF Mismatch
<1>2. k \in 0 .. FrameCount(Size(p)) - 1 /\ k # 0 /\ Reached(k)
  BY <1>1, ProbedFrames DEF Probed
<1>3. FrameCount(Size(p)) \in Nat
  BY EncodedShape, Zenon
<1>4. k \in Nat \ {0} /\ k - 1 \in Nat /\ k - 1 \in 0 .. k - 1 /\ k - 1 \in 0 .. FrameCount(Size(p)) - 1
  BY <1>2, <1>3
<1>5. HeaderKnown(k - 1)
  <2>1. Arrived(k - 1)
    BY <1>2, <1>4, Zenon DEF Reached
  <2>2. QED  BY <1>4, <2>1, Known, Zenon
<1>6. SeqAt(k) = IdOf(p, k) /\ SeqAt(k - 1) = IdOf(p, k - 1)
  BY <1>1, <1>2, <1>4, <1>5, SeesFrame, Zenon
<1>7. p.legal => IdOf(p, k) = NextSeq(IdOf(p, k - 1))
  BY <1>4, FollowingIds, Zenon
<1>8. QED  BY <1>1, <1>6, <1>7, Zenon


(* Behind the last frame the reader has the packet, whole.                 *)
LEMMA LastFrameIsLast ==
  ASSUME bytes \in Seq(Nat), NEW p \in PacketRec, NEW number \in Nat,
         Agree(bytes, Encoded(p, number)), NEW k, LastFrame(k)
  PROVE  /\ k = FrameCount(Size(p)) - 1 /\ k \in Probed /\ k \in Nat
         /\ \A j \in 0 .. k : /\ Arrived(j) /\ HeaderKnown(j)
                              /\ LengthOf(j) = FrameSize(Size(p), j)
                              /\ LengthOf(j) \in Nat /\ (j < k => LengthOf(j) = U24_MAX)
         /\ k * U24_MAX + LengthOf(k) = Size(p)
<1> DEFINE N == FrameCount(Size(p))
<1>1. k \in Probed /\ Arrived(k) /\ LengthOf(k) < U24_MAX
  BY DEF LastFrame
<1>2. N \in Nat \ {0} /\ Size(p) \in Nat /\ U24_MAX \in Nat
  BY EncodedShape, FramingAssumption
<1>3. k \in 0 .. N - 1 /\ k \in Nat
  <2>1. k \in 0 .. N - 1
    BY <1>1, ProbedFrames, Zenon
  <2>2. QED  BY <1>2, <2>1
<1>4. Reached(k)
  BY <1>1 DEF Probed
<1>5. ASSUME NEW j \in 0 .. k PROVE Arrived(j) /\ HeaderKnown(j) /\ LengthKnown(j)
  <2>1. j = k \/ j \in 0 .. k - 1
    BY <1>3
  <2>2. Arrived(j)
    BY <1>1, <1>4, <2>1, Zenon DEF Reached
  <2>3. j \in Nat
    BY <1>3
  <2>4. QED  BY <2>2, <2>3, Known, Zenon
<1>6. ASSUME NEW j \in 0 .. k
      PROVE  /\ LengthOf(j) = FrameSize(Size(p), j) /\ LengthOf(j) \in Nat
             /\ j < N - 1 => LengthOf(j) = U24_MAX
             /\ j = N - 1 => j * U24_MAX + LengthOf(j) = Size(p)
  <2>1. j \in 0 .. N - 1
    BY <1>2, <1>3
  <2>2. LengthOf(j) = FrameSize(Size(p), j)
    BY <1>5, <2>1, SeesFrame, Zenon
  <2>3. /\ FrameSize(Size(p), j) \in 0 .. U24_MAX
        /\ j < N - 1 => FrameSize(Size(p), j) = U24_MAX
        /\ j = N - 1 => j * U24_MAX + FrameSize(Size(p), j) = Size(p)
    BY <1>2, <2>1, FrameSizes, Zenon
  <2>4. 0 .. U24_MAX \subseteq Nat
    BY <1>2
  <2>5. QED  BY <2>2, <2>3, <2>4, Zenon
<1>7. k \in 0 .. k
  BY <1>3
<1>8. k = N - 1
  <2> SUFFICES ASSUME k # N - 1 PROVE FALSE
    OBVIOUS
  <2>1. k < N - 1
    BY <1>2, <1>3
  <2>2. LengthOf(k) = U24_MAX
    BY <1>6, <1>7, <2>1, Zenon
  <2>3. ~(U24_MAX < U24_MAX)
    BY <1>2
  <2>4. QED  BY <1>1, <2>2, <2>3, Zenon
<1>9. \A j \in 0 .. k : j < k => j < N - 1
  BY <1>2, <1>8
<1>10. k * U24_MAX + LengthOf(k) = Size(p)
  BY <1>6, <1>7, <1>8, Zenon
<1>11. QED  BY <1>1, <1>3, <1>5, <1>6, <1>8, <1>9, <1>10, Zenon

LEMMA AssembledPayload ==
  ASSUME bytes \in Seq(Nat), NEW p \in PacketRec, NEW number \in Nat,
         Agree(bytes, Encoded(p, number)), NEW k, LastFrame(k)
  PROVE  Assembled(k) = [i \in 1 .. Size(p) |-> number]
<1> DEFINE Body(j) == SubSeq(bytes, Start(j) + 5, Start(j) + 4 + LengthOf(j))
           ss == [j \in 1 .. k + 1 |-> Body(j - 1)]
<1>1. /\ k = FrameCount(Size(p)) - 1 /\ k \in Nat
      /\ \A j \in 0 .. k : /\ Arrived(j) /\ HeaderKnown(j)
                           /\ LengthOf(j) = FrameSize(Size(p), j)
                           /\ LengthOf(j) \in Nat /\ (j < k => LengthOf(j) = U24_MAX)
      /\ k * U24_MAX + LengthOf(k) = Size(p)
  BY LastFrameIsLast
<1>2. ASSUME NEW j \in 0 .. k
      PROVE  Body(j) \in Seq({number}) /\ Len(Body(j)) = LengthOf(j)
  <2> DEFINE n == LengthOf(j)
             st == Start(j)
  <2>1. n \in Nat /\ n = FrameSize(Size(p), j)
    BY <1>1, Zenon
  <2>2. j \in Nat /\ j \in 0 .. FrameCount(Size(p)) - 1
    BY <1>1
  <2>3. st \in Nat
    BY <2>2, Starts, Zenon
  <2>4. Len(bytes) >= st + 4 + n
    BY <1>1, Zenon DEF Arrived
  <2>5. \A i \in 1 .. n : st + 4 + i <= Len(bytes) => bytes[st + 4 + i] = number
    <3>1. \A i \in 1 .. FrameSize(Size(p), j) :
            Start(j) + 4 + i <= Len(bytes) => bytes[Start(j) + 4 + i] = number
      BY <2>2, SeesFrame, Zenon
    <3>2. QED  BY <2>1, <3>1, Zenon DEF st
  <2>6. Body(j) = SubSeq(bytes, st + 5, st + 4 + n)
    OBVIOUS
  <2> HIDE DEF n, st, Body
  <2>7. Len(bytes) \in Nat
    OBVIOUS
  <2>8. ASSUME NEW m \in st + 5 .. st + 4 + n PROVE bytes[m] \in {number}
    <3>1. m - (st + 4) \in 1 .. n /\ st + 4 + (m - (st + 4)) = m /\ m <= Len(bytes)
      BY SMTT(60), <2>1, <2>3, <2>4, <2>7
    <3>2. bytes[st + 4 + (m - (st + 4))] = number
      BY <2>5, <3>1
    <3>3. QED  BY <3>1, <3>2
  <2>9. st + 5 \in Int /\ st + 4 + n \in Int
    BY <2>1, <2>3
  <2>10. /\ SubSeq(bytes, st + 5, st + 4 + n) \in Seq({number})
         /\ Len(SubSeq(bytes, st + 5, st + 4 + n)) =
              IF st + 5 <= st + 4 + n THEN (st + 4 + n) - (st + 5) + 1 ELSE 0
    BY <2>8, <2>9, SubSeqProperties
  <2>11. (IF st + 5 <= st + 4 + n THEN (st + 4 + n) - (st + 5) + 1 ELSE 0) = n
    BY <2>1, <2>3
  <2>12. QED  BY <2>6, <2>10, <2>11, Zenon DEF n
<1>3. Assembled(k) = FlattenSeq(ss)
  BY DEF Assembled
<1>4. \A j \in 0 .. k : j + 1 \in 1 .. k + 1 /\ (j + 1) - 1 = j
  BY <1>1
<1>5. \A j \in 1 .. k + 1 : j - 1 \in 0 .. k
  BY <1>1
<1> HIDE DEF Body
<1>6. ss \in Seq(Seq({number})) /\ Len(ss) = k + 1 /\ ss # <<>>
  <2>1. \A j \in 1 .. k + 1 : Body(j - 1) \in Seq({number})
    BY <1>2, <1>5
  <2>2. ss = [j \in 1 .. k + 1 |-> ss[j]] /\ \A j \in 1 .. k + 1 : ss[j] \in Seq({number})
    BY <2>1, Zenon
  <2>3. k + 1 \in Nat
    BY <1>1
  <2> HIDE DEF ss
  <2>4. ss \in Seq(Seq({number})) /\ Len(ss) = k + 1
    BY <2>2, <2>3, FunctionIsSequence
  <2>5. QED  BY <1>1, <2>4
<1>7. \A j \in 0 .. k : ss[j + 1] = Body(j)
  BY <1>4
<1> HIDE DEF ss
<1>8. \A i \in 1 .. Len(ss) - 1 : Len(ss[i]) = U24_MAX
  <2> SUFFICES ASSUME NEW i \in 1 .. k PROVE Len(ss[i]) = U24_MAX
    <3>1. Len(ss) - 1 = k
      BY <1>1, <1>6
    <3>2. QED  BY <3>1
  <2>1. i - 1 \in 0 .. k /\ i - 1 < k /\ (i - 1) + 1 = i
    BY <1>1
  <2>2. ss[i] = Body(i - 1)
    BY <1>7, <2>1
  <2>3. Len(Body(i - 1)) = LengthOf(i - 1) /\ LengthOf(i - 1) = U24_MAX
    BY <1>1, <1>2, <2>1, Zenon
  <2>4. QED  BY <2>2, <2>3
<1>9. Len(FlattenSeq(ss)) = (Len(ss) - 1) * U24_MAX + Len(ss[Len(ss)])
  BY <1>6, <1>8, FlattenSeqUniform, FramingAssumption
<1>10. Len(FlattenSeq(ss)) = Size(p)
  <2>1. k \in 0 .. k /\ Len(ss) - 1 = k
    BY <1>1, <1>6
  <2>2. Len(ss[k + 1]) = LengthOf(k)
    BY <1>2, <1>7, <2>1, Zenon
  <2>3. QED  BY <1>1, <1>6, <1>9, <2>1, <2>2, Zenon
<1>11. FlattenSeq(ss) \in Seq({number})
  BY <1>6, FlattenSeqType
<1>12. ASSUME NEW s \in Seq({number}) PROVE s = [i \in 1 .. Len(s) |-> number]
  OBVIOUS
<1>13. FlattenSeq(ss) = [i \in 1 .. Size(p) |-> number]
  BY <1>10, <1>11, <1>12, Zenon
<1>14. QED  BY <1>3, <1>13


(* The reader takes a packet as it was sent, and leaves what is behind it. *)
LEMMA WholePacket ==
  ASSUME bytes \in Seq(Nat), NEW p \in PacketRec, NEW number \in Nat, SentAs(p, number),
         Agree(bytes, Encoded(p, number)), NEW k, LastFrame(k), ~Mismatch
  PROVE  /\ p = [payload |-> Assembled(k), first |-> SeqAt(0), last |-> SeqAt(k), legal |-> TRUE]
         /\ Len(Encoded(p, number)) <= Len(bytes)
         /\ RestAfter(k) = SubSeq(bytes, Len(Encoded(p, number)) + 1, Len(bytes))
<1> DEFINE N == FrameCount(Size(p))
<1>1. /\ k = N - 1 /\ k \in Probed /\ k \in Nat
      /\ \A j \in 0 .. k : /\ Arrived(j) /\ HeaderKnown(j)
                           /\ LengthOf(j) = FrameSize(Size(p), j)
                           /\ LengthOf(j) \in Nat /\ (j < k => LengthOf(j) = U24_MAX)
      /\ k * U24_MAX + LengthOf(k) = Size(p)
  BY LastFrameIsLast
<1>2. 0 \in 0 .. k /\ k \in 0 .. k /\ 0 \in Nat /\ (k > 0 => 1 \in 0 .. k)
  BY <1>1
<1>3. N \in Nat \ {0}
  BY EncodedShape, Zenon
<1>4. \A j \in 0 .. k : SeqAt(j) = IdOf(p, j)
  <2>1. \A j \in 0 .. k : j \in 0 .. N - 1
    BY <1>1, <1>3
  <2>2. QED  BY <1>1, <2>1, SeesFrame, Zenon
<1>5. p.legal
  <2> SUFFICES ASSUME ~p.legal PROVE FALSE
    OBVIOUS
  <2>1. N > 1
    BY Zenon DEF SentAs
  <2>2. k > 0 /\ k \in Nat \ {0} /\ 1 \in 0 .. k
    BY <1>1, <1>2, <1>3, <2>1
  <2>3. IdOf(p, 1) # NextSeq(IdOf(p, 0))
    BY <2>2, FollowingIds, Zenon
  <2>4. SeqAt(1) # NextSeq(SeqAt(0))
    BY <1>2, <1>4, <2>2, <2>3, Zenon DEF Spells
  <2>5. HeaderKnown(1)
    BY <1>1, <2>2, Zenon
  <2>6. 1 \in Probed
    <3> DEFINE d == Len(bytes) \div (U24_MAX + 4)
    <3>1. k \in 0 .. d /\ Reached(k)
      BY <1>1 DEF Probed
    <3>2. \A j \in 0 .. 1 - 1 : j \in 0 .. k - 1
      BY <2>2
    <3>3. Reached(1)
      BY <3>1, <3>2, Zenon DEF Reached
    <3> HIDE DEF d
    <3>4. 1 \in 0 .. d
      <4>1. d \in Int
        <5>1. Len(bytes) \in Nat /\ U24_MAX + 4 \in Nat \ {0}
          BY FramingAssumption
        <5>2. \A a \in Nat : \A b \in Nat \ {0} : a \div b \in Int
          OBVIOUS
        <5>3. QED  BY <5>1, <5>2, Zenon DEF d
      <4>2. QED  BY <2>2, <3>1, <4>1
    <3>5. QED  BY <3>3, <3>4, Zenon DEF Probed, d
  <2>7. 1 \in Probed \ {0} /\ 1 - 1 = 0
    BY <2>6
  <2>8. Mismatch
    BY <2>4, <2>5, <2>7, Zenon DEF Mismatch
  <2>9. QED  BY <2>8
<1>6. /\ p.first \in 0 .. SeqModulus - 1 /\ p.last = SeqOfFrame(p.first, k)
      /\ p.payload = [i \in 1 .. Size(p) |-> number]
  BY <1>1, Zenon DEF SentAs, PacketRec
<1>7. IdOf(p, 0) = p.first
  <2>1. SeqModulus \in Nat \ {0} /\ p.first \in Nat
    BY <1>6, FramingAssumption
  <2>2. p.first = 0 * SeqModulus + p.first
    BY <2>1
  <2>3. p.first % SeqModulus = p.first
    BY <1>2, <1>6, <2>1, <2>2, QuotientUnique
  <2>4. p.first + 0 = p.first
    BY <2>1
  <2>5. IdOf(p, 0) = (p.first + 0) % SeqModulus
    BY Zenon DEF IdOf, SeqOfFrame
  <2>6. QED  BY <2>3, <2>4, <2>5, Zenon
<1>8. IdOf(p, k) = p.last
  BY <1>5, <1>6, Zenon DEF IdOf
<1>9. Assembled(k) = p.payload
  <2>1. Assembled(k) = [i \in 1 .. Size(p) |-> number]
    BY AssembledPayload, Zenon
  <2>2. QED  BY <1>6, <2>1, Zenon
<1>10. p = [payload |-> Assembled(k), first |-> SeqAt(0), last |-> SeqAt(k), legal |-> TRUE]
  <2>1. SeqAt(0) = p.first /\ SeqAt(k) = p.last
    BY <1>2, <1>4, <1>7, <1>8, Zenon
  <2>2. p = [payload |-> p.payload, first |-> p.first, last |-> p.last, legal |-> p.legal]
    BY DEF PacketRec
  <2>3. p.legal = TRUE
    BY <1>5 DEF PacketRec
  <2>4. QED  BY <1>9, <2>1, <2>2, <2>3, Zenon
<1>11. Len(Encoded(p, number)) = Start(k) + 4 + LengthOf(k)
  <2>1. Len(Encoded(p, number)) = Start(N - 1) + 4 + FrameSize(Size(p), N - 1)
    BY EncodedShape, Zenon
  <2>2. QED  BY <1>1, <1>2, <2>1, Zenon
<1>12. Len(bytes) >= Start(k) + 4 + LengthOf(k)
  BY <1>1, <1>2, Zenon DEF Arrived
<1>13. Start(k) \in Nat /\ LengthOf(k) \in Nat
  BY <1>1, <1>2, Starts, Zenon
<1>14. (Start(k) + 4 + LengthOf(k)) + 1 = Start(k) + 5 + LengthOf(k)
  BY <1>13
<1>15. Len(Encoded(p, number)) <= Len(bytes)
  <2>1. Len(bytes) \in Nat
    OBVIOUS
  <2>2. Start(k) + 4 + LengthOf(k) <= Len(bytes)
    BY <1>12, <1>13, <2>1
  <2>3. QED  BY <1>11, <2>2, Zenon
<1>16. RestAfter(k) = SubSeq(bytes, Len(Encoded(p, number)) + 1, Len(bytes))
  BY <1>11, <1>14, Zenon DEF RestAfter
<1>17. QED  BY <1>10, <1>15, <1>16, Zenon


-----------------------------------------------------------------------------
(* The invariant.  Until the reader ends, what it has, what the stream     *)
(* holds and what can still be written to it are the encodings of the      *)
(* packets not yet received; what was cut off is of the last of them.      *)

Outcome == {"reading", "end", "too_large", "mismatch", "truncated", "timeout"}

TypeOK ==
  /\ sender \in {"server", "client"} /\ seq \in 0 .. SeqModulus - 1
  /\ unwritten \in Seq(Nat) /\ wire \in Seq(Nat) /\ bytes \in Seq(Nat)
  /\ closed \in BOOLEAN /\ outcome \in Outcome
  /\ sent \in Seq(PacketRec) /\ received \in Seq(PacketRec)

Sound ==
  /\ \A i \in 1 .. Len(sent) : SentAs(sent[i], i)
  /\ Len(received) <= Len(sent)
  /\ \A i \in 1 .. Len(received) : received[i] = sent[i] /\ Size(received[i]) <= MaxPacketSize

UnreadOf(s, r) == [i \in 1 .. Len(s) - r |-> Encoded(s[r + i], r + i)]

Unread == UnreadOf(sent, Len(received))

InStream(cut) ==
  /\ Spells(bytes, wire, cut, Unread)
  /\ ~closed => cut = unwritten
  /\ cut # <<>> => sent # <<>> /\ Len(cut) <= Len(Encoded(sent[Len(sent)], Len(sent)))

Streamed == outcome = "reading" => \E cut \in Seq(Nat) : InStream(cut)

Ended ==
  /\ closed => unwritten = <<>>
  /\ outcome \in {"too_large", "mismatch"} => Len(received) < Len(sent)
  /\ RefusesOnlyBad
  /\ outcome = "end" => closed
  /\ EndIsClean

Inv == TypeOK /\ Sound /\ Streamed /\ Ended

(* The encodings of the packets not yet received: the next of them, one    *)
(* more, one less.                                                         *)
LEMMA UnreadShape ==
  ASSUME NEW s \in Seq(PacketRec), NEW r \in Nat, r <= Len(s)
  PROVE  /\ UnreadOf(s, r) \in Seq(Seq(Nat)) /\ Len(UnreadOf(s, r)) = Len(s) - r
         /\ \A i \in 1 .. Len(s) - r :
              /\ UnreadOf(s, r)[i] = Encoded(s[r + i], r + i)
              /\ s[r + i] \in PacketRec /\ r + i \in Nat
<1> DEFINE u == UnreadOf(s, r)
           n == Len(s) - r
<1>1. n \in Nat /\ \A i \in 1 .. n : r + i \in Nat /\ r + i \in 1 .. Len(s)
  OBVIOUS
<1>2. \A i \in 1 .. n : s[r + i] \in PacketRec /\ r + i \in Nat
  BY <1>1
<1>3. u = [i \in 1 .. n |-> Encoded(s[r + i], r + i)]
  BY DEF UnreadOf
<1>4. \A i \in 1 .. n : u[i] = Encoded(s[r + i], r + i)
  BY <1>3, Zenon
<1>5. \A i \in 1 .. n : u[i] \in Seq(Nat)
  <2>1. \A i \in 1 .. n : Encoded(s[r + i], r + i) \in Seq(Nat)
    BY <1>2, EncodedShape, Zenon
  <2>2. QED  BY <1>4, <2>1, Zenon
<1>6. u = [i \in 1 .. n |-> u[i]]
  BY <1>3, Zenon
<1> HIDE DEF u, n
<1>7. u \in Seq(Seq(Nat)) /\ Len(u) = n
  BY <1>1, <1>5, <1>6, FunctionIsSequence
<1>8. QED  BY <1>2, <1>4, <1>7, Zenon DEF u, n

LEMMA UnreadAppend ==
  ASSUME NEW s \in Seq(PacketRec), NEW r \in Nat, r <= Len(s), NEW p \in PacketRec
  PROVE  UnreadOf(Append(s, p), r) = Append(UnreadOf(s, r), Encoded(p, Len(s) + 1))
<1> DEFINE t == Append(s, p)
           u == UnreadOf(s, r)
           v == UnreadOf(t, r)
           e == Encoded(p, Len(s) + 1)
           n == Len(s) - r
<1>1. t \in Seq(PacketRec) /\ Len(t) = Len(s) + 1 /\ r <= Len(t) /\ Len(t) - r = n + 1 /\ n \in Nat
      /\ t[Len(s) + 1] = p /\ \A i \in 1 .. Len(s) : t[i] = s[i]
  OBVIOUS
<1>2. u \in Seq(Seq(Nat)) /\ Len(u) = n /\ \A i \in 1 .. n : u[i] = Encoded(s[r + i], r + i)
  BY UnreadShape, Zenon
<1> HIDE DEF t
<1>3. v \in Seq(Seq(Nat)) /\ Len(v) = n + 1 /\ \A i \in 1 .. n + 1 : v[i] = Encoded(t[r + i], r + i)
  <2>1. v \in Seq(Seq(Nat)) /\ Len(v) = Len(t) - r /\ \A i \in 1 .. Len(t) - r : v[i] = Encoded(t[r + i], r + i)
    BY <1>1, UnreadShape, Zenon
  <2>2. QED  BY <1>1, <2>1, Zenon
<1>4. e \in Seq(Nat)
  <2>1. Len(s) + 1 \in Nat
    OBVIOUS
  <2>2. QED  BY <2>1, EncodedShape, Zenon
<1>5. v[n + 1] = e
  <2>1. n + 1 \in 1 .. n + 1 /\ r + (n + 1) = Len(s) + 1
    BY <1>1
  <2>2. v[n + 1] = Encoded(t[r + (n + 1)], r + (n + 1))
    BY <1>3, <2>1, Zenon
  <2>3. QED  BY <1>1, <2>1, <2>2, Zenon
<1>6. \A i \in 1 .. n : v[i] = u[i]
  <2> SUFFICES ASSUME NEW i \in 1 .. n PROVE v[i] = u[i]
    OBVIOUS
  <2>1. i \in 1 .. n + 1 /\ r + i \in 1 .. Len(s)
    BY <1>1
  <2>2. v[i] = Encoded(t[r + i], r + i) /\ t[r + i] = s[r + i] /\ u[i] = Encoded(s[r + i], r + i)
    BY <1>1, <1>2, <1>3, <2>1, Zenon
  <2>3. QED  BY <2>2, Zenon
<1> HIDE DEF u, v, e, n
<1>7. v = Append(u, e)
  <2> DEFINE a == Append(u, e)
  <2>1. a \in Seq(Seq(Nat)) /\ Len(a) = n + 1 /\ a[n + 1] = e /\ \A i \in 1 .. n : a[i] = u[i]
    BY <1>2, <1>4
  <2> HIDE DEF a
  <2>2. \A i \in 1 .. Len(v) : v[i] = a[i]
    BY SMTT(60), <1>1, <1>3, <1>5, <1>6, <2>1
  <2>3. v = a
    BY <1>3, <2>1, <2>2, SeqEqual
  <2>4. QED  BY <2>3 DEF a
<1>8. QED  BY <1>7 DEF t, u, v, e, n

LEMMA UnreadTail ==
  ASSUME NEW s \in Seq(PacketRec), NEW r \in Nat, r + 1 <= Len(s)
  PROVE  /\ UnreadOf(s, r) # <<>>
         /\ Head(UnreadOf(s, r)) = Encoded(s[r + 1], r + 1)
         /\ Tail(UnreadOf(s, r)) = UnreadOf(s, r + 1)
<1> DEFINE u == UnreadOf(s, r)
           v == UnreadOf(s, r + 1)
           n == Len(s) - r
<1>1. n \in Nat \ {0} /\ r + 1 \in Nat /\ r <= Len(s) /\ Len(s) - (r + 1) = n - 1
  OBVIOUS
<1>2. u \in Seq(Seq(Nat)) /\ Len(u) = n /\ \A i \in 1 .. n : u[i] = Encoded(s[r + i], r + i)
  BY <1>1, UnreadShape, Zenon
<1>3. v \in Seq(Seq(Nat)) /\ Len(v) = n - 1 /\ \A i \in 1 .. n - 1 : v[i] = Encoded(s[(r + 1) + i], (r + 1) + i)
  <2>1. /\ v \in Seq(Seq(Nat)) /\ Len(v) = Len(s) - (r + 1)
        /\ \A i \in 1 .. Len(s) - (r + 1) : v[i] = Encoded(s[(r + 1) + i], (r + 1) + i)
    BY <1>1, UnreadShape, Zenon
  <2>2. QED  BY <1>1, <2>1, Zenon
<1> HIDE DEF u, v, n
<1>4. u # <<>> /\ Head(u) = u[1] /\ 1 \in 1 .. n
  BY <1>1, <1>2
<1>5. Tail(u) = v
  <2> DEFINE t == Tail(u)
  <2>1. t \in Seq(Seq(Nat)) /\ Len(t) = n - 1 /\ \A i \in 1 .. n - 1 : t[i] = u[i + 1]
    BY <1>1, <1>2, <1>4, HeadTailProperties
  <2> HIDE DEF t
  <2>2. ASSUME NEW i \in 1 .. n - 1 PROVE t[i] = v[i]
    <3>1. i + 1 \in 1 .. n /\ r + (i + 1) = (r + 1) + i
      BY <1>1
    <3>2. t[i] = u[i + 1] /\ u[i + 1] = Encoded(s[r + (i + 1)], r + (i + 1))
      BY <1>2, <2>1, <3>1, Zenon
    <3>3. QED  BY <1>3, <3>1, <3>2, Zenon
  <2>3. t = v
    BY <1>3, <2>1, <2>2, SeqEqual
  <2>4. QED  BY <2>3 DEF t
<1>6. u[1] = Encoded(s[r + 1], r + 1)
  BY <1>2, <1>4, Zenon
<1>7. QED  BY <1>4, <1>5, <1>6 DEF u, v

-----------------------------------------------------------------------------
(* A sender puts one packet into the stream, encoded.                      *)
NewPacket(size, number, first, legal) ==
  [payload |-> [i \in 1 .. size |-> number], first |-> first,
   last |-> SeqOfFrame(first, FrameCount(size) - 1), legal |-> legal]

LEMMA NewPackets ==
  ASSUME NEW size \in Nat, NEW number \in Nat, NEW first \in 0 .. SeqModulus - 1,
         NEW legal \in BOOLEAN, ~legal => FrameCount(size) > 1
  PROVE  LET p == NewPacket(size, number, first, legal)
         IN  p \in PacketRec /\ SentAs(p, number) /\ Size(p) = size
<1> DEFINE p == NewPacket(size, number, first, legal)
           body == [i \in 1 .. size |-> number]
           last == SeqOfFrame(first, FrameCount(size) - 1)
<1>1. body \in Seq(Nat) /\ Len(body) = size
  OBVIOUS
<1>2. last \in 0 .. SeqModulus - 1
  <2>1. SeqModulus \in Nat \ {0}
    BY FramingAssumption
  <2>2. FrameCount(size) \in Nat
    BY FrameSizes, Zenon
  <2>3. \A m \in Int : m % SeqModulus \in 0 .. SeqModulus - 1
    BY <2>1
  <2>4. first + (FrameCount(size) - 1) \in Int
    BY <2>1, <2>2
  <2>5. QED  BY <2>3, <2>4, Zenon DEF SeqOfFrame
<1> HIDE DEF body, last
<1>3. p = [payload |-> body, first |-> first, last |-> last, legal |-> legal]
  BY DEF NewPacket, body, last
<1> HIDE DEF p
<1>4. p \in PacketRec
  BY <1>1, <1>2, <1>3 DEF PacketRec
<1>5. p.payload = body /\ p.first = first /\ p.last = last /\ p.legal = legal
  BY <1>3
<1>6. Size(p) = size
  BY <1>1, <1>5, Zenon DEF Size
<1>7. SentAs(p, number)
  BY <1>5, <1>6, Zenon DEF SentAs, body, last
<1>8. QED  BY <1>4, <1>6, <1>7 DEF p

Sends(p) ==
  /\ unwritten' = Encoded(p, Len(sent) + 1) /\ sent' = Append(sent, p)
  /\ seq' \in 0 .. SeqModulus - 1
  /\ UNCHANGED <<sender, wire, closed, bytes, outcome, received>>

LEMMA NextIds ==
  ASSUME NEW size \in Nat, NEW first \in 0 .. SeqModulus - 1
  PROVE  SeqOfFrame(first, FrameCount(size)) \in 0 .. SeqModulus - 1
         /\ 0 \in 0 .. SeqModulus - 1
<1>1. SeqModulus \in Nat \ {0}
  BY FramingAssumption
<1>2. FrameCount(size) \in Nat
  BY FrameSizes, Zenon
<1>3. first + FrameCount(size) \in Nat
  BY <1>1, <1>2
<1>4. \A m \in Nat : m % SeqModulus \in 0 .. SeqModulus - 1
  BY <1>1
<1>5. QED  BY <1>1, <1>3, <1>4 DEF SeqOfFrame

LEMMA ServerSends ==
  ASSUME TypeOK, NEW size \in PayloadSize, WritePacket(size)
  PROVE  \E p \in PacketRec : SentAs(p, Len(sent) + 1) /\ Sends(p)
<1> DEFINE number == Len(sent) + 1
           p == NewPacket(size, number, seq, TRUE)
<1>1. size \in Nat /\ number \in Nat /\ seq \in 0 .. SeqModulus - 1
  BY FramingAssumption DEF TypeOK
<1>2. p \in PacketRec /\ SentAs(p, number) /\ Size(p) = size
  BY <1>1, NewPackets, Zenon
<1>3. p.first = seq /\ p.legal = TRUE
  BY DEF NewPacket
<1>4. sent' = Append(sent, p)
  BY DEF WritePacket, PacketOf, NewPacket
<1>5. seq' \in 0 .. SeqModulus - 1
  BY <1>1, NextIds, Zenon DEF WritePacket
<1> HIDE DEF p
<1>6. unwritten' = Encoded(p, number)
  <2>1. \A k : IdOf(p, k) = SeqOfFrame(seq, k)
    BY <1>3 DEF IdOf
  <2>2. unwritten' = FlattenSeq([k \in 1 .. FrameCount(size) |->
                       Frame(size, number, k - 1, SeqOfFrame(seq, k - 1))])
    BY DEF WritePacket, Encode
  <2>3. Encoded(p, number) = FlattenSeq([k \in 1 .. FrameCount(size) |->
                       Frame(size, number, k - 1, IdOf(p, k - 1))])
    BY <1>2 DEF Encoded, Frames, FrameOf
  <2>4. QED  BY <2>1, <2>2, <2>3, Zenon
<1>7. Sends(p)
  BY <1>4, <1>5, <1>6 DEF WritePacket, Sends
<1>8. QED  BY <1>2, <1>7

LEMMA ClientSendsPacket ==
  ASSUME TypeOK, NEW size \in PayloadSize, NEW skip \in BOOLEAN, ClientSends(size, skip)
  PROVE  \E p \in PacketRec : SentAs(p, Len(sent) + 1) /\ Sends(p)
<1> DEFINE number == Len(sent) + 1
           breaks == skip /\ FrameCount(size) > 1
           legal == ~breaks
           p == NewPacket(size, number, seq, legal)
<1>1. size \in Nat /\ number \in Nat /\ seq \in 0 .. SeqModulus - 1
  BY FramingAssumption DEF TypeOK
<1>2. legal \in BOOLEAN /\ (~legal => FrameCount(size) > 1)
  OBVIOUS
<1>3. sent' = Append(sent, [PacketOf(size, number, seq) EXCEPT !.legal = legal])
  BY DEF ClientSends
<1>4. unwritten' = FlattenSeq([k \in 1 .. FrameCount(size) |->
        Frame(size, number, k - 1,
              IF breaks /\ k - 1 > 0 THEN SeqOfFrame(seq, (k - 1) + 1) ELSE SeqOfFrame(seq, k - 1))])
  BY DEF ClientSends, Encode
<1>5. breaks = ~legal
  OBVIOUS
<1>6. seq' \in {0, SeqOfFrame(seq, FrameCount(size))}
  BY DEF ClientSends
<1>7. UNCHANGED <<sender, wire, closed, bytes, outcome, received>>
  BY DEF ClientSends
<1> HIDE DEF legal, breaks
<1>8. p \in PacketRec /\ SentAs(p, number) /\ Size(p) = size
  BY <1>1, <1>2, NewPackets, Zenon
<1>9. p.first = seq /\ p.legal = legal
  BY DEF NewPacket
<1>10. sent' = Append(sent, p)
  <2> DEFINE r == PacketOf(size, number, seq)
             body == [i \in 1 .. size |-> number]
             last == SeqOfFrame(seq, FrameCount(size) - 1)
  <2>1. r = [payload |-> body, first |-> seq, last |-> last, legal |-> TRUE]
    BY DEF PacketOf
  <2>2. p = [payload |-> body, first |-> seq, last |-> last, legal |-> legal]
    BY DEF NewPacket
  <2> HIDE DEF r, body, last
  <2>3. [r EXCEPT !.legal = legal] = [payload |-> body, first |-> seq, last |-> last, legal |-> legal]
    BY <2>1
  <2>4. QED  BY <1>3, <2>2, <2>3, Zenon DEF r
<1>11. seq' \in 0 .. SeqModulus - 1
  <2>1. \A s \in {0, SeqOfFrame(seq, FrameCount(size))} : s \in 0 .. SeqModulus - 1
    BY <1>1, NextIds, Zenon
  <2>2. QED  BY <1>6, <2>1, Zenon
<1> HIDE DEF p
<1>12. unwritten' = Encoded(p, number)
  <2>1. \A k \in Nat : IdOf(p, k) =
          IF breaks /\ k > 0 THEN SeqOfFrame(seq, k + 1) ELSE SeqOfFrame(seq, k)
    <3> SUFFICES ASSUME NEW k \in Nat
                 PROVE  IdOf(p, k) = IF breaks /\ k > 0 THEN SeqOfFrame(seq, k + 1) ELSE SeqOfFrame(seq, k)
      OBVIOUS
    <3>1. k > 0 <=> k # 0
      OBVIOUS
    <3>2. QED  BY <1>2, <1>5, <1>9, <3>1, Zenon DEF IdOf
  <2>2. \A k \in 1 .. FrameCount(size) : k - 1 \in Nat
    OBVIOUS
  <2>3. Encoded(p, number) = FlattenSeq([k \in 1 .. FrameCount(size) |->
                       Frame(size, number, k - 1, IdOf(p, k - 1))])
    BY <1>8 DEF Encoded, Frames, FrameOf
  <2>4. QED  BY <1>4, <2>1, <2>2, <2>3, Zenon
<1>13. Sends(p)
  BY <1>7, <1>10, <1>11, <1>12 DEF Sends
<1>14. QED  BY <1>8, <1>13

-----------------------------------------------------------------------------
(* What the invariant says of the stream while the reader reads.           *)
LEMMA Reading ==
  ASSUME TypeOK, Sound
  PROVE  /\ Unread \in Seq(Seq(Nat)) /\ Len(Unread) = Len(sent) - Len(received)
         /\ Len(received) \in Nat /\ Len(sent) \in Nat /\ Len(received) <= Len(sent)
         /\ \A i \in 1 .. Len(sent) - Len(received) :
              Unread[i] = Encoded(sent[Len(received) + i], Len(received) + i)
<1>1. /\ sent \in Seq(PacketRec) /\ Len(received) \in Nat /\ Len(sent) \in Nat
      /\ Len(received) <= Len(sent)
  BY DEF TypeOK, Sound
<1>2. QED  BY <1>1, UnreadShape, Zenon DEF Unread

(* A packet the stream has not seen yet.                                   *)
LEMMA SendStep ==
  ASSUME Inv, CanSend, NEW p \in PacketRec, SentAs(p, Len(sent) + 1), Sends(p)
  PROVE  Inv'
<1> DEFINE number == Len(sent) + 1
           e == Encoded(p, number)
<1>1. TypeOK /\ Sound /\ Streamed /\ Ended
  BY DEF Inv
<1>2. unwritten = <<>> /\ ~closed
  BY DEF CanSend
<1>3. /\ unwritten' = e /\ sent' = Append(sent, p) /\ seq' \in 0 .. SeqModulus - 1
      /\ sender' = sender /\ wire' = wire /\ closed' = closed /\ bytes' = bytes
      /\ outcome' = outcome /\ received' = received
  BY DEF Sends
<1>4. /\ wire \in Seq(Nat) /\ bytes \in Seq(Nat) /\ sent \in Seq(PacketRec)
      /\ received \in Seq(PacketRec) /\ closed \in BOOLEAN
  BY <1>1 DEF TypeOK
<1>5. /\ Unread \in Seq(Seq(Nat)) /\ Len(Unread) = Len(sent) - Len(received)
      /\ Len(received) \in Nat /\ Len(sent) \in Nat /\ Len(received) <= Len(sent)
  BY <1>1, Reading
<1>6. number \in Nat /\ e \in Seq(Nat)
  <2>1. number \in Nat
    BY <1>5
  <2>2. QED  BY <2>1, EncodedShape, Zenon
<1> HIDE DEF e
<1>7. /\ sent' \in Seq(PacketRec) /\ Len(sent') = number /\ sent'[number] = p
      /\ \A i \in 1 .. Len(sent) : sent'[i] = sent[i]
  BY <1>3, <1>4
<1>8. TypeOK'
  BY <1>1, <1>3, <1>6, <1>7 DEF TypeOK
<1>9. Sound'
  <2>1. \A i \in 1 .. number : i \in 1 .. Len(sent) \/ i = number
    BY <1>5
  <2>2. \A i \in 1 .. number : SentAs(sent'[i], i)
    BY <1>1, <1>7, <2>1 DEF Sound
  <2>3. Len(received') <= Len(sent')
    BY <1>3, <1>5, <1>7
  <2>4. \A i \in 1 .. Len(received) : i \in 1 .. Len(sent)
    BY <1>5
  <2>5. \A i \in 1 .. Len(received) : received[i] = sent[i] /\ Size(received[i]) <= MaxPacketSize
    BY <1>1 DEF Sound
  <2>6. \A i \in 1 .. Len(received') : received'[i] = sent'[i] /\ Size(received'[i]) <= MaxPacketSize
    BY <1>3, <1>7, <2>4, <2>5, Zenon
  <2>7. QED  BY <1>7, <2>2, <2>3, <2>6 DEF Sound
<1>10. Streamed'
  <2> SUFFICES ASSUME outcome = "reading" PROVE \E cut \in Seq(Nat) : InStream(cut)'
    BY <1>3 DEF Streamed
  <2>1. PICK cut \in Seq(Nat) : InStream(cut)
    BY <1>1 DEF Streamed
  <2>2. Spells(bytes, wire, <<>>, Unread)
    BY <1>2, <2>1, Zenon DEF InStream
  <2>3. Unread' = Append(Unread, e)
    <3>1. UnreadOf(Append(sent, p), Len(received)) = Append(UnreadOf(sent, Len(received)), Encoded(p, Len(sent) + 1))
      BY <1>4, <1>5, UnreadAppend, Zenon
    <3>2. QED  BY <1>3, <3>1, Zenon DEF Unread, e
  <2>4. FlattenSeq(Append(Unread, e)) = FlattenSeq(Unread) \o e
    BY <1>5, <1>6, FlattenSeqAppend
  <2>5. Joined(bytes, wire, <<>>) \o e = Joined(bytes, wire, e)
    BY <1>4, <1>6, JoinedMore
  <2>6. Spells(bytes', wire', e, Unread')
    BY <1>3, <2>2, <2>3, <2>4, <2>5, Zenon DEF Spells
  <2>7. sent' # <<>> /\ Len(e) <= Len(Encoded(sent'[Len(sent')], Len(sent')))
    <3>0. sent' # <<>>
      <4>1. Len(<<>>) = 0 /\ number # 0
        BY <1>5
      <4>2. QED  BY <1>7, <4>1
    <3>1. Encoded(sent'[Len(sent')], Len(sent')) = e
      BY <1>7, Zenon DEF e
    <3>2. Len(e) \in Nat
      BY <1>6
    <3>3. QED  BY <3>0, <3>1, <3>2
  <2>8. PICK cut1 \in Seq(Nat) : cut1 = e
    BY <1>6, Zenon
  <2>9. InStream(cut1)' <=>
          /\ Spells(bytes', wire', cut1, Unread')
          /\ ~closed' => cut1 = unwritten'
          /\ cut1 # <<>> => sent' # <<>> /\ Len(cut1) <= Len(Encoded(sent'[Len(sent')], Len(sent')))
    BY DEF InStream
  <2>10. InStream(cut1)'
    BY <1>3, <2>6, <2>7, <2>8, <2>9, Zenon
  <2>11. QED  BY <2>10, Zenon
<1>11. Ended'
  <2>1. outcome' \in {"too_large", "mismatch"} =>
          Len(received') < Len(sent') /\ Refused' = Refused
    <3> SUFFICES ASSUME outcome \in {"too_large", "mismatch"}
                 PROVE  Len(received) < Len(sent') /\ Refused' = Refused
      BY <1>3
    <3>1. Len(received) < Len(sent)
      BY <1>1 DEF Ended
    <3>2. Len(received) + 1 \in 1 .. Len(sent) /\ Len(received) < Len(sent')
      BY <1>5, <1>7, <3>1
    <3>3. sent'[Len(received') + 1] = sent[Len(received) + 1]
      BY <1>3, <1>7, <3>2, Zenon
    <3>4. QED  BY <3>2, <3>3 DEF Refused
  <2>2. RefusesOnlyBad'
    <3>1. RefusesOnlyBad
      BY <1>1 DEF Ended
    <3>2. QED  BY <1>3, <2>1, <3>1 DEF RefusesOnlyBad
  <2>3. outcome # "end"
    BY <1>1, <1>2 DEF Ended
  <2>4. EndIsClean'
    BY <1>3, <2>3 DEF EndIsClean
  <2>5. QED  BY <1>2, <1>3, <2>1, <2>2, <2>3, <2>4 DEF Ended
<1>12. QED  BY <1>8, <1>9, <1>10, <1>11 DEF Inv

(* Steps that take nothing from the reader and give it no packet.          *)
LEMMA SameHistory ==
  ASSUME Inv, UNCHANGED <<sent, received>>
  PROVE  Sound' /\ Unread' = Unread
<1>1. Sound'
  BY DEF Inv, Sound
<1>2. Unread' = Unread
  BY DEF Unread, UnreadOf
<1>3. QED  BY <1>1, <1>2

LEMMA SameEnd ==
  ASSUME Inv, UNCHANGED <<sent, received, outcome>>, closed => closed',
         closed' => unwritten' = <<>>, outcome = "end" => bytes' = bytes
  PROVE  Ended'
<1>1. Ended
  BY DEF Inv
<1>2. Refused' = Refused
  BY DEF Refused
<1>3. RefusesOnlyBad'
  BY <1>1, <1>2 DEF Ended, RefusesOnlyBad
<1>4. EndIsClean'
  BY <1>1 DEF Ended, EndIsClean
<1>5. outcome' = "end" => closed'
  BY <1>1 DEF Ended
<1>6. outcome' \in {"too_large", "mismatch"} => Len(received') < Len(sent')
  BY <1>1 DEF Ended
<1>7. QED  BY <1>3, <1>4, <1>5, <1>6, Zenon DEF Ended

(* The stream as the next state has it.                                    *)
LEMMA StreamedNext ==
  ASSUME UNCHANGED sent, NEW cut \in Seq(Nat),
         Spells(bytes', wire', cut, Unread'),
         ~closed' => cut = unwritten',
         cut # <<>> => sent # <<>> /\ Len(cut) <= Len(Encoded(sent[Len(sent)], Len(sent)))
  PROVE  Streamed'
<1>1. InStream(cut)' <=>
        /\ Spells(bytes', wire', cut, Unread')
        /\ ~closed' => cut = unwritten'
        /\ cut # <<>> => sent' # <<>> /\ Len(cut) <= Len(Encoded(sent'[Len(sent')], Len(sent')))
  BY DEF InStream
<1>2. InStream(cut)'
  BY <1>1, Zenon
<1>3. Streamed' <=> (outcome' = "reading" => \E c \in Seq(Nat) : InStream(c)')
  BY DEF Streamed
<1>4. QED  BY <1>2, <1>3, Zenon

LEMMA WriteStep ==
  ASSUME Inv, WriteChunks
  PROVE  Inv'
<1>1. TypeOK /\ Streamed
  BY DEF Inv
<1>2. /\ ~closed /\ wire' = wire \o unwritten /\ unwritten' = <<>> /\ closed' = closed
      /\ UNCHANGED <<sender, seq, bytes, outcome, sent, received>>
  BY DEF WriteChunks
<1>3. bytes \in Seq(Nat) /\ wire \in Seq(Nat) /\ unwritten \in Seq(Nat)
  BY <1>1 DEF TypeOK
<1>4. Sound' /\ Unread' = Unread
  BY <1>2, SameHistory
<1>5. Ended'
  BY <1>2, SameEnd
<1>6. TypeOK'
  BY <1>1, <1>2, <1>3 DEF TypeOK
<1>7. ASSUME outcome = "reading" PROVE Streamed'
  <2>1. PICK cut \in Seq(Nat) : InStream(cut)
    BY <1>1, <1>7 DEF Streamed
  <2>2. Spells(bytes, wire, unwritten, Unread)
    BY <1>2, <2>1, Zenon DEF InStream
  <2>3. Joined(bytes, wire \o unwritten, <<>>) = Joined(bytes, wire, unwritten)
    BY <1>3, JoinedFlushed
  <2>4. Spells(bytes', wire', <<>>, Unread')
    BY <1>2, <1>4, <2>2, <2>3, Zenon DEF Spells
  <2>5. <<>> \in Seq(Nat)
    OBVIOUS
  <2>6. QED  BY <1>2, <2>4, <2>5, StreamedNext, Zenon
<1>8. outcome # "reading" => Streamed'
  BY <1>2 DEF Streamed
<1>9. QED  BY <1>4, <1>5, <1>6, <1>7, <1>8 DEF Inv

LEMMA CloseStep ==
  ASSUME Inv, Closes
  PROVE  Inv'
<1>1. TypeOK /\ Streamed
  BY DEF Inv
<1>2. PICK n \in 0 .. Len(unwritten) : wire' = wire \o SubSeq(unwritten, 1, n)
  BY DEF Closes
<1>3. /\ ~closed /\ closed' = TRUE /\ unwritten' = <<>>
      /\ UNCHANGED <<sender, seq, bytes, outcome, sent, received>>
  BY DEF Closes
<1>4. bytes \in Seq(Nat) /\ wire \in Seq(Nat) /\ unwritten \in Seq(Nat)
  BY <1>1 DEF TypeOK
<1>5. Sound' /\ Unread' = Unread
  BY <1>3, SameHistory
<1>6. Ended'
  BY <1>3, SameEnd
<1>7. PICK cut \in Seq(Nat) : /\ cut = SubSeq(unwritten, n + 1, Len(unwritten))
                              /\ Len(cut) = Len(unwritten) - n
  <2>1. /\ SubSeq(unwritten, n + 1, Len(unwritten)) \in Seq(Nat)
        /\ Len(SubSeq(unwritten, n + 1, Len(unwritten))) = Len(unwritten) - n
    BY <1>4, CutInTwo
  <2>2. QED  BY <2>1, Zenon
<1>8. wire' \in Seq(Nat)
  <2> DEFINE x == SubSeq(unwritten, 1, n)
  <2>1. x \in Seq(Nat)
    BY <1>4, CutInTwo
  <2> HIDE DEF x
  <2>2. wire \o x \in Seq(Nat)
    BY <1>4, <2>1
  <2>3. QED  BY <1>2, <2>2 DEF x
<1>9. TypeOK'
  BY <1>1, <1>3, <1>8 DEF TypeOK
<1>10. ASSUME outcome = "reading" PROVE Streamed'
  <2>1. PICK all \in Seq(Nat) : InStream(all)
    BY <1>1, <1>10 DEF Streamed
  <2>2. /\ Spells(bytes, wire, unwritten, Unread)
        /\ unwritten # <<>> => sent # <<>> /\ Len(unwritten) <= Len(Encoded(sent[Len(sent)], Len(sent)))
    BY <1>3, <2>1, Zenon DEF InStream
  <2>3. Joined(bytes, wire \o SubSeq(unwritten, 1, n), SubSeq(unwritten, n + 1, Len(unwritten)))
          = Joined(bytes, wire, unwritten)
    BY <1>4, JoinedWritten
  <2>4. Spells(bytes', wire', cut, Unread')
    BY <1>2, <1>3, <1>5, <1>7, <2>2, <2>3, Zenon DEF Spells
  <2>5. cut # <<>> => sent # <<>> /\ Len(cut) <= Len(Encoded(sent[Len(sent)], Len(sent)))
    <3> SUFFICES ASSUME cut # <<>> PROVE sent # <<>> /\ Len(cut) <= Len(Encoded(sent[Len(sent)], Len(sent)))
      OBVIOUS
    <3>1. Len(cut) # 0 /\ Len(cut) \in Nat /\ Len(unwritten) \in Nat
      BY <1>4
    <3>2. unwritten # <<>>
      <4>1. Len(<<>>) = 0
        OBVIOUS
      <4>2. Len(unwritten) # 0
        BY <1>7, <3>1
      <4>3. QED  BY <4>1, <4>2
    <3> DEFINE l == Len(Encoded(sent[Len(sent)], Len(sent)))
    <3>3. sent # <<>> /\ Len(unwritten) <= l
      BY <2>2, <3>2, Zenon
    <3>4. l \in Nat
      <4>1. sent \in Seq(PacketRec)
        BY <1>1 DEF TypeOK
      <4>2. sent # <<>>
        BY <2>2, <3>2, Zenon
      <4>3. Len(sent) \in 1 .. Len(sent) /\ Len(sent) \in Nat
        BY <4>1, <4>2
      <4>4. sent[Len(sent)] \in PacketRec
        BY <4>1, <4>3
      <4>5. Encoded(sent[Len(sent)], Len(sent)) \in Seq(Nat)
        BY <4>3, <4>4, EncodedShape, Zenon
      <4>6. QED  BY <4>5
    <3> HIDE DEF l
    <3>5. Len(cut) <= l
      BY <1>7, <3>1, <3>3, <3>4
    <3>6. QED  BY <3>3, <3>5 DEF l
  <2>6. QED  BY <1>3, <2>4, <2>5, StreamedNext, Zenon
<1>11. outcome # "reading" => Streamed'
  BY <1>3 DEF Streamed
<1>12. QED  BY <1>5, <1>6, <1>9, <1>10, <1>11 DEF Inv

LEMMA ReadStep ==
  ASSUME Inv, ReadSome
  PROVE  Inv'
<1>1. TypeOK /\ Streamed /\ outcome = "reading"
  BY DEF Inv, ReadSome
<1>2. PICK n \in 1 .. Len(wire) : /\ bytes' = bytes \o SubSeq(wire, 1, n)
                                  /\ wire' = SubSeq(wire, n + 1, Len(wire))
  BY DEF ReadSome
<1>3. UNCHANGED <<sender, seq, unwritten, closed, outcome, sent, received>>
  BY DEF ReadSome
<1>4. bytes \in Seq(Nat) /\ wire \in Seq(Nat)
  BY <1>1 DEF TypeOK
<1>5. n \in 0 .. Len(wire)
  OBVIOUS
<1>6. Sound' /\ Unread' = Unread
  BY <1>3, SameHistory
<1>7. Ended'
  <2>1. outcome = "end" => bytes' = bytes
    BY <1>1
  <2>2. closed' => unwritten' = <<>>
    BY <1>3 DEF Inv, Ended
  <2>3. QED  BY <1>3, <2>1, <2>2, SameEnd
<1>8. bytes' \in Seq(Nat) /\ wire' \in Seq(Nat)
  <2> DEFINE x == SubSeq(wire, 1, n)
             y == SubSeq(wire, n + 1, Len(wire))
  <2>1. x \in Seq(Nat) /\ y \in Seq(Nat)
    BY <1>4, <1>5, CutInTwo
  <2> HIDE DEF x
  <2>2. bytes \o x \in Seq(Nat)
    BY <1>4, <2>1
  <2>3. QED  BY <1>2, <2>1, <2>2 DEF x
<1>9. TypeOK'
  BY <1>1, <1>3, <1>8 DEF TypeOK
<1>10. Streamed'
  <2>1. PICK cut \in Seq(Nat) : InStream(cut)
    BY <1>1 DEF Streamed
  <2>2. /\ Spells(bytes, wire, cut, Unread)
        /\ ~closed => cut = unwritten
        /\ cut # <<>> => sent # <<>> /\ Len(cut) <= Len(Encoded(sent[Len(sent)], Len(sent)))
    BY <2>1, Zenon DEF InStream
  <2>3. Joined(bytes \o SubSeq(wire, 1, n), SubSeq(wire, n + 1, Len(wire)), cut)
          = Joined(bytes, wire, cut)
    BY <1>4, <1>5, JoinedRead
  <2>4. Spells(bytes', wire', cut, Unread')
    BY <1>2, <1>6, <2>2, <2>3, Zenon DEF Spells
  <2>5. ~closed' => cut = unwritten'
    BY <1>3, <2>2
  <2>6. QED  BY <1>3, <2>2, <2>4, <2>5, StreamedNext, Zenon
<1>11. QED  BY <1>6, <1>7, <1>9, <1>10 DEF Inv

(* A read that ends the reader leaves the rest as it was.                  *)
LEMMA TimeoutStep ==
  ASSUME Inv, ReadTimesOut
  PROVE  Inv'
<1>1. TypeOK /\ Ended
  BY DEF Inv
<1>2. bytes' = <<>> /\ outcome' = "timeout"
      /\ UNCHANGED <<sender, seq, unwritten, wire, closed, sent, received>>
  BY DEF ReadTimesOut, AfterTimeout
<1>3. Sound'
  BY <1>2, SameHistory
<1>4. TypeOK'
  BY <1>1, <1>2 DEF TypeOK, Outcome
<1>5. Streamed'
  BY <1>2 DEF Streamed
<1>6. Ended'
  BY <1>1, <1>2 DEF Ended, RefusesOnlyBad, EndIsClean
<1>7. QED  BY <1>3, <1>4, <1>5, <1>6 DEF Inv

(* Bytes read are those of a packet sent.                                  *)
LEMMA NextPacket ==
  ASSUME Inv, outcome = "reading", bytes # <<>>
  PROVE  /\ Len(received) < Len(sent) /\ Len(received) + 1 \in Nat
         /\ Refused \in PacketRec /\ SentAs(Refused, Len(received) + 1)
         /\ Unread # <<>> /\ Head(Unread) = Encoded(Refused, Len(received) + 1)
         /\ Tail(Unread) = UnreadOf(sent, Len(received) + 1)
         /\ Agree(bytes, Encoded(Refused, Len(received) + 1))
<1>1. TypeOK /\ Sound /\ Streamed
  BY DEF Inv
<1>2. /\ wire \in Seq(Nat) /\ bytes \in Seq(Nat) /\ sent \in Seq(PacketRec)
  BY <1>1 DEF TypeOK
<1>3. /\ Unread \in Seq(Seq(Nat)) /\ Len(Unread) = Len(sent) - Len(received)
      /\ Len(received) \in Nat /\ Len(sent) \in Nat /\ Len(received) <= Len(sent)
  BY <1>1, Reading
<1>4. PICK cut \in Seq(Nat) : InStream(cut)
  BY <1>1 DEF Streamed
<1>5. Spells(bytes, wire, cut, Unread)
  BY <1>4, Zenon DEF InStream
<1>6. Unread # <<>>
  <2> SUFFICES ASSUME Unread = <<>> PROVE FALSE
    OBVIOUS
  <2>1. FlattenSeq(<<>>) = <<>>
    BY FlattenSeqEmpty
  <2>2. Joined(bytes, wire, cut) = <<>>
    BY <1>5, <2>1, Zenon DEF Spells
  <2>3. bytes = <<>>
    BY <1>2, <2>2, JoinedType
  <2>4. QED  BY <2>3
<1>7. Len(received) < Len(sent) /\ Len(received) + 1 \in 1 .. Len(sent) /\ Len(received) + 1 \in Nat
      /\ Len(received) + 1 <= Len(sent)
  <2>1. Len(Unread) # 0
    BY <1>3, <1>6
  <2>2. QED  BY <1>3, <2>1
<1>8. Refused \in PacketRec /\ SentAs(Refused, Len(received) + 1)
  <2>1. Refused \in PacketRec
    BY <1>2, <1>7 DEF Refused
  <2>2. SentAs(Refused, Len(received) + 1)
    BY <1>1, <1>7, Zenon DEF Refused, Sound
  <2>3. QED  BY <2>1, <2>2
<1>9. /\ Head(Unread) = Encoded(Refused, Len(received) + 1)
      /\ Tail(Unread) = UnreadOf(sent, Len(received) + 1)
  BY <1>2, <1>3, <1>7, UnreadTail, Zenon DEF Unread, Refused
<1>10. Agree(bytes, Head(Unread))
  BY <1>2, <1>3, <1>5, <1>6, JoinedAgrees, Zenon
<1>11. QED  BY <1>6, <1>7, <1>8, <1>9, <1>10, Zenon

LEMMA BytesKnown ==
  ASSUME bytes \in Seq(Nat), NEW k \in Probed, LengthKnown(k)
  PROVE  bytes # <<>>
<1>1. k \in Nat
  BY DEF Probed
<1>2. Start(k) \in Nat
  BY <1>1, Starts, Zenon
<1>3. Len(bytes) >= Start(k) + 3 /\ Len(bytes) \in Nat
  BY DEF LengthKnown
<1>4. Len(bytes) # 0
  BY <1>2, <1>3
<1>5. Len(<<>>) = 0
  OBVIOUS
<1>6. QED  BY <1>4, <1>5

LEMMA RefuseStep ==
  ASSUME Inv, ReaderRefuses
  PROVE  Inv'
<1>1. TypeOK /\ Ended /\ bytes \in Seq(Nat) /\ outcome = "reading"
  BY DEF Inv, TypeOK, ReaderRefuses
<1>2. \/ TooLarge /\ outcome' = "too_large"
      \/ Mismatch /\ outcome' = "mismatch"
  BY DEF ReaderRefuses, Fails
<1>3. UNCHANGED <<sender, seq, unwritten, wire, closed, bytes, sent, received>>
  BY DEF ReaderRefuses, Fails
<1>4. Sound'
  BY <1>3, SameHistory
<1>5. TypeOK'
  BY <1>1, <1>2, <1>3 DEF TypeOK, Outcome
<1>6. Streamed'
  BY <1>2 DEF Streamed
<1> DEFINE e == Encoded(Refused, Len(received) + 1)
<1>7. CASE TooLarge /\ outcome' = "too_large"
  <2>1. PICK k \in Probed : LengthKnown(k) /\ k * U24_MAX + LengthOf(k) > MaxPacketSize
    BY <1>7 DEF TooLarge
  <2>2. bytes # <<>>
    BY <1>1, <2>1, BytesKnown, Zenon
  <2>3. /\ Len(received) < Len(sent) /\ Refused \in PacketRec /\ Len(received) + 1 \in Nat
        /\ Agree(bytes, Encoded(Refused, Len(received) + 1))
    BY <1>1, <2>2, NextPacket, Zenon
  <2>4. k * U24_MAX + LengthOf(k) <= Size(Refused)
    BY <1>1, <2>1, <2>3, KnownLengths, Zenon
  <2>5. Size(Refused) > MaxPacketSize
    <3>1. k * U24_MAX + LengthOf(k) \in Int
      <4>1. k \in 0 .. FrameCount(Size(Refused)) - 1 /\ Size(Refused) \in Nat
        BY <1>1, <2>3, ProbedFrames, EncodedShape, Zenon
      <4>2. LengthOf(k) = FrameSize(Size(Refused), k)
        BY <1>1, <2>1, <2>3, <4>1, SeesFrame, Zenon
      <4>3. FrameSize(Size(Refused), k) \in 0 .. U24_MAX /\ k * U24_MAX \in Nat
        BY <4>1, FrameSizes, Zenon
      <4>4. LengthOf(k) \in Int /\ k * U24_MAX \in Int
        BY <4>2, <4>3
      <4>5. QED  BY <4>4
    <3> DEFINE l == k * U24_MAX + LengthOf(k)
    <3>2. l \in Int /\ l <= Size(Refused) /\ l > MaxPacketSize
      BY <2>1, <2>4, <3>1, Zenon
    <3>3. Size(Refused) \in Nat /\ MaxPacketSize \in Nat
      BY <2>3, FramingAssumption DEF PacketRec, Size
    <3> HIDE DEF l
    <3>4. QED  BY <3>2, <3>3
  <2>6. RefusesOnlyBad'
    BY <1>3, <1>7, <2>5 DEF RefusesOnlyBad, Refused, Size
  <2>7. QED  BY <1>1, <1>3, <1>4, <1>5, <1>6, <1>7, <2>3, <2>6 DEF Inv, Ended, EndIsClean
<1>8. CASE Mismatch /\ outcome' = "mismatch"
  <2>1. PICK k \in Probed \ {0} : HeaderKnown(k)
    BY <1>8 DEF Mismatch
  <2>2. bytes # <<>>
    <3>1. k \in Probed /\ k \in Nat
      BY <2>1 DEF Probed
    <3>2. LengthKnown(k)
      BY <1>1, <2>1, <3>1, Known, Zenon
    <3>3. QED  BY <1>1, <3>1, <3>2, BytesKnown, Zenon
  <2>3. /\ Len(received) < Len(sent) /\ Refused \in PacketRec /\ Len(received) + 1 \in Nat
        /\ Agree(bytes, Encoded(Refused, Len(received) + 1))
    BY <1>1, <2>2, NextPacket, Zenon
  <2>4. ~Refused.legal
    BY <1>1, <1>8, <2>3, MismatchIsIllegal, Zenon
  <2>5. RefusesOnlyBad'
    BY <1>3, <1>8, <2>4 DEF RefusesOnlyBad, Refused
  <2>6. QED  BY <1>1, <1>3, <1>4, <1>5, <1>6, <1>8, <2>3, <2>5 DEF Inv, Ended, EndIsClean
<1>9. QED  BY <1>2, <1>7, <1>8, Zenon

LEMMA ReturnStep ==
  ASSUME Inv, ReturnsPacket
  PROVE  Inv'
<1> DEFINE r == Len(received)
           p == Refused
           e == Encoded(p, r + 1)
<1>1. TypeOK /\ Sound /\ Streamed /\ Ended
  BY DEF Inv
<1>2. outcome = "reading" /\ ~TooLarge /\ ~Mismatch
  BY DEF ReturnsPacket
<1>3. PICK k \in Probed :
        /\ LastFrame(k)
        /\ received' = Append(received,
             [payload |-> Assembled(k), first |-> SeqAt(0), last |-> SeqAt(k), legal |-> TRUE])
        /\ bytes' = RestAfter(k)
  BY DEF ReturnsPacket
<1>4. UNCHANGED <<sender, seq, unwritten, wire, closed, outcome, sent>>
  BY DEF ReturnsPacket
<1>5. /\ wire \in Seq(Nat) /\ bytes \in Seq(Nat) /\ sent \in Seq(PacketRec)
      /\ received \in Seq(PacketRec)
  BY <1>1 DEF TypeOK
<1>6. LengthKnown(k) /\ k \in Nat
  <2>1. Arrived(k) /\ k \in Nat
    BY <1>3 DEF LastFrame, Probed
  <2>2. QED  BY <1>5, <2>1, Known, Zenon
<1>7. bytes # <<>>
  BY <1>3, <1>5, <1>6, BytesKnown, Zenon
<1>8. /\ r < Len(sent) /\ r + 1 \in Nat
      /\ p \in PacketRec /\ SentAs(p, r + 1)
      /\ Unread # <<>> /\ Head(Unread) = e
      /\ Tail(Unread) = UnreadOf(sent, r + 1)
      /\ Agree(bytes, e)
  BY <1>2, <1>7, NextPacket, Zenon
<1>9. /\ p = [payload |-> Assembled(k), first |-> SeqAt(0), last |-> SeqAt(k), legal |-> TRUE]
      /\ Len(e) <= Len(bytes)
      /\ RestAfter(k) = SubSeq(bytes, Len(e) + 1, Len(bytes))
  BY <1>2, <1>3, <1>5, <1>8, WholePacket, Zenon
<1>10. received' = Append(received, p) /\ bytes' = SubSeq(bytes, Len(e) + 1, Len(bytes))
  BY <1>3, <1>9, Zenon
<1>11. Size(p) <= MaxPacketSize
  <2>1. k * U24_MAX + LengthOf(k) = Size(p)
    BY <1>3, <1>5, <1>8, LastFrameIsLast, Zenon
  <2>2. ~(k * U24_MAX + LengthOf(k) > MaxPacketSize)
    BY <1>2, <1>3, <1>6, Zenon DEF TooLarge
  <2>3. ~(Size(p) > MaxPacketSize)
    BY <2>1, <2>2, Zenon
  <2>4. Size(p) \in Nat /\ MaxPacketSize \in Nat
    BY <1>8, FramingAssumption DEF PacketRec, Size
  <2>5. QED  BY <2>3, <2>4
<1>12. p = sent[r + 1]
  BY DEF Refused
<1> HIDE DEF p, e
<1>13. /\ received' \in Seq(PacketRec) /\ Len(received') = r + 1 /\ received'[r + 1] = p
       /\ \A i \in 1 .. r : received'[i] = received[i]
  BY <1>5, <1>8, <1>10
<1>14. PICK cut \in Seq(Nat) : InStream(cut)
  BY <1>1, <1>2 DEF Streamed
<1>15. /\ Spells(bytes, wire, cut, Unread)
       /\ ~closed => cut = unwritten
       /\ cut # <<>> => sent # <<>> /\ Len(cut) <= Len(Encoded(sent[Len(sent)], Len(sent)))
  BY <1>14, Zenon DEF InStream
<1>16. /\ bytes' \in Seq(Nat)
       /\ Spells(bytes', wire, cut, Tail(Unread))
  <2>1. Unread \in Seq(Seq(Nat))
    BY <1>1, Reading, Zenon
  <2>2. /\ Dropped(bytes, Head(Unread)) \in Seq(Nat)
        /\ Spells(Dropped(bytes, Head(Unread)), wire, cut, Tail(Unread))
    BY <1>5, <1>8, <1>9, <1>15, <2>1, JoinedAgrees, Zenon
  <2>3. QED  BY <1>8, <1>9, <1>10, <2>2, Zenon DEF Dropped
<1>17. TypeOK'
  BY <1>1, <1>4, <1>13, <1>16 DEF TypeOK
<1>18. Sound'
  <2>1. \A i \in 1 .. r + 1 : i \in 1 .. r \/ i = r + 1
    BY <1>8
  <2>2. \A i \in 1 .. r : received[i] = sent[i] /\ Size(received[i]) <= MaxPacketSize
    BY <1>1 DEF Sound
  <2>3. \A i \in 1 .. r + 1 : received'[i] = sent[i] /\ Size(received'[i]) <= MaxPacketSize
    BY <1>11, <1>12, <1>13, <2>1, <2>2, Zenon
  <2>4. r + 1 <= Len(sent)
    BY <1>5, <1>8
  <2>5. \A i \in 1 .. Len(sent) : SentAs(sent[i], i)
    BY <1>1 DEF Sound
  <2>6. QED  BY <1>4, <1>13, <2>3, <2>4, <2>5 DEF Sound
<1>19. Streamed'
  <2>1. Unread' = UnreadOf(sent, r + 1)
    BY <1>4, <1>13 DEF Unread
  <2>2. Spells(bytes', wire', cut, Unread')
    BY <1>4, <1>8, <1>16, <2>1, Zenon
  <2>3. ~closed' => cut = unwritten'
    BY <1>4, <1>15
  <2>4. QED  BY <1>4, <1>15, <2>2, <2>3, StreamedNext, Zenon
<1>20. Ended'
  BY <1>1, <1>2, <1>4 DEF Ended, RefusesOnlyBad, EndIsClean
<1>21. QED  BY <1>17, <1>18, <1>19, <1>20 DEF Inv

(* Every packet takes four bytes at least, so what is cut off of the last  *)
(* one, when there is nothing else, is all of it or of nothing.            *)
LEMMA NothingElse ==
  ASSUME Inv, NEW cut \in Seq(Nat), cut = FlattenSeq(Unread),
         cut # <<>> => sent # <<>> /\ Len(cut) <= Len(Encoded(sent[Len(sent)], Len(sent)))
  PROVE  Len(sent) - Len(received) \in {0, 1}
<1> DEFINE m == Len(sent)
           r == Len(received)
           s == Front(sent)
           p == sent[m]
           e == Encoded(p, m)
           v == UnreadOf(s, r)
<1>1. TypeOK /\ Sound /\ sent \in Seq(PacketRec) /\ r \in Nat /\ m \in Nat /\ r <= m
  BY Reading DEF Inv, TypeOK
<1> SUFFICES ASSUME m - r # 0, m - r # 1 PROVE FALSE
  OBVIOUS
<1>2. r + 1 <= m - 1 /\ m - 1 \in Nat /\ r + 1 \in Nat
  BY <1>1
<1>3. /\ s \in Seq(PacketRec) /\ Len(s) = m - 1 /\ sent = Append(s, p) /\ p \in PacketRec
      /\ m = Len(s) + 1
  <2>1. s = SubSeq(sent, 1, m - 1)
    BY DEF Front
  <2>2. QED  BY <1>1, <1>2, <2>1
<1> HIDE DEF s, p
<1>4. Unread = Append(v, e)
  <2>1. r <= Len(s)
    BY <1>1, <1>2, <1>3
  <2>2. UnreadOf(Append(s, p), r) = Append(UnreadOf(s, r), Encoded(p, Len(s) + 1))
    BY <1>1, <1>3, <2>1, UnreadAppend, Zenon
  <2>3. QED  BY <1>3, <2>2, Zenon DEF Unread
<1>5. v \in Seq(Seq(Nat)) /\ v # <<>> /\ Head(v) = Encoded(s[r + 1], r + 1)
  <2>1. r + 1 <= Len(s) /\ r <= Len(s)
    BY <1>1, <1>2, <1>3
  <2>2. QED  BY <1>1, <1>3, <2>1, UnreadShape, UnreadTail, Zenon
<1>6. Len(Head(v)) >= 4
  <2>1. s[r + 1] \in PacketRec
    BY <1>1, <1>2, <1>3
  <2> DEFINE q == s[r + 1]
             N == FrameCount(Size(q))
  <2>2. /\ N \in Nat \ {0} /\ FrameSize(Size(q), N - 1) \in Nat
        /\ Len(Encoded(q, r + 1)) = Start(N - 1) + 4 + FrameSize(Size(q), N - 1)
    <3> HIDE DEF q
    <3>1. /\ N \in Nat \ {0}
          /\ Len(Encoded(q, r + 1)) = Start(N - 1) + 4 + FrameSize(Size(q), N - 1)
          /\ \A k \in 0 .. N - 1 : FrameSize(Size(q), k) \in Nat
      BY <1>2, <2>1, EncodedShape, Zenon DEF q
    <3>2. N - 1 \in 0 .. N - 1
      BY <3>1
    <3>3. QED  BY <3>1, <3>2, Zenon
  <2> HIDE DEF q, N
  <2>3. N - 1 \in Nat
    BY <2>2
  <2>4. Start(N - 1) \in Nat
    BY <2>3, Starts, Zenon
  <2>5. Start(N - 1) + 4 + FrameSize(Size(q), N - 1) >= 4
    BY <2>2, <2>4
  <2>6. QED  BY <1>5, <2>2, <2>5, Zenon DEF q
<1> HIDE DEF v
<1>7. e \in Seq(Nat)
  BY <1>1, <1>3, EncodedShape, Zenon
<1>8. cut = FlattenSeq(v) \o e /\ Len(cut) = Len(FlattenSeq(v)) + Len(e)
  <2>1. FlattenSeq(v) \in Seq(Nat)
    BY <1>5, FlattenSeqType
  <2>2. cut = FlattenSeq(v) \o e
    BY <1>4, <1>5, <1>7, FlattenSeqAppend
  <2>3. Len(FlattenSeq(v) \o e) = Len(FlattenSeq(v)) + Len(e)
    BY <1>7, <2>1
  <2>4. QED  BY <2>2, <2>3
<1>9. Len(FlattenSeq(v)) \in Nat /\ Len(FlattenSeq(v)) >= 4
  <2> DEFINE h == Head(v)
             o == FlattenSeq(Tail(v))
  <2>1. h \in Seq(Nat) /\ Tail(v) \in Seq(Seq(Nat))
    BY <1>5
  <2>2. o \in Seq(Nat)
    BY <2>1, FlattenSeqType
  <2>3. FlattenSeq(v) = h \o o
    BY <1>5, FlattenSeqFirst
  <2>4. Len(h) >= 4
    BY <1>6
  <2> HIDE DEF h, o
  <2>5. Len(h \o o) = Len(h) + Len(o) /\ Len(h) \in Nat /\ Len(o) \in Nat
    BY <2>1, <2>2
  <2>6. QED  BY <2>3, <2>4, <2>5
<1>10. Len(e) \in Nat
  BY <1>7
<1>11. Len(cut) > Len(e) /\ Len(cut) # 0
  BY <1>8, <1>9, <1>10
<1>12. cut # <<>>
  <2>1. Len(<<>>) = 0
    OBVIOUS
  <2>2. QED  BY <1>11, <2>1
<1>13. Len(cut) <= Len(e)
  BY <1>12, Zenon DEF p
<1>14. Len(cut) \in Nat
  OBVIOUS
<1>15. QED  BY <1>10, <1>11, <1>13, <1>14

LEMMA EndStep ==
  ASSUME Inv, ReadEnd
  PROVE  Inv'
<1>1. TypeOK /\ Sound /\ Streamed /\ Ended
  BY DEF Inv
<1>2. outcome = "reading" /\ wire = <<>> /\ closed
      /\ outcome' = (IF bytes = <<>> THEN "end" ELSE "truncated")
      /\ UNCHANGED <<sender, seq, unwritten, wire, closed, bytes, sent, received>>
  BY DEF ReadEnd, Fails, EndOfStream
<1>3. Sound'
  BY <1>2, SameHistory
<1>4. TypeOK'
  BY <1>1, <1>2 DEF TypeOK, Outcome
<1>5. Streamed'
  BY <1>2 DEF Streamed
<1>6. ASSUME bytes = <<>> PROVE received = sent \/ received = Front(sent)
  <2>1. PICK cut \in Seq(Nat) : InStream(cut)
    BY <1>1, <1>2 DEF Streamed
  <2>2. /\ Spells(<<>>, <<>>, cut, Unread)
        /\ cut # <<>> => sent # <<>> /\ Len(cut) <= Len(Encoded(sent[Len(sent)], Len(sent)))
    BY <1>2, <1>6, <2>1, Zenon DEF InStream
  <2>3. cut = FlattenSeq(Unread)
    <3>1. <<>> \in Seq(Nat)
      OBVIOUS
    <3>2. Joined(<<>>, <<>>, cut) = cut
      BY <3>1, JoinedType
    <3>3. QED  BY <2>2, <3>2, Zenon DEF Spells
  <2>4. Len(sent) - Len(received) \in {0, 1}
    BY <2>2, <2>3, NothingElse, Zenon
  <2>5. sent \in Seq(PacketRec) /\ received \in Seq(PacketRec)
    BY <1>1 DEF TypeOK
  <2>6. \A i \in 1 .. Len(received) : received[i] = sent[i]
    BY <1>1 DEF Sound
  <2>7. CASE Len(sent) - Len(received) = 0
    <3>1. Len(sent) = Len(received)
      BY <2>5, <2>7
    <3>2. received = sent
      BY <2>5, <2>6, <3>1, SeqEqual
    <3>3. QED  BY <3>2
  <2>8. CASE Len(sent) - Len(received) = 1
    <3> DEFINE f == Front(sent)
    <3>1. f = SubSeq(sent, 1, Len(sent) - 1)
      BY DEF Front
    <3>2. f \in Seq(PacketRec) /\ Len(f) = Len(received) /\ \A i \in 1 .. Len(received) : f[i] = sent[i]
      BY <2>5, <2>8, <3>1
    <3> HIDE DEF f
    <3>3. \A i \in 1 .. Len(received) : received[i] = f[i]
      BY <2>6, <3>2
    <3>4. received = f
      BY <2>5, <3>2, <3>3, SeqEqual
    <3>5. QED  BY <3>4 DEF f
  <2>9. QED  BY <2>4, <2>7, <2>8
<1>7. EndIsClean'
  BY <1>2, <1>6 DEF EndIsClean
<1>8. Ended'
  BY <1>1, <1>2, <1>7 DEF Ended, RefusesOnlyBad
<1>9. QED  BY <1>3, <1>4, <1>5, <1>8 DEF Inv

-----------------------------------------------------------------------------
LEMMA InitHolds == Init => Inv
<1> SUFFICES ASSUME Init PROVE Inv
  OBVIOUS
<1>1. /\ sender \in {"server", "client"} /\ seq \in 0 .. SeqModulus - 1
      /\ unwritten = <<>> /\ wire = <<>> /\ bytes = <<>>
      /\ closed = FALSE /\ outcome = "reading" /\ sent = <<>> /\ received = <<>>
  BY FramingAssumption DEF Init
<1>2. <<>> \in Seq(Nat) /\ <<>> \in Seq(PacketRec) /\ Len(<<>>) = 0
  OBVIOUS
<1>3. TypeOK
  BY <1>1, <1>2 DEF TypeOK, Outcome
<1>4. Sound
  BY <1>1, <1>2 DEF Sound
<1>5. InStream(<<>>)
  <2>1. Unread = <<>>
    <3>1. Unread \in Seq(Seq(Nat)) /\ Len(Unread) = 0
      BY <1>1, <1>3, <1>4, Reading
    <3>2. QED  BY <3>1
  <2>2. Joined(<<>>, <<>>, <<>>) = <<>>
    BY <1>2, JoinedType
  <2>3. Spells(bytes, wire, <<>>, Unread)
    BY <1>1, <2>1, <2>2, FlattenSeqEmpty, Zenon DEF Spells
  <2>4. QED  BY <1>1, <2>3, Zenon DEF InStream
<1>6. Streamed
  BY <1>2, <1>5 DEF Streamed
<1>7. Ended
  BY <1>1 DEF Ended, RefusesOnlyBad, EndIsClean
<1>8. QED  BY <1>3, <1>4, <1>6, <1>7 DEF Inv

LEMMA StutterHolds ==
  ASSUME Inv, UNCHANGED vars
  PROVE  Inv'
<1>1. Sound' /\ Unread' = Unread
  BY SameHistory DEF vars
<1>2. TypeOK'
  BY DEF Inv, TypeOK, vars
<1>3. Ended'
  BY SameEnd DEF Inv, Ended, vars
<1>4. Streamed'
  <2>1. ASSUME NEW cut \in Seq(Nat), InStream(cut), outcome = "reading" PROVE Streamed'
    <3>1. /\ Spells(bytes, wire, cut, Unread)
          /\ ~closed => cut = unwritten
          /\ cut # <<>> => sent # <<>> /\ Len(cut) <= Len(Encoded(sent[Len(sent)], Len(sent)))
      BY <2>1, Zenon DEF InStream
    <3>2. bytes' = bytes /\ wire' = wire /\ closed' = closed /\ unwritten' = unwritten /\ sent' = sent
      BY DEF vars
    <3>3. Spells(bytes', wire', cut, Unread')
      BY <1>1, <3>1, <3>2, Zenon
    <3>4. ~closed' => cut = unwritten'
      BY <3>1, <3>2
    <3>5. QED  BY <3>1, <3>2, <3>3, <3>4, StreamedNext, Zenon
  <2>2. outcome # "reading" => Streamed'
    BY DEF Streamed, vars
  <2>3. QED  BY <2>1, <2>2 DEF Inv, Streamed
<1>5. QED  BY <1>1, <1>2, <1>3, <1>4 DEF Inv

LEMMA NextHolds == Inv /\ [Next]_vars => Inv'
<1> SUFFICES ASSUME Inv, [Next]_vars PROVE Inv'
  OBVIOUS
<1>1. ASSUME NEW size \in PayloadSize, WritePacket(size) PROVE Inv'
  <2>1. CanSend
    BY <1>1 DEF WritePacket
  <2>2. PICK p \in PacketRec : SentAs(p, Len(sent) + 1) /\ Sends(p)
    BY <1>1, ServerSends DEF Inv
  <2>3. QED  BY <2>1, <2>2, SendStep
<1>2. ASSUME NEW size \in PayloadSize, NEW skip \in BOOLEAN, ClientSends(size, skip) PROVE Inv'
  <2>1. CanSend
    BY <1>2 DEF ClientSends
  <2>2. PICK p \in PacketRec : SentAs(p, Len(sent) + 1) /\ Sends(p)
    BY <1>2, ClientSendsPacket DEF Inv
  <2>3. QED  BY <2>1, <2>2, SendStep
<1>3. CASE WriteChunks
  BY <1>3, WriteStep
<1>4. CASE Closes
  BY <1>4, CloseStep
<1>5. CASE Reader
  BY <1>5, RefuseStep, ReturnStep, ReadStep, EndStep DEF Reader
<1>6. CASE ReadTimesOut
  BY <1>6, TimeoutStep
<1>7. CASE UNCHANGED vars
  BY <1>7, StutterHolds
<1>8. QED  BY <1>1, <1>2, <1>3, <1>4, <1>5, <1>6, <1>7, Zenon DEF Next

(* Between the sender and the reader no byte is lost, added or moved, and  *)
(* what the reader has ended with is justified.                            *)
THEOREM StreamsHold == Spec => []Inv
<1>1. QED  BY InitHolds, NextHolds, PTL DEF Spec

(* However the stream is cut into reads, and wherever it breaks, the       *)
(* packets PacketReader::next returns are the first ones sent: whole, in   *)
(* order, with their payload and their sequence ids, and none illegal.     *)
THEOREM PacketsComeAsSent == Spec => []ReceivedAsSent
<1>1. Inv => ReceivedAsSent
  <2> SUFFICES ASSUME Inv PROVE ReceivedAsSent
    OBVIOUS
  <2>1. /\ sent \in Seq(PacketRec) /\ received \in Seq(PacketRec)
        /\ Len(received) <= Len(sent)
        /\ \A i \in 1 .. Len(received) : received[i] = sent[i]
    BY DEF Inv, TypeOK, Sound
  <2> DEFINE f == SubSeq(sent, 1, Len(received))
  <2>2. f \in Seq(PacketRec) /\ Len(f) = Len(received) /\ \A i \in 1 .. Len(received) : f[i] = sent[i]
    BY <2>1
  <2> HIDE DEF f
  <2>3. \A i \in 1 .. Len(received) : received[i] = f[i]
    BY <2>1, <2>2
  <2>4. received = f
    BY <2>1, <2>2, <2>3, SeqEqual
  <2>5. QED  BY <2>1, <2>4 DEF ReceivedAsSent, IsPrefix, f
<1>2. QED  BY <1>1, StreamsHold, PTL

(* ensure_packet_limit refuses only a packet that is above the limit, and  *)
(* the check of the sequence ids only one whose ids do not follow.         *)
THEOREM OnlyBadIsRefused == Spec => []RefusesOnlyBad
<1>1. Inv => RefusesOnlyBad
  BY DEF Inv, Ended
<1>2. QED  BY <1>1, StreamsHold, PTL

(* No packet above the limit is returned, in one frame or in many.         *)
THEOREM LimitIsKept == Spec => []LimitHolds
<1>1. Inv => LimitHolds
  <2> SUFFICES ASSUME Inv PROVE LimitHolds
    OBVIOUS
  <2>1. received \in Seq(PacketRec) /\ \A i \in 1 .. Len(received) : Size(received[i]) <= MaxPacketSize
    BY DEF Inv, TypeOK, Sound
  <2>2. DOMAIN received = 1 .. Len(received)
    BY <2>1
  <2>3. QED  BY <2>1, <2>2 DEF LimitHolds, Size
<1>2. QED  BY <1>1, StreamsHold, PTL

(* The reader reports the end of the stream only between two packets, and  *)
(* only the last packet handed to the sender can then be missing.          *)
THEOREM EndsAreClean == Spec => []EndIsClean
<1>1. Inv => EndIsClean
  BY DEF Inv, Ended
<1>2. QED  BY <1>1, StreamsHold, PTL

=============================================================================
