------------------------ MODULE BufferedOutputProofs ------------------------
(***************************************************************************)
(* Proofs about BufferedOutput: for every buffer capacity, flush threshold,*)
(* socket and frame size, whatever the stream takes of header and chunk at *)
(* a time, what leaves the server is the frames of its replies.            *)
(*                                                                         *)
(* Wherever the server is in a reply, the chunks it has finished and those *)
(* it has yet to write are the chunks of the replies begun; and what it    *)
(* has let go of is the finished frames and the bytes its offsets count.   *)
(***************************************************************************)
EXTENDS BufferedOutput, SequenceInduction

-----------------------------------------------------------------------------
(* Frames, put together from the sizes of chunks.                          *)

OutByte == Nat \X Nat

FrameBytes(k, n) == [i \in 1 .. n |-> <<k, i>>]

FramesOf(sizes) == [k \in DOMAIN sizes |-> FrameBytes(k, HeaderSize + sizes[k])]
Stuffed(sizes) == FlattenSeq(FramesOf(sizes))

ChunkLists(payloads) == [j \in DOMAIN payloads |-> Chunks(payloads[j])]
ChunksOf(payloads) == FlattenSeq(ChunkLists(payloads))

SizeLists(rs) == [i \in DOMAIN rs |-> ChunksOf(rs[i])]
Sizes(rs) == FlattenSeq(SizeLists(rs))

(* The bytes behind the first o of frame k.                                *)
Behind(k, o, n) == [i \in 1 .. n |-> <<k, o + i>>]

LEMMA IntendedSizes == Intended = Stuffed(Sizes(replies))
BY DEF Intended, Stuffed, Sizes, FramesOf, SizeLists, ChunksOf, ChunkLists, FrameBytes

LEMMA Constants ==
  HeaderSize \in Nat \ {0} /\ U24_MAX \in Nat \ {0}
BY OutputAssumption

LEMMA ChunkSizes ==
  ASSUME NEW size \in Nat
  PROVE  Chunks(size) \in Seq(Nat) /\ Len(Chunks(size)) \in Nat \ {0} /\ Chunks(size) # <<>>
<1> DEFINE q == size \div U24_MAX
           r == size % U24_MAX
           f == Chunks(size)
<1>1. q \in Nat /\ r \in Nat
  <2>1. q \in Nat /\ r \in 0 .. U24_MAX - 1 /\ U24_MAX \in Nat
    BY Constants, Quotient
  <2>2. QED  BY <2>1
<1>2. f = [k \in 1 .. q + 1 |-> IF k <= q THEN U24_MAX ELSE r]
  BY DEF Chunks
<1> HIDE DEF q, r, f
<1>3. \A k \in 1 .. q + 1 : f[k] \in Nat
  BY <1>2, Constants, <1>1
<1>4. f = [k \in 1 .. q + 1 |-> f[k]] /\ q + 1 \in Nat
  BY <1>1, <1>2
<1>5. f \in Seq(Nat) /\ Len(f) = q + 1
  BY <1>3, <1>4, FunctionIsSequence
<1>6. QED  BY <1>1, <1>5 DEF f

(* The same, element by element, of a sequence.                            *)
LEMMA ChunkListsAre ==
  ASSUME NEW p \in Seq(Nat)
  PROVE  /\ ChunkLists(p) \in Seq(Seq(Nat)) /\ Len(ChunkLists(p)) = Len(p)
         /\ \A j \in 1 .. Len(p) : ChunkLists(p)[j] = Chunks(p[j])
<1> DEFINE f == ChunkLists(p)
<1>1. f = [j \in 1 .. Len(p) |-> Chunks(p[j])] /\ Len(p) \in Nat
  BY DEF ChunkLists
<1>2. \A j \in 1 .. Len(p) : p[j] \in Nat
  OBVIOUS
<1>3. \A j \in 1 .. Len(p) : Chunks(p[j]) \in Seq(Nat)
  BY <1>2, ChunkSizes, Zenon
<1> HIDE DEF f
<1>4. f = [j \in 1 .. Len(p) |-> f[j]] /\ \A j \in 1 .. Len(p) : f[j] \in Seq(Nat)
  BY <1>1, <1>3, Zenon
<1>5. f \in Seq(Seq(Nat)) /\ Len(f) = Len(p)
  BY <1>1, <1>4, FunctionIsSequence
<1>6. QED  BY <1>1, <1>5, Zenon DEF f

LEMMA ChunksOfType ==
  ASSUME NEW p \in Seq(Nat)
  PROVE  ChunksOf(p) \in Seq(Nat)
BY ChunkListsAre, FlattenSeqType, Zenon DEF ChunksOf

LEMMA ChunksOfEmpty == ChunksOf(<<>>) = <<>>
<1>1. <<>> \in Seq(Nat) /\ Len(<<>>) = 0
  OBVIOUS
<1>2. ChunkLists(<<>>) \in Seq(Seq(Nat)) /\ Len(ChunkLists(<<>>)) = 0
  BY <1>1, ChunkListsAre, Zenon
<1>3. ChunkLists(<<>>) = <<>>
  BY <1>2
<1>4. QED  BY <1>3, FlattenSeqEmpty, Zenon DEF ChunksOf

LEMMA ChunksOfFirst ==
  ASSUME NEW p \in Seq(Nat), p # <<>>
  PROVE  ChunksOf(p) = Chunks(Head(p)) \o ChunksOf(Tail(p))
<1> DEFINE f == ChunkLists(p)
           g == ChunkLists(Tail(p))
           n == Len(p)
<1>1. /\ Tail(p) \in Seq(Nat) /\ Len(Tail(p)) = n - 1 /\ n \in Nat \ {0} /\ Head(p) = p[1]
      /\ \A j \in 1 .. n - 1 : Tail(p)[j] = p[j + 1] /\ j + 1 \in 1 .. n
  OBVIOUS
<1>2. f \in Seq(Seq(Nat)) /\ Len(f) = n /\ \A j \in 1 .. n : f[j] = Chunks(p[j])
  BY ChunkListsAre, Zenon
<1>3. g \in Seq(Seq(Nat)) /\ Len(g) = n - 1 /\ \A j \in 1 .. n - 1 : g[j] = Chunks(Tail(p)[j])
  <2>1. g \in Seq(Seq(Nat)) /\ Len(g) = Len(Tail(p)) /\ \A j \in 1 .. Len(Tail(p)) : g[j] = Chunks(Tail(p)[j])
    BY <1>1, ChunkListsAre, Zenon
  <2>2. QED  BY <1>1, <2>1, Zenon
<1>4. \A j \in 1 .. n - 1 : g[j] = f[j + 1]
  BY <1>1, <1>2, <1>3, Zenon
<1> HIDE DEF f, g
<1>5. f # <<>> /\ Head(f) = f[1] /\ 1 \in 1 .. n
  BY <1>1, <1>2
<1>6. Tail(f) = g
  <2> DEFINE t == Tail(f)
  <2>1. t \in Seq(Seq(Nat)) /\ Len(t) = n - 1 /\ \A j \in 1 .. n - 1 : t[j] = f[j + 1]
    BY <1>1, <1>2, <1>5, HeadTailProperties
  <2> HIDE DEF t
  <2>2. \A j \in 1 .. n - 1 : t[j] = g[j]
    BY <1>4, <2>1
  <2>3. t = g
    BY <1>3, <2>1, <2>2, SeqEqual
  <2>4. QED  BY <2>3 DEF t
<1>7. FlattenSeq(f) = Head(f) \o FlattenSeq(Tail(f))
  BY <1>2, <1>5, FlattenSeqFirst
<1>8. Head(f) = Chunks(Head(p))
  BY <1>1, <1>2, <1>5, Zenon
<1>9. QED  BY <1>6, <1>7, <1>8, Zenon DEF ChunksOf, f, g

LEMMA SizesAppend ==
  ASSUME NEW rs \in Seq(Seq(Nat)), NEW reply \in Seq(Nat)
  PROVE  Sizes(rs) \in Seq(Nat) /\ Sizes(Append(rs, reply)) = Sizes(rs) \o ChunksOf(reply)
<1> DEFINE f == SizeLists(rs)
           t == Append(rs, reply)
           g == SizeLists(t)
           n == Len(rs)
           c == ChunksOf(reply)
<1>1. n \in Nat /\ t \in Seq(Seq(Nat)) /\ Len(t) = n + 1 /\ t[n + 1] = reply
      /\ \A i \in 1 .. n : t[i] = rs[i] /\ rs[i] \in Seq(Nat)
  OBVIOUS
<1>2. c \in Seq(Nat)
  BY ChunksOfType
<1>3. f = [i \in 1 .. n |-> ChunksOf(rs[i])]
  BY <1>1 DEF SizeLists
<1>4. f \in Seq(Seq(Nat)) /\ Len(f) = n
  <2>1. \A i \in 1 .. n : ChunksOf(rs[i]) \in Seq(Nat)
    BY <1>1, ChunksOfType, Zenon
  <2> HIDE DEF f
  <2>2. f = [i \in 1 .. n |-> f[i]] /\ \A i \in 1 .. n : f[i] \in Seq(Nat)
    BY <1>3, <2>1, Zenon
  <2>3. QED  BY <1>1, <2>2, FunctionIsSequence
<1> HIDE DEF t
<1>5. g = [i \in 1 .. n + 1 |-> ChunksOf(t[i])]
  BY <1>1 DEF SizeLists
<1>6. g = Append(f, c)
  <2> DEFINE h == Append(f, c)
  <2>1. h \in Seq(Seq(Nat)) /\ Len(h) = n + 1 /\ h[n + 1] = c /\ \A i \in 1 .. n : h[i] = f[i]
    <3> HIDE DEF f, c
    <3>1. QED  BY <1>2, <1>4
  <2> HIDE DEF f, c, h
  <2>2. \A i \in 1 .. n + 1 : h[i] = ChunksOf(t[i])
    <3>1. \A i \in 1 .. n : h[i] = ChunksOf(t[i])
      BY <1>1, <1>3, <2>1, Zenon
    <3>2. h[n + 1] = ChunksOf(t[n + 1])
      BY <1>1, <2>1, Zenon DEF c
    <3>3. \A i \in 1 .. n + 1 : i \in 1 .. n \/ i = n + 1
      BY <1>1
    <3>4. QED  BY <3>1, <3>2, <3>3, Zenon
  <2>3. h = [i \in 1 .. n + 1 |-> h[i]]
    BY <2>1
  <2>4. h = [i \in 1 .. n + 1 |-> ChunksOf(t[i])]
    BY <2>2, <2>3, Zenon
  <2>5. QED  BY <1>5, <2>4 DEF h
<1> HIDE DEF f, g, c
<1>7. FlattenSeq(Append(f, c)) = FlattenSeq(f) \o c
  BY <1>2, <1>4, FlattenSeqAppend
<1>8. FlattenSeq(f) \in Seq(Nat)
  BY <1>4, FlattenSeqType
<1>9. QED  BY <1>6, <1>7, <1>8, Zenon DEF Sizes, f, g, t, c

-----------------------------------------------------------------------------
(* The bytes of frames.                                                    *)

LEMMA BytesAre ==
  ASSUME NEW k \in Nat, NEW o \in Nat, NEW n \in Nat
  PROVE  /\ FrameBytes(k, n) \in Seq(OutByte) /\ Len(FrameBytes(k, n)) = n
         /\ Behind(k, o, n) \in Seq(OutByte) /\ Len(Behind(k, o, n)) = n
         /\ FrameBytes(k, o) \o Behind(k, o, n) = FrameBytes(k, o + n)
<1> DEFINE f == FrameBytes(k, o)
           g == FrameBytes(k, o + n)
           b == Behind(k, o, n)
<1>1. \A i \in Nat : <<k, i>> \in OutByte /\ <<k, o + i>> \in OutByte
  BY DEF OutByte
<1>2. ASSUME NEW m \in Nat
      PROVE  /\ FrameBytes(k, m) \in Seq(OutByte) /\ Len(FrameBytes(k, m)) = m
             /\ \A i \in 1 .. m : FrameBytes(k, m)[i] = <<k, i>>
  <2> DEFINE h == FrameBytes(k, m)
  <2>1. h = [i \in 1 .. m |-> <<k, i>>]
    BY DEF FrameBytes
  <2>2. \A i \in 1 .. m : i \in Nat
    OBVIOUS
  <2> HIDE DEF h
  <2>3. h = [i \in 1 .. m |-> h[i]] /\ \A i \in 1 .. m : h[i] = <<k, i>> /\ h[i] \in OutByte
    BY <1>1, <2>1, <2>2, Zenon
  <2>4. h \in Seq(OutByte) /\ Len(h) = m
    BY <2>3, FunctionIsSequence
  <2>5. QED  BY <2>3, <2>4, Zenon DEF h
<1>3. b \in Seq(OutByte) /\ Len(b) = n /\ \A i \in 1 .. n : b[i] = <<k, o + i>>
  <2>1. b = [i \in 1 .. n |-> <<k, o + i>>]
    BY DEF Behind
  <2>2. \A i \in 1 .. n : i \in Nat
    OBVIOUS
  <2> HIDE DEF b
  <2>3. b = [i \in 1 .. n |-> b[i]] /\ \A i \in 1 .. n : b[i] = <<k, o + i>> /\ b[i] \in OutByte
    BY <1>1, <2>1, <2>2, Zenon
  <2>4. b \in Seq(OutByte) /\ Len(b) = n
    BY <2>3, FunctionIsSequence
  <2>5. QED  BY <2>3, <2>4, Zenon
<1>4. f \in Seq(OutByte) /\ Len(f) = o /\ \A i \in 1 .. o : f[i] = <<k, i>>
  BY <1>2, Zenon
<1>5. g \in Seq(OutByte) /\ Len(g) = o + n /\ \A i \in 1 .. o + n : g[i] = <<k, i>>
  <2>1. o + n \in Nat
    OBVIOUS
  <2>2. QED  BY <1>2, <2>1, Zenon
<1> HIDE DEF f, g, b
<1> DEFINE fb == f \o b
<1>6. /\ fb \in Seq(OutByte) /\ Len(fb) = o + n
      /\ \A i \in 1 .. o : fb[i] = f[i]
      /\ \A i \in 1 .. n : fb[o + i] = b[i]
  <2>1. /\ f \o b \in Seq(OutByte) /\ Len(f \o b) = Len(f) + Len(b)
        /\ \A i \in 1 .. Len(f) : (f \o b)[i] = f[i]
        /\ \A i \in 1 .. Len(b) : (f \o b)[Len(f) + i] = b[i]
    <3>1. f \in Seq(OutByte) /\ b \in Seq(OutByte)
      BY <1>3, <1>4
    <3>2. QED  BY <3>1, Concatenated
  <2>2. QED  BY <1>3, <1>4, <2>1, Zenon
<1> HIDE DEF fb
<1>7. ASSUME NEW i \in 1 .. o + n PROVE fb[i] = g[i]
  <2>1. CASE i <= o
    <3>1. i \in 1 .. o
      BY <2>1
    <3>2. QED  BY <1>4, <1>5, <1>6, <3>1, Zenon
  <2>2. CASE ~(i <= o)
    <3>1. i - o \in 1 .. n /\ o + (i - o) = i
      BY <2>2
    <3>2. fb[i] = b[i - o] /\ b[i - o] = <<k, o + (i - o)>>
      BY <1>3, <1>6, <3>1
    <3>3. QED  BY <1>5, <3>1, <3>2, Zenon
  <2>3. QED  BY <2>1, <2>2
<1>8. fb = g
  BY <1>5, <1>6, <1>7, SeqEqual
<1>9. QED  BY <1>2, <1>3, <1>8, Zenon DEF f, g, b, fb

LEMMA FirstBehind ==
  ASSUME NEW k \in Nat, NEW o \in Nat, NEW n \in Nat, NEW m \in 0 .. n
  PROVE  SubSeq(Behind(k, o, n), 1, m) = Behind(k, o, m)
<1> DEFINE b == Behind(k, o, n)
           c == Behind(k, o, m)
           s == SubSeq(b, 1, m)
<1>1. b \in Seq(OutByte) /\ Len(b) = n /\ \A i \in 1 .. n : b[i] = <<k, o + i>>
  <2>1. b = [i \in 1 .. n |-> <<k, o + i>>]
    BY DEF Behind
  <2>2. \A i \in 1 .. n : b[i] = <<k, o + i>>
    BY <2>1, Zenon
  <2>3. QED  BY <2>2, BytesAre, Zenon
<1>2. c \in Seq(OutByte) /\ Len(c) = m /\ \A i \in 1 .. m : c[i] = <<k, o + i>>
  <2>1. c = [i \in 1 .. m |-> <<k, o + i>>] /\ m \in Nat
    BY DEF Behind
  <2>2. \A i \in 1 .. m : c[i] = <<k, o + i>>
    BY <2>1, Zenon
  <2>3. QED  BY <2>1, <2>2, BytesAre, Zenon
<1> HIDE DEF b, c
<1>3. s \in Seq(OutByte) /\ Len(s) = m /\ \A i \in 1 .. m : s[i] = b[i]
  BY <1>1
<1> HIDE DEF s
<1>4. \A i \in 1 .. m : i \in 1 .. n
  OBVIOUS
<1>5. s = c
  BY <1>1, <1>2, <1>3, <1>4, SeqEqual
<1>6. QED  BY <1>5 DEF s, b, c

LEMMA FramesAre ==
  ASSUME NEW sizes \in Seq(Nat), NEW first \in Nat
  PROVE  LET fs == [k \in 1 .. Len(sizes) |-> FrameBytes(first + k, HeaderSize + sizes[k])]
         IN  fs \in Seq(Seq(OutByte)) /\ Len(fs) = Len(sizes)
<1> DEFINE fs == [k \in 1 .. Len(sizes) |-> FrameBytes(first + k, HeaderSize + sizes[k])]
<1>1. \A k \in 1 .. Len(sizes) : first + k \in Nat /\ HeaderSize + sizes[k] \in Nat
  <2>1. HeaderSize \in Nat
    BY Constants
  <2>2. \A k \in 1 .. Len(sizes) : sizes[k] \in Nat
    OBVIOUS
  <2>3. QED  BY <2>1, <2>2
<1>2. \A k \in 1 .. Len(sizes) : FrameBytes(first + k, HeaderSize + sizes[k]) \in Seq(OutByte)
  BY <1>1, BytesAre, Zenon
<1>3. fs = [k \in 1 .. Len(sizes) |-> fs[k]] /\ \A k \in 1 .. Len(sizes) : fs[k] \in Seq(OutByte)
  BY <1>2, Zenon
<1>4. Len(sizes) \in Nat
  OBVIOUS
<1> HIDE DEF fs
<1>5. fs \in Seq(Seq(OutByte)) /\ Len(fs) = Len(sizes)
  BY <1>3, <1>4, FunctionIsSequence
<1>6. QED  BY <1>5 DEF fs

(* Frames of sizes in two groups.                                          *)
LEMMA StuffedInTwo ==
  ASSUME NEW done \in Seq(Nat), NEW left \in Seq(Nat)
  PROVE  /\ Stuffed(done) \in Seq(OutByte)
         /\ \E y \in Seq(OutByte) : Stuffed(done \o left) = Stuffed(done) \o y
<1> DEFINE all == done \o left
           m == Len(done)
           n == Len(left)
           ds == [k \in 1 .. m |-> FrameBytes(0 + k, HeaderSize + done[k])]
           ls == [k \in 1 .. n |-> FrameBytes(m + k, HeaderSize + left[k])]
           as == [k \in 1 .. m + n |-> FrameBytes(0 + k, HeaderSize + all[k])]
<1>1. /\ m \in Nat /\ n \in Nat /\ all \in Seq(Nat) /\ Len(all) = m + n
      /\ \A i \in 1 .. m : all[i] = done[i]
      /\ \A i \in 1 .. n : all[m + i] = left[i]
  BY Concatenated
<1> HIDE DEF all
<1>2. ds \in Seq(Seq(OutByte)) /\ Len(ds) = m
  <2>1. 0 \in Nat
    OBVIOUS
  <2>2. QED  BY <2>1, FramesAre, Zenon
<1>3. ls \in Seq(Seq(OutByte)) /\ Len(ls) = n
  BY <1>1, FramesAre, Zenon
<1>4. as \in Seq(Seq(OutByte)) /\ Len(as) = m + n
  <2>1. 0 \in Nat
    OBVIOUS
  <2>2. LET fs == [k \in 1 .. Len(all) |-> FrameBytes(0 + k, HeaderSize + all[k])]
        IN  fs \in Seq(Seq(OutByte)) /\ Len(fs) = Len(all)
    BY <1>1, <2>1, FramesAre, Zenon
  <2>3. QED  BY <1>1, <2>2, Zenon
<1>5. \A k \in Nat : 0 + k = k
  OBVIOUS
<1>6. FramesOf(done) = ds /\ FramesOf(all) = as
  <2>1. DOMAIN done = 1 .. m /\ DOMAIN all = 1 .. m + n
    BY <1>1
  <2>2. \A k \in 1 .. m : 0 + k = k
    OBVIOUS
  <2>3. \A k \in 1 .. m + n : 0 + k = k
    OBVIOUS
  <2>4. QED  BY <2>1, <2>2, <2>3, Zenon DEF FramesOf
<1>7. \A k \in 1 .. m : as[k] = ds[k]
  <2>1. \A k \in 1 .. m : k \in 1 .. m + n
    BY <1>1
  <2>2. QED  BY <1>1, <2>1, Zenon
<1>8. \A k \in 1 .. n : as[m + k] = ls[k]
  <2>1. \A k \in 1 .. n : m + k \in 1 .. m + n /\ 0 + (m + k) = m + k
    BY <1>1
  <2>2. \A k \in 1 .. n : as[m + k] = FrameBytes(0 + (m + k), HeaderSize + all[m + k])
    BY <2>1, Zenon
  <2>3. QED  BY <1>1, <2>1, <2>2, Zenon
<1> HIDE DEF ds, ls, as, m, n
<1> DEFINE dl == ds \o ls
<1>9. /\ dl \in Seq(Seq(OutByte)) /\ Len(dl) = m + n
      /\ \A i \in 1 .. m : dl[i] = ds[i]
      /\ \A i \in 1 .. n : dl[m + i] = ls[i]
  <2>1. /\ ds \o ls \in Seq(Seq(OutByte)) /\ Len(ds \o ls) = Len(ds) + Len(ls)
        /\ \A i \in 1 .. Len(ds) : (ds \o ls)[i] = ds[i]
        /\ \A i \in 1 .. Len(ls) : (ds \o ls)[Len(ds) + i] = ls[i]
    <3> DEFINE T == Seq(OutByte)
    <3>1. ds \in Seq(T) /\ ls \in Seq(T)
      BY <1>2, <1>3
    <3> HIDE DEF T
    <3>2. /\ ds \o ls \in Seq(T) /\ Len(ds \o ls) = Len(ds) + Len(ls)
          /\ \A i \in 1 .. Len(ds) : (ds \o ls)[i] = ds[i]
          /\ \A i \in 1 .. Len(ls) : (ds \o ls)[Len(ds) + i] = ls[i]
      BY <3>1, Concatenated
    <3>3. QED  BY <3>2, Zenon DEF T
  <2>2. QED  BY <1>2, <1>3, <2>1, Zenon
<1>10. as = dl
  <2> HIDE DEF dl
  <2>1. ASSUME NEW i \in 1 .. m + n PROVE as[i] = dl[i]
    <3>1. CASE i <= m
      <4>1. i \in 1 .. m
        BY <3>1
      <4>2. QED  BY <1>7, <1>9, <4>1, Zenon
    <3>2. CASE ~(i <= m)
      <4>1. i - m \in 1 .. n /\ m + (i - m) = i
        BY <1>1, <3>2
      <4>2. as[m + (i - m)] = ls[i - m] /\ dl[m + (i - m)] = ls[i - m]
        BY <1>8, <1>9, <4>1, Zenon
      <4>3. QED  BY <4>1, <4>2, Zenon
    <3>3. QED  BY <3>1, <3>2
  <2>2. QED  BY <1>4, <1>9, <2>1, SeqEqual
<1>11. FlattenSeq(dl) = FlattenSeq(ds) \o FlattenSeq(ls)
  BY <1>2, <1>3, FlattenSeqConcat
<1>12. FlattenSeq(ds) \in Seq(OutByte) /\ FlattenSeq(ls) \in Seq(OutByte)
  BY <1>2, <1>3, FlattenSeqType
<1>13. Stuffed(done) = FlattenSeq(ds) /\ Stuffed(all) = FlattenSeq(ds) \o FlattenSeq(ls)
  BY <1>6, <1>10, <1>11, Zenon DEF Stuffed
<1>14. QED  BY <1>12, <1>13, Zenon DEF all

LEMMA StuffedMore ==
  ASSUME NEW done \in Seq(Nat), NEW c \in Nat
  PROVE  Stuffed(Append(done, c)) = Stuffed(done) \o FrameBytes(Len(done) + 1, HeaderSize + c)
<1> DEFINE t == Append(done, c)
           n == Len(done)
           fs == FramesOf(done)
           gs == FramesOf(t)
           x == FrameBytes(n + 1, HeaderSize + c)
<1>1. n \in Nat /\ DOMAIN done = 1 .. n /\ DOMAIN t = 1 .. n + 1 /\ t[n + 1] = c
      /\ \A i \in 1 .. n : t[i] = done[i] /\ done[i] \in Nat
  OBVIOUS
<1>2. HeaderSize \in Nat
  BY Constants
<1>3. x \in Seq(OutByte)
  <2>1. n + 1 \in Nat /\ HeaderSize + c \in Nat
    BY <1>1, <1>2
  <2>2. QED  BY <2>1, BytesAre, Zenon
<1>4. fs = [k \in 1 .. n |-> FrameBytes(k, HeaderSize + done[k])]
      /\ gs = [k \in 1 .. n + 1 |-> FrameBytes(k, HeaderSize + t[k])]
  BY <1>1, Zenon DEF FramesOf
<1>5. fs \in Seq(Seq(OutByte)) /\ Len(fs) = n
  <2>1. \A k \in 1 .. n : k \in Nat /\ HeaderSize + done[k] \in Nat
    BY <1>1, <1>2
  <2>2. \A k \in 1 .. n : FrameBytes(k, HeaderSize + done[k]) \in Seq(OutByte)
    BY <2>1, BytesAre, Zenon
  <2> HIDE DEF fs
  <2>3. fs = [k \in 1 .. n |-> fs[k]] /\ \A k \in 1 .. n : fs[k] \in Seq(OutByte)
    BY <1>4, <2>2, Zenon
  <2>4. QED  BY <1>1, <2>3, FunctionIsSequence
<1> HIDE DEF fs, gs, x, t
<1>6. gs = Append(fs, x)
  <2> DEFINE h == Append(fs, x)
  <2>1. h \in Seq(Seq(OutByte)) /\ Len(h) = n + 1 /\ h[n + 1] = x /\ \A i \in 1 .. n : h[i] = fs[i]
    BY <1>3, <1>5
  <2> HIDE DEF h
  <2>2. h = [i \in 1 .. n + 1 |-> h[i]]
    BY <2>1
  <2>3. \A i \in 1 .. n + 1 : i \in 1 .. n \/ i = n + 1
    BY <1>1
  <2>4. \A i \in 1 .. n : h[i] = FrameBytes(i, HeaderSize + t[i])
    BY <1>1, <1>4, <2>1, Zenon
  <2>5. h[n + 1] = FrameBytes(n + 1, HeaderSize + t[n + 1])
    BY <1>1, <2>1, Zenon DEF x
  <2>6. \A i \in 1 .. n + 1 : h[i] = FrameBytes(i, HeaderSize + t[i])
    BY <2>3, <2>4, <2>5, Zenon
  <2>7. h = [k \in 1 .. n + 1 |-> FrameBytes(k, HeaderSize + t[k])]
    BY <2>2, <2>6, Zenon
  <2>8. QED  BY <1>4, <2>7 DEF h
<1>7. FlattenSeq(Append(fs, x)) = FlattenSeq(fs) \o x
  BY <1>3, <1>5, FlattenSeqAppend
<1>8. QED  BY <1>6, <1>7, Zenon DEF Stuffed, fs, gs, x, t

GoesOn(k, o, m, n) == Behind(k, o, m) \o Behind(k, o + m, n) = Behind(k, o, m + n)

LEMMA BehindMore ==
  ASSUME NEW k \in Nat, NEW o \in Nat, NEW m \in Nat, NEW n \in Nat
  PROVE  GoesOn(k, o, m, n)
<1> DEFINE f == FrameBytes(k, o)
           a == Behind(k, o, m)
           b == Behind(k, o + m, n)
           c == Behind(k, o, m + n)
<1>1. o + m \in Nat /\ m + n \in Nat /\ (o + m) + n = o + (m + n)
  OBVIOUS
<1>2. /\ a \in Seq(OutByte) /\ Len(a) = m
      /\ b \in Seq(OutByte) /\ Len(b) = n
      /\ c \in Seq(OutByte) /\ Len(c) = m + n
  BY <1>1, BytesAre, ZenonT(90)
<1>3. /\ \A i \in 1 .. m : a[i] = <<k, o + i>>
      /\ \A i \in 1 .. n : b[i] = <<k, (o + m) + i>>
      /\ \A i \in 1 .. m + n : c[i] = <<k, o + i>>
  BY Zenon DEF Behind
<1> HIDE DEF a, b, c
<1> DEFINE ab == a \o b
<1>4. /\ ab \in Seq(OutByte) /\ Len(ab) = m + n
      /\ \A i \in 1 .. m : ab[i] = a[i]
      /\ \A i \in 1 .. n : ab[m + i] = b[i]
  <2>1. /\ a \o b \in Seq(OutByte) /\ Len(a \o b) = Len(a) + Len(b)
        /\ \A i \in 1 .. Len(a) : (a \o b)[i] = a[i]
        /\ \A i \in 1 .. Len(b) : (a \o b)[Len(a) + i] = b[i]
    <3>1. a \in Seq(OutByte) /\ b \in Seq(OutByte)
      BY <1>2
    <3>2. QED  BY <3>1, Concatenated
  <2>2. QED  BY <1>2, <2>1, Zenon
<1> HIDE DEF ab
<1>5. ASSUME NEW i \in 1 .. m + n PROVE ab[i] = c[i]
  <2>1. CASE i <= m
    <3>1. i \in 1 .. m
      BY <2>1
    <3>2. QED  BY <1>3, <1>4, <3>1, Zenon
  <2>2. CASE ~(i <= m)
    <3>1. i - m \in 1 .. n /\ m + (i - m) = i /\ (o + m) + (i - m) = o + i
      BY <2>2
    <3>2. ab[m + (i - m)] = <<k, (o + m) + (i - m)>>
      BY <1>3, <1>4, <3>1, Zenon
    <3>3. QED  BY <1>3, <3>1, <3>2, Zenon
  <2>3. QED  BY <2>1, <2>2
<1>6. ab = c
  BY <1>2, <1>4, <1>5, SeqEqual
<1>7. QED  BY <1>6 DEF a, b, c, ab, GoesOn

-----------------------------------------------------------------------------
(* The invariant.                                                          *)

OutputOK ==
  /\ packets \in Seq(Nat) /\ chunks \in Seq(Nat)
  /\ frame \in Nat /\ header_offset \in Nat /\ chunk_offset \in Nat

(* Where write_chunk stands in a frame: behind the header only if all of   *)
(* that is out.                                                            *)
InFrame ==
  server = "writing" =>
    /\ packets # <<>> /\ chunks # <<>>
    /\ header_offset <= HeaderSize /\ chunk_offset <= Head(chunks)
    /\ chunk_offset # 0 => header_offset = HeaderSize

TypeOK ==
  /\ setup \in [capacity : Capacities, threshold : Thresholds, write_timeout : BOOLEAN,
                vectored : BOOLEAN, client : Clients]
  /\ server \in {"reading", "writing", "flushing", "closed"}
  /\ OutputOK
  /\ written \in Nat /\ buffered \in Seq(OutByte) /\ written <= Len(buffered)
  /\ socket \in Seq(OutByte) /\ received \in Seq(OutByte)
  /\ replies \in Seq(Seq(Nat))

AtRest == server = "reading" => buffered = <<>> /\ packets = <<>>

Held(b, w) == SubSeq(b, w + 1, Len(b))
Out == Joined(received, socket, Held(buffered, written))

(* What is left of the replies begun, and what is out of the frame begun.  *)
Left == IF server = "writing" THEN chunks \o ChunksOf(Tail(packets)) ELSE ChunksOf(packets)
Offset == header_offset + chunk_offset
Begun == IF server = "writing" THEN FrameBytes(frame, Offset) ELSE <<>>

(* The chunks done and left are those of the replies; the bytes out are    *)
(* the frames of those done and what has begun behind them.                *)
Remains(rs, done, left) == Sizes(rs) = done \o left
Lies(out, done, begun) == out = Stuffed(done) \o begun

Progress(done) ==
  /\ Remains(replies, done, Left)
  /\ frame = IF server = "writing" THEN Len(done) + 1 ELSE Len(done)
  /\ Lies(Out, done, Begun)

Accounted == server # "closed" => \E done \in Seq(Nat) : Progress(done)
Ended == server = "closed" => \E rest \in Seq(OutByte) : Intended = Out \o rest

OutputInv == TypeOK /\ InFrame /\ AtRest /\ Accounted /\ Ended

-----------------------------------------------------------------------------
(* The slices offered are the next bytes of the frame.                     *)

Whole == HeaderSize + Head(chunks)

LEMMA SlicesAre ==
  ASSUME OutputOK, InFrame, server = "writing"
  PROVE  /\ Offset \in Nat /\ Whole \in Nat /\ Offset <= Whole
         /\ \E n \in 0 .. Whole - Offset : First = Behind(frame, Offset, n)
         /\ \E n \in 0 .. Whole - Offset : Taken = Behind(frame, Offset, n)
<1> DEFINE c == Head(chunks)
           h == HeaderSize - header_offset
<1>1. /\ HeaderSize \in Nat /\ frame \in Nat /\ header_offset \in Nat /\ chunk_offset \in Nat
      /\ c \in Nat /\ h \in Nat /\ chunk_offset <= c
      /\ chunk_offset # 0 => header_offset = HeaderSize
  BY Constants DEF OutputOK, InFrame
<1>2. Offset = header_offset + chunk_offset /\ Whole = HeaderSize + c
  BY DEF Offset, Whole
<1>3. Header = Behind(frame, header_offset, h)
  BY DEF Header, Behind
<1>4. Chunk = Behind(frame, HeaderSize + chunk_offset, c - chunk_offset)
  BY DEF Chunk, Behind
<1> HIDE DEF c, h
<1>5. CASE h > 0
  <2>1. chunk_offset = 0 /\ Offset = header_offset /\ header_offset + h = HeaderSize
        /\ c - chunk_offset = c /\ HeaderSize + chunk_offset = HeaderSize
        /\ Whole - Offset = h + c
    BY <1>1, <1>2, <1>5 DEF h
  <2>2. Header = Behind(frame, Offset, h) /\ Chunk = Behind(frame, Offset + h, c)
    BY <1>3, <1>4, <2>1, Zenon
  <2>3. Header \o Chunk = Behind(frame, Offset, h + c)
    <3>1. Offset \in Nat
      BY <1>1, <2>1
    <3>2. GoesOn(frame, Offset, h, c)
      BY <1>1, <3>1, BehindMore, Zenon
    <3>3. QED  BY <2>2, <3>2, Zenon DEF GoesOn
  <2>4. Header # <<>>
    <3>1. Len(Header) = h
      BY <1>1, <1>3, BytesAre, ZenonT(90)
    <3>2. QED  BY <1>5, <3>1
  <2>5. First \in {Header, Header \o Chunk} /\ Taken \in {First, Header \o Chunk}
    BY <2>4, Zenon DEF First, Taken
  <2>6. h \in 0 .. Whole - Offset /\ h + c \in 0 .. Whole - Offset
    BY <1>1, <2>1
  <2>7. First = Behind(frame, Offset, h) \/ First = Behind(frame, Offset, h + c)
    BY <2>2, <2>3, <2>5, Zenon
  <2>8. Taken = Behind(frame, Offset, h) \/ Taken = Behind(frame, Offset, h + c)
    BY <2>3, <2>5, <2>7, Zenon
  <2>9. Offset \in Nat /\ Whole \in Nat /\ Offset <= Whole
    BY <1>1, <1>2, <2>1
  <2>10. QED  BY <2>6, <2>7, <2>8, <2>9, Zenon
<1>6. CASE ~(h > 0)
  <2>1. h = 0 /\ header_offset = HeaderSize /\ Offset = HeaderSize + chunk_offset
        /\ c - chunk_offset \in 0 .. Whole - Offset
        /\ Offset \in Nat /\ Whole \in Nat /\ Offset <= Whole /\ c - chunk_offset \in Nat
    BY <1>1, <1>2, <1>6 DEF h
  <2>2. Chunk = Behind(frame, Offset, c - chunk_offset)
    BY <1>4, <2>1, Zenon
  <2>3. Header = <<>>
    <3>1. Header \in Seq(OutByte) /\ Len(Header) = h
      BY <1>1, <1>3, BytesAre, ZenonT(90)
    <3>2. QED  BY <2>1, <3>1
  <2>4. Header \o Chunk = Chunk
    <3>1. Chunk \in Seq(OutByte)
      BY <1>1, <2>1, <2>2, BytesAre, Zenon
    <3>2. QED  BY <2>3, <3>1
  <2>5. First = Chunk /\ Taken = First
    BY <2>3, <2>4, Zenon DEF First, Taken
  <2>6. QED  BY <2>1, <2>2, <2>5, Zenon
<1>7. QED  BY <1>5, <1>6, Zenon

-----------------------------------------------------------------------------
(* Steps of write_packet.                                                  *)

LEMMA BeginsNext ==
  ASSUME NEW p \in Seq(Nat), p # <<>>, NEW done \in Seq(Nat), frame \in Nat, Begins(p),
         Remains(replies', done, ChunksOf(p)), frame = Len(done), Out' = Stuffed(done)
  PROVE  server' = "writing" /\ OutputOK' /\ InFrame' /\ Progress(done)'
<1>1. /\ packets' = p /\ chunks' = Chunks(Head(p)) /\ frame' = frame + 1
      /\ header_offset' = 0 /\ chunk_offset' = 0 /\ server' = "writing"
  BY DEF Begins
<1>2. Head(p) \in Nat /\ Tail(p) \in Seq(Nat)
  OBVIOUS
<1>3. Chunks(Head(p)) \in Seq(Nat) /\ Chunks(Head(p)) # <<>>
  BY <1>2, ChunkSizes, Zenon
<1>4. OutputOK'
  BY <1>1, <1>3 DEF OutputOK
<1>5. InFrame'
  <2>1. HeaderSize \in Nat
    BY Constants
  <2>2. Head(Chunks(Head(p))) \in Nat
    BY <1>3
  <2>3. 0 <= HeaderSize /\ 0 <= Head(Chunks(Head(p)))
    <3> DEFINE h == Head(Chunks(Head(p)))
    <3>1. h \in Nat
      BY <2>2
    <3> HIDE DEF h
    <3>2. 0 <= h /\ 0 <= HeaderSize
      BY <2>1, <3>1
    <3>3. QED  BY <3>2 DEF h
  <2>4. QED  BY <1>1, <1>3, <2>3, Zenon DEF InFrame
<1>6. Left' = ChunksOf(p)
  <2>1. Left' = Chunks(Head(p)) \o ChunksOf(Tail(p))
    BY <1>1, Zenon DEF Left
  <2>2. ChunksOf(p) = Chunks(Head(p)) \o ChunksOf(Tail(p))
    BY ChunksOfFirst
  <2>3. QED  BY <2>1, <2>2, Zenon
<1>7. Begun' = <<>>
  <2>1. Begun' = FrameBytes(frame', Offset') /\ Offset' = 0
    BY <1>1 DEF Begun, Offset
  <2>2. FrameBytes(frame', 0) = <<>>
    BY DEF FrameBytes
  <2>3. QED  BY <2>1, <2>2, Zenon
<1>8. Lies(Out', done, <<>>)
  <2> DEFINE t == Stuffed(done)
  <2>1. t \in Seq(OutByte)
    <3>1. <<>> \in Seq(Nat)
      OBVIOUS
    <3>2. QED  BY <3>1, StuffedInTwo, Zenon
  <2> HIDE DEF t
  <2>2. t = t \o <<>>
    BY <2>1
  <2>3. QED  BY <2>2 DEF Lies, t
<1>9. frame' = Len(done) + 1
  BY <1>1
<1>10. Progress(done)'
  BY <1>1, <1>6, <1>7, <1>8, <1>9, Zenon DEF Progress
<1>11. QED  BY <1>1, <1>4, <1>5, <1>10, Zenon

(* n more bytes of the frame.                                              *)
LEMMA OffsetsAre ==
  ASSUME OutputOK, InFrame, server = "writing", NEW n \in 0 .. Whole - Offset
  PROVE  /\ Offsets(n)[1] \in 0 .. HeaderSize /\ Offsets(n)[2] \in 0 .. Head(chunks)
         /\ Offsets(n)[1] + Offsets(n)[2] = Offset + n
         /\ Offsets(n)[2] # 0 => Offsets(n)[1] = HeaderSize
<1>1. /\ HeaderSize \in Nat /\ header_offset \in 0 .. HeaderSize
      /\ Head(chunks) \in Nat /\ chunk_offset \in 0 .. Head(chunks)
      /\ chunk_offset # 0 => header_offset = HeaderSize
  BY Constants DEF OutputOK, InFrame
<1>2. Offset = header_offset + chunk_offset /\ Whole = HeaderSize + Head(chunks)
  BY DEF Offset, Whole
<1> DEFINE c == Head(chunks)
           first == Offsets(n)[1]
           second == Offsets(n)[2]
<1>3. c \in Nat /\ chunk_offset \in 0 .. c /\ n \in 0 .. (HeaderSize + c) - (header_offset + chunk_offset)
  BY <1>1, <1>2
<1> HIDE DEF c
<1>4. first \in 0 .. HeaderSize /\ second \in 0 .. c
      /\ first + second = Offset + n /\ (second # 0 => first = HeaderSize)
  <2>1. CASE n < HeaderSize - header_offset
    BY <1>1, <1>3, <2>1 DEF Offsets, Offset
  <2>2. CASE ~(n < HeaderSize - header_offset)
    BY <1>1, <1>3, <2>2 DEF Offsets, Offset
  <2>3. QED  BY <2>1, <2>2
<1> HIDE DEF first, second
<1>5. QED  BY <1>4 DEF c, first, second

(* They lie behind what was out, and the rest of a whole frame is nothing. *)
IsSum(m, o, n) == m = o + n
Grows(out, k, o, n, longer) == longer = out \o Behind(k, o, n)

Completes(longer, done, k, m) ==
  \A c \in Nat : k = Len(done) + 1 /\ m = HeaderSize + c => longer = Stuffed(Append(done, c))

LEMMA BytesLie ==
  ASSUME NEW done \in Seq(Nat), NEW k \in Nat, NEW o \in Nat, NEW n \in Nat, NEW m, IsSum(m, o, n),
         NEW out, Lies(out, done, FrameBytes(k, o)), NEW longer, Grows(out, k, o, n, longer)
  PROVE  Lies(longer, done, FrameBytes(k, m)) /\ Completes(longer, done, k, m)
<1> DEFINE t == Stuffed(done)
           f == FrameBytes(k, o)
           b == Behind(k, o, n)
           tf == t \o f
           fb == f \o b
<1>1. t \in Seq(OutByte)
  <2>1. <<>> \in Seq(Nat)
    OBVIOUS
  <2>2. QED  BY <2>1, StuffedInTwo, Zenon
<1>2. f \in Seq(OutByte) /\ b \in Seq(OutByte) /\ fb = FrameBytes(k, o + n)
  BY BytesAre
<1>3. out = tf
  BY DEF Lies
<1>4. tf \o b = t \o fb
  <2> HIDE DEF t, f, b
  <2>1. t \in Seq(OutByte) /\ f \in Seq(OutByte) /\ b \in Seq(OutByte)
    BY <1>1, <1>2
  <2>2. QED  BY SMTT(60), <2>1, Associativity
<1>5. out \o b = t \o FrameBytes(k, m)
  BY <1>2, <1>3, <1>4, Zenon DEF IsSum
<1>6. ASSUME NEW c \in Nat, k = Len(done) + 1, m = HeaderSize + c
      PROVE  out \o b = Stuffed(Append(done, c))
  <2>1. Stuffed(Append(done, c)) = t \o FrameBytes(Len(done) + 1, HeaderSize + c)
    BY StuffedMore
  <2>2. QED  BY <1>5, <1>6, <2>1, Zenon
<1>7. longer = out \o b
  BY Zenon DEF Grows
<1>8. QED  BY <1>5, <1>6, <1>7, Zenon DEF Lies, Completes

LEMMA Advances ==
  ASSUME OutputOK, InFrame, server = "writing", UNCHANGED replies,
         NEW done \in Seq(Nat), Progress(done),
         NEW n \in 0 .. Whole - Offset, Advance(n), Grows(Out, frame, Offset, n, Out')
  PROVE  /\ server' \in {"writing", "flushing"} /\ OutputOK' /\ InFrame'
         /\ \E d \in Seq(Nat) : Progress(d)'
<1> DEFINE c == Head(chunks)
           rest == ChunksOf(Tail(packets))
           more == Append(done, c)
           first == Offsets(n)[1]
           second == Offsets(n)[2]
<1>1. /\ packets \in Seq(Nat) /\ packets # <<>> /\ Tail(packets) \in Seq(Nat)
      /\ chunks \in Seq(Nat) /\ chunks # <<>> /\ c \in Nat /\ Tail(chunks) \in Seq(Nat)
      /\ HeaderSize \in Nat /\ frame \in Nat /\ header_offset \in Nat /\ chunk_offset \in Nat
  BY Constants DEF OutputOK, InFrame
<1>2. /\ first \in 0 .. HeaderSize /\ second \in 0 .. c /\ first + second = Offset + n
      /\ second # 0 => first = HeaderSize
  BY OffsetsAre, Zenon
<1>3. rest \in Seq(Nat)
  BY <1>1, ChunksOfType, Zenon
<1>4. /\ Remains(replies, done, chunks \o rest) /\ frame = Len(done) + 1
      /\ Lies(Out, done, FrameBytes(frame, Offset))
  BY Zenon DEF Progress, Left, Begun
<1>5. Offset \in Nat /\ Whole = HeaderSize + c /\ n \in Nat
  BY <1>1 DEF Offset, Whole
<1>6. /\ Lies(Out', done, FrameBytes(frame, Offset + n))
      /\ Offset + n = HeaderSize + c => Out' = Stuffed(more)
  <2> DEFINE m == Offset + n
  <2>1. m = Offset + n /\ IsSum(m, Offset, n)
    BY DEF IsSum
  <2> HIDE DEF m
  <2>2. Lies(Out', done, FrameBytes(frame, m)) /\ Completes(Out', done, frame, m)
    BY <1>1, <1>4, <1>5, <2>1, BytesLie, Zenon
  <2>3. QED  BY <1>1, <1>4, <2>1, <2>2, Zenon DEF Completes
<1>7. more \in Seq(Nat) /\ Len(more) = frame /\ Remains(replies', more, Tail(chunks) \o rest)
  <2>1. /\ done \o (chunks \o rest) = Append(done, Head(chunks)) \o (Tail(chunks) \o rest)
        /\ Append(done, Head(chunks)) \in Seq(Nat)
    <3> HIDE DEF rest
    <3>1. QED  BY <1>1, <1>3, HeadMoves
  <2>2. Len(more) = Len(done) + 1
    BY <1>1
  <2>3. QED  BY <1>4, <2>1, <2>2, Zenon DEF Remains
<1> HIDE DEF c, rest, first, second
<1>8. CASE first < HeaderSize \/ second < c
  <2>1. header_offset' = first /\ chunk_offset' = second /\ UNCHANGED <<server, packets, chunks, frame>>
    BY <1>8, Zenon DEF Advance, first, second, c
  <2>2. Left' = chunks \o rest
    BY <2>1, Zenon DEF Left, rest
  <2>3. Begun' = FrameBytes(frame, Offset + n)
    <3>1. Offset' = first + second
      BY <2>1, Zenon DEF Offset
    <3>2. QED  BY <1>2, <2>1, <3>1, Zenon DEF Begun
  <2>4. Progress(done)'
    BY <1>4, <1>6, <2>1, <2>2, <2>3, Zenon DEF Progress
  <2>5. OutputOK' /\ InFrame'
    <3>1. first \in Nat /\ second \in Nat /\ first <= HeaderSize /\ second <= c
      BY <1>1, <1>2
    <3>2. OutputOK'
      BY <1>1, <2>1, <3>1 DEF OutputOK
    <3>3. InFrame'
      BY <1>1, <1>2, <2>1, <3>1, Zenon DEF InFrame, c
    <3>4. QED  BY <3>2, <3>3
  <2>6. QED  BY <2>1, <2>4, <2>5, Zenon
<1>9. CASE ~(first < HeaderSize \/ second < c)
  <2>1. Out' = Stuffed(more)
    <3>1. first = HeaderSize /\ second = c
      BY <1>1, <1>2, <1>9
    <3>2. QED  BY <1>2, <1>6, <3>1, Zenon
  <2>2. CASE Len(chunks) > 1
    <3>1. /\ chunks' = Tail(chunks) /\ frame' = frame + 1 /\ header_offset' = 0 /\ chunk_offset' = 0
          /\ UNCHANGED <<server, packets>>
      BY <1>9, <2>2, Zenon DEF Advance, first, second, c
    <3>2. Left' = Tail(chunks) \o rest
      BY <3>1, Zenon DEF Left, rest
    <3>3. Begun' = <<>>
      <4>1. Begun' = FrameBytes(frame', Offset') /\ Offset' = 0
        BY <3>1 DEF Begun, Offset
      <4>2. FrameBytes(frame', 0) = <<>>
        BY DEF FrameBytes
      <4>3. QED  BY <4>1, <4>2, Zenon
    <3>4. Lies(Out', more, <<>>)
      <4> DEFINE t == Stuffed(more)
      <4>1. t \in Seq(OutByte)
        <5>1. <<>> \in Seq(Nat)
          OBVIOUS
        <5>2. QED  BY <1>7, <5>1, StuffedInTwo, Zenon
      <4> HIDE DEF t
      <4>2. t = t \o <<>>
        BY <4>1
      <4>3. QED  BY <2>1, <4>2, Zenon DEF Lies, t
    <3>5. PICK d \in Seq(Nat) : d = more
      BY <1>7
    <3>6. frame' = Len(d) + 1
      BY <1>7, <3>1, <3>5, Zenon
    <3>7. Progress(d)'
      BY <1>7, <3>1, <3>2, <3>3, <3>4, <3>5, <3>6, Zenon DEF Progress
    <3>8. OutputOK' /\ InFrame'
      <4>1. Tail(chunks) # <<>> /\ Head(Tail(chunks)) \in Nat
        <5> DEFINE t == Tail(chunks)
        <5>1. t \in Seq(Nat) /\ t # <<>>
          <6>1. chunks \in Seq(Nat)
            BY <1>1
          <6>2. t \in Seq(Nat) /\ Len(t) = Len(chunks) - 1 /\ Len(chunks) \in Nat
            BY <2>2, <6>1, HeadTailProperties
          <6> HIDE DEF t
          <6>3. QED  BY <2>2, <6>2
        <5> HIDE DEF t
        <5>2. Head(t) \in Nat
          BY <5>1
        <5>3. QED  BY <5>1, <5>2 DEF t
      <4>2. 0 <= HeaderSize /\ 0 <= Head(Tail(chunks)) /\ frame + 1 \in Nat /\ 0 \in Nat
        <5>1. \A h \in Nat : 0 <= h
          OBVIOUS
        <5>2. 0 <= HeaderSize /\ 0 <= Head(Tail(chunks))
          BY <1>1, <4>1, <5>1, Zenon
        <5>3. frame + 1 \in Nat /\ 0 \in Nat
          BY <1>1
        <5>4. QED  BY <5>2, <5>3, Zenon
      <4>3. OutputOK'
        BY <1>1, <3>1, <4>2, Zenon DEF OutputOK
      <4>4. InFrame'
        BY <1>1, <3>1, <4>1, <4>2, Zenon DEF InFrame
      <4>5. QED  BY <4>3, <4>4
    <3>9. QED  BY <3>1, <3>7, <3>8, Zenon
  <2>3. CASE ~(Len(chunks) > 1)
    <3>1. PacketSent
      BY <1>9, <2>3, Zenon DEF Advance, first, second, c
    <3>2. Tail(chunks) \o rest = rest
      <4>1. Tail(chunks) = <<>>
        BY <1>1, <2>3
      <4>2. <<>> \o rest = rest
        BY <1>3
      <4>3. QED  BY <4>1, <4>2, Zenon
    <3>3. PICK p \in Seq(Nat) : p = Tail(packets)
      BY <1>1
    <3>4. PICK d \in Seq(Nat) : d = more
      BY <1>7
    <3>5. Remains(replies', d, ChunksOf(p)) /\ frame = Len(d) /\ Out' = Stuffed(d)
      BY <1>7, <2>1, <3>2, <3>3, <3>4, Zenon DEF rest
    <3>6. CASE p # <<>> /\ Begins(p)
      BY <1>1, <3>5, <3>6, BeginsNext, Zenon
    <3>7. CASE /\ server' = "flushing" /\ packets' = p /\ chunks' = <<>>
               /\ UNCHANGED <<frame, header_offset, chunk_offset>>
      <4>1. OutputOK'
        <5>1. <<>> \in Seq(Nat)
          OBVIOUS
        <5>2. QED  BY <1>1, <3>7, <5>1, Zenon DEF OutputOK
      <4>2. InFrame'
        BY <3>7 DEF InFrame
      <4>3. Left' = ChunksOf(p) /\ Begun' = <<>>
        BY <3>7 DEF Left, Begun
      <4>4. Lies(Out', d, <<>>)
        <5> DEFINE t == Stuffed(d)
        <5>1. t \in Seq(OutByte)
          <6>1. <<>> \in Seq(Nat)
            OBVIOUS
          <6>2. QED  BY <6>1, StuffedInTwo, Zenon
        <5> HIDE DEF t
        <5>2. t = t \o <<>>
          BY <5>1
        <5>3. QED  BY <3>5, <5>2, Zenon DEF Lies, t
      <4>5. Progress(d)'
        <5>1. server' # "writing" /\ frame' = Len(d)
          BY <3>5, <3>7
        <5>2. QED  BY <3>5, <4>3, <4>4, <5>1, Zenon DEF Progress
      <4>6. QED  BY <3>7, <4>1, <4>2, <4>5
    <3>8. QED
      <4>1. \/ p # <<>> /\ Begins(p)
            \/ /\ server' = "flushing" /\ packets' = p /\ chunks' = <<>>
               /\ UNCHANGED <<frame, header_offset, chunk_offset>>
        BY <3>1, <3>3, Zenon DEF PacketSent
      <4>2. QED  BY <3>6, <3>7, <4>1
  <2>4. QED  BY <2>2, <2>3
<1>10. QED  BY <1>8, <1>9

-----------------------------------------------------------------------------
(* What the buffer holds back.                                             *)

LEMMA HeldIs ==
  ASSUME TypeOK
  PROVE  /\ Held(buffered, written) \in Seq(OutByte) /\ Out \in Seq(OutByte)
         /\ Held(<<>>, 0) = <<>>
<1>1. buffered \in Seq(OutByte) /\ written \in 0 .. Len(buffered)
  BY DEF TypeOK
<1>2. Held(buffered, written) \in Seq(OutByte)
  <2> DEFINE T == OutByte
  <2>1. buffered \in Seq(T)
    BY <1>1
  <2> HIDE DEF T
  <2>2. SubSeq(buffered, written + 1, Len(buffered)) \in Seq(T)
    BY <1>1, <2>1, CutInTwo
  <2>3. QED  BY <2>2 DEF Held, T
<1>3. Out \in Seq(OutByte)
  <2>1. socket \in Seq(OutByte) /\ received \in Seq(OutByte)
    BY DEF TypeOK
  <2>2. QED  BY <1>2, <2>1, JoinedType, Zenon DEF Out
<1>4. Held(<<>>, 0) = <<>>
  BY DEF Held
<1>5. QED  BY <1>2, <1>3, <1>4

LEMMA HeldMore ==
  ASSUME NEW S, NEW b \in Seq(S), NEW x \in Seq(S), NEW w \in 0 .. Len(b)
  PROVE  Held(b \o x, w) = Held(b, w) \o x
<1> DEFINE n == Len(b)
           m == Len(x)
           bx == b \o x
           h == SubSeq(b, w + 1, n)
           hx == h \o x
           k == SubSeq(bx, w + 1, n + m)
<1>1. /\ n \in Nat /\ m \in Nat /\ w \in 0 .. n
      /\ bx \in Seq(S) /\ Len(bx) = n + m
      /\ \A i \in 1 .. n : bx[i] = b[i]
      /\ \A i \in 1 .. m : bx[n + i] = x[i]
  BY Concatenated
<1> HIDE DEF bx
<1>2. h \in Seq(S) /\ Len(h) = n - w /\ \A i \in 1 .. n - w : h[i] = b[w + i]
  OBVIOUS
<1>3. k \in Seq(S) /\ Len(k) = (n + m) - w /\ \A i \in 1 .. (n + m) - w : k[i] = bx[w + i]
  BY <1>1
<1> HIDE DEF h, k
<1>4. /\ hx \in Seq(S) /\ Len(hx) = (n - w) + m
      /\ \A i \in 1 .. n - w : hx[i] = h[i]
      /\ \A i \in 1 .. m : hx[(n - w) + i] = x[i]
  <2>1. /\ h \o x \in Seq(S) /\ Len(h \o x) = Len(h) + Len(x)
        /\ \A i \in 1 .. Len(h) : (h \o x)[i] = h[i]
        /\ \A i \in 1 .. Len(x) : (h \o x)[Len(h) + i] = x[i]
    <3>1. h \in Seq(S) /\ x \in Seq(S)
      BY <1>2
    <3>2. QED  BY <3>1, Concatenated
  <2>2. QED  BY <1>2, <2>1, Zenon
<1> HIDE DEF hx, n, m
<1>5. Len(k) = Len(hx)
  BY <1>1, <1>3, <1>4
<1>6. ASSUME NEW i \in 1 .. Len(k) PROVE k[i] = hx[i]
  <2>1. CASE i <= n - w
    <3>1. i \in 1 .. n - w /\ i \in 1 .. (n + m) - w /\ w + i \in 1 .. n
      BY <1>1, <1>3, <2>1
    <3>2. QED  BY <1>1, <1>2, <1>3, <1>4, <3>1, Zenon
  <2>2. CASE ~(i <= n - w)
    <3>1. PICK j \in 1 .. m : i = (n - w) + j /\ w + i = n + j /\ i \in 1 .. (n + m) - w
      <4>1. i - (n - w) \in 1 .. m /\ i = (n - w) + (i - (n - w)) /\ w + i = n + (i - (n - w))
            /\ i \in 1 .. (n + m) - w
        BY <1>1, <1>3, <2>2
      <4>2. QED  BY <4>1, Zenon
    <3>2. k[i] = bx[n + j] /\ hx[i] = x[j]
      BY <1>3, <1>4, <3>1, Zenon
    <3>3. QED  BY <1>1, <3>2, Zenon
  <2>3. QED  BY <2>1, <2>2
<1>7. k = hx
  BY <1>3, <1>4, <1>5, <1>6, SeqEqual
<1>8. Len(bx) = n + m
  BY <1>1
<1>9. QED  BY <1>7, <1>8, Zenon DEF Held, bx, h, hx, k, n

(* More bytes of a frame out, and everything else where it was.            *)
LEMMA Grown ==
  ASSUME TypeOK, InFrame, Accounted, server = "writing", UNCHANGED replies,
         NEW n \in 0 .. Whole - Offset, Advance(n), Grows(Out, frame, Offset, n, Out')
  PROVE  /\ server' \in {"writing", "flushing"} /\ OutputOK' /\ InFrame'
         /\ AtRest' /\ Accounted' /\ Ended'
<1>1. PICK done \in Seq(Nat) : Progress(done)
  BY DEF Accounted
<1>2. /\ server' \in {"writing", "flushing"} /\ OutputOK' /\ InFrame'
      /\ \E d \in Seq(Nat) : Progress(d)'
  BY <1>1, Advances, Zenon DEF TypeOK
<1>3. server' # "reading" /\ server' # "closed"
  BY <1>2
<1>4. Accounted'
  BY <1>2, Zenon DEF Accounted
<1>5. AtRest' /\ Ended'
  BY <1>3 DEF AtRest, Ended
<1>6. QED  BY <1>2, <1>4, <1>5

LEMMA WriteBuffersStep ==
  ASSUME OutputInv, WriteBuffers
  PROVE  OutputInv'
<1>1. /\ TypeOK /\ InFrame /\ Accounted /\ server = "writing"
      /\ UNCHANGED <<setup, written, socket, received, replies>>
      /\ buffered' = buffered \o Taken /\ Advance(Len(Taken)) /\ OutputOK
  BY DEF OutputInv, WriteBuffers, TypeOK
<1>2. Offset \in Nat /\ Whole \in Nat /\ frame \in Nat
  <2>1. frame \in Nat
    BY <1>1 DEF OutputOK
  <2>2. QED  BY <1>1, <2>1, SlicesAre, Zenon
<1>3. PICK n \in 0 .. Whole - Offset : Taken = Behind(frame, Offset, n)
  BY <1>1, SlicesAre, Zenon
<1>4. n \in Nat
  BY <1>2, <1>3
<1>5. Taken \in Seq(OutByte) /\ Len(Taken) = n
  BY <1>2, <1>3, <1>4, BytesAre, Zenon
<1>6. /\ buffered \in Seq(OutByte) /\ written \in 0 .. Len(buffered)
      /\ socket \in Seq(OutByte) /\ received \in Seq(OutByte)
  BY <1>1 DEF TypeOK
<1> DEFINE T == OutByte
           x == Taken
           held == Held(buffered, written)
<1>7. x \in Seq(T) /\ buffered \in Seq(T) /\ socket \in Seq(T) /\ received \in Seq(T) /\ held \in Seq(T)
  BY <1>1, <1>5, <1>6, HeldIs, Zenon
<1> HIDE DEF T, x
<1>8. Held(buffered \o x, written) = held \o x
  BY <1>6, <1>7, HeldMore, Zenon
<1> HIDE DEF held
<1>9. Joins(Joined(received, socket, held), x, Joined(received, socket, held \o x))
  BY <1>7, JoinedTo, Zenon
<1>10. Out' = Out \o x
  <2>1. Out' = Joined(received, socket, Held(buffered \o x, written))
    BY <1>1, Zenon DEF Out, x
  <2>2. QED  BY <1>8, <1>9, <2>1, Zenon DEF Out, held, Joins
<1>11. Grows(Out, frame, Offset, n, Out')
  BY <1>3, <1>10, Zenon DEF Grows, x
<1>12. Advance(n)
  BY <1>1, <1>5, Zenon
<1>13. /\ server' \in {"writing", "flushing"} /\ OutputOK' /\ InFrame'
       /\ AtRest' /\ Accounted' /\ Ended'
  BY <1>1, <1>11, <1>12, Grown, Zenon
<1>14. buffered \o x \in Seq(T) /\ written <= Len(buffered \o x) /\ written \in Nat
  <2>1. buffered \o x \in Seq(T) /\ Len(buffered \o x) = Len(buffered) + Len(x)
        /\ Len(x) \in Nat /\ Len(buffered) \in Nat
    BY <1>7, Concatenated
  <2> HIDE DEF x
  <2> DEFINE bx == buffered \o x
  <2>2. Len(bx) = Len(buffered) + Len(x)
    BY <2>1
  <2> HIDE DEF bx
  <2>3. written <= Len(bx) /\ written \in Nat
    BY <1>6, <2>1, <2>2
  <2>4. QED  BY <2>1, <2>3, Zenon DEF bx
<1>15. TypeOK'
  <2>1. buffered' \in Seq(OutByte) /\ written' <= Len(buffered') /\ written' \in Nat
    BY <1>1, <1>14, Zenon DEF T, x
  <2>2. server' \in {"reading", "writing", "flushing", "closed"}
    BY <1>13
  <2>3. QED  BY <1>1, <1>13, <2>1, <2>2, Zenon DEF TypeOK
<1>16. QED  BY <1>13, <1>15 DEF OutputInv

LEMMA WriteThroughStep ==
  ASSUME OutputInv, WriteThrough
  PROVE  OutputInv'
<1>1. /\ TypeOK /\ InFrame /\ Accounted /\ server = "writing" /\ OutputOK
      /\ UNCHANGED <<setup, buffered, written, received, replies>>
  BY DEF OutputInv, WriteThrough, TypeOK
<1>2. PICK n \in 1 .. Len(First) : socket' = socket \o SubSeq(First, 1, n) /\ Advance(n)
  BY DEF WriteThrough
<1>3. Offset \in Nat /\ Whole \in Nat /\ frame \in Nat
  <2>1. frame \in Nat
    BY <1>1 DEF OutputOK
  <2>2. QED  BY <1>1, <2>1, SlicesAre, Zenon
<1>4. PICK size \in 0 .. Whole - Offset : First = Behind(frame, Offset, size)
  BY <1>1, SlicesAre, Zenon
<1>5. size \in Nat
  BY <1>3, <1>4
<1>6. Len(First) = size
  BY <1>3, <1>4, <1>5, BytesAre, Zenon
<1>7. n \in 0 .. size /\ n \in 0 .. Whole - Offset /\ n \in Nat
  BY <1>2, <1>3, <1>4, <1>6
<1>8. SubSeq(First, 1, n) = Behind(frame, Offset, n)
  <2>1. SubSeq(Behind(frame, Offset, size), 1, n) = Behind(frame, Offset, n)
    BY <1>3, <1>5, <1>7, FirstBehind
  <2>2. QED  BY <1>4, <2>1, Zenon
<1>9. buffered = <<>> /\ written = 0
  <2>1. buffered \in Seq(OutByte) /\ written \in Nat /\ written <= Len(buffered) /\ setup.capacity \in Nat
    BY <1>1, OutputAssumption DEF TypeOK
  <2>2. CASE Fits
    <3>1. size <= setup.capacity - Len(buffered) /\ size >= setup.capacity
      BY <1>6, <2>2 DEF Fits, WriteThrough
    <3>2. Len(buffered) = 0
      BY <1>5, <2>1, <3>1
    <3>3. QED  BY <2>1, <3>2
  <2>3. CASE ~Fits
    <3>1. buffered = <<>>
      BY <1>1, <2>3 DEF Spills, WriteThrough
    <3>2. QED  BY <2>1, <3>1
  <2>4. QED  BY <2>2, <2>3
<1> DEFINE T == OutByte
           x == Behind(frame, Offset, n)
<1>10. socket \in Seq(T) /\ received \in Seq(T) /\ x \in Seq(T)
  <2>1. socket \in Seq(OutByte) /\ received \in Seq(OutByte)
    BY <1>1 DEF TypeOK
  <2>2. QED  BY <1>3, <1>7, <2>1, BytesAre, Zenon
<1> HIDE DEF T, x
<1>11. Joins(Joined(received, socket, <<>>), x, Joined(received, socket \o x, <<>>))
  BY <1>10, JoinedThrough, Zenon
<1>12. Out = Joined(received, socket, <<>>) /\ Out' = Joined(received, socket \o x, <<>>)
  <2>1. Held(<<>>, 0) = <<>>
    BY <1>1, HeldIs, Zenon
  <2>2. QED  BY <1>1, <1>2, <1>8, <1>9, <2>1, Zenon DEF Out, x
<1>13. Grows(Out, frame, Offset, n, Out')
  BY <1>11, <1>12, Zenon DEF Grows, Joins, x
<1>14. /\ server' \in {"writing", "flushing"} /\ OutputOK' /\ InFrame'
       /\ AtRest' /\ Accounted' /\ Ended'
  BY <1>1, <1>2, <1>7, <1>13, Grown, Zenon
<1>15. TypeOK'
  <2>1. socket \o x \in Seq(T)
    BY <1>10
  <2>2. socket' \in Seq(OutByte)
    BY <1>2, <1>8, <2>1, Zenon DEF T, x
  <2>3. server' \in {"reading", "writing", "flushing", "closed"}
    BY <1>14
  <2>4. QED  BY <1>1, <1>14, <2>2, <2>3, Zenon DEF TypeOK
<1>16. QED  BY <1>14, <1>15 DEF OutputInv

(* Bytes change hands, and the reply stays where it was.                   *)
LEMMA Kept ==
  ASSUME OutputOK, InFrame, Accounted, Ended, UNCHANGED <<server, output, replies>>, Out' = Out
  PROVE  OutputOK' /\ InFrame' /\ Accounted' /\ Ended'
<1>1. UNCHANGED <<packets, chunks, frame, header_offset, chunk_offset, server, replies>>
  BY DEF output
<1>2. OutputOK' /\ InFrame'
  BY <1>1, Zenon DEF OutputOK, InFrame
<1>3. Left' = Left /\ Begun' = Begun /\ Intended' = Intended
  BY <1>1, Zenon DEF Left, Begun, Offset, Intended
<1>4. ASSUME NEW done \in Seq(Nat), Progress(done) PROVE Progress(done)'
  BY <1>1, <1>3, <1>4, Zenon DEF Progress
<1>5. Accounted'
  BY <1>1, <1>4, Zenon DEF Accounted
<1>6. Ended'
  BY <1>1, <1>3, Zenon DEF Ended
<1>7. QED  BY <1>2, <1>5, <1>6

LEMMA FlushBufStep ==
  ASSUME OutputInv, FlushBuf
  PROVE  OutputInv'
<1>1. /\ TypeOK /\ InFrame /\ Accounted /\ Ended /\ OutputOK
      /\ UNCHANGED <<setup, server, output, received, replies>>
      /\ server # "reading"
  BY DEF OutputInv, FlushBuf, TypeOK, Spills
<1>2. PICK n \in 1 .. Len(buffered) - written :
        /\ socket' = socket \o SubSeq(buffered, written + 1, written + n)
        /\ IF written + n = Len(buffered)
             THEN buffered' = <<>> /\ written' = 0
             ELSE written' = written + n /\ UNCHANGED buffered
  BY DEF FlushBuf
<1> DEFINE T == OutByte
           held == SubSeq(buffered, written + 1, Len(buffered))
           x == SubSeq(held, 1, n)
           y == SubSeq(held, n + 1, Len(held))
<1>3. buffered \in Seq(T) /\ socket \in Seq(T) /\ received \in Seq(T) /\ written \in 0 .. Len(buffered)
  BY <1>1 DEF TypeOK
<1> HIDE DEF T
<1>4. n \in 0 .. Len(buffered) - written /\ Len(buffered) \in Nat /\ written \in Nat
  BY <1>2, <1>3
<1>5. /\ held \in Seq(T) /\ Len(held) = Len(buffered) - written
      /\ SubSeq(buffered, written + 1, written + n) = x
      /\ SubSeq(buffered, written + n + 1, Len(buffered)) = y
  BY <1>3, <1>4, PartOfPart
<1> HIDE DEF held
<1>6. n \in 0 .. Len(held) /\ x \in Seq(T)
  BY <1>4, <1>5, CutInTwo
<1>7. Joined(received, socket \o x, y) = Joined(received, socket, held)
  BY ZenonT(90), <1>3, <1>5, <1>6, JoinedWritten
<1> HIDE DEF x, y
<1>8. Held(buffered', written') = y /\ written' <= Len(buffered') /\ written' \in Nat /\ buffered' \in Seq(T)
  <2>1. CASE written + n = Len(buffered)
    <3>1. buffered' = <<>> /\ written' = 0 /\ n = Len(held)
      <4>1. Len(held) = Len(buffered) - written
        BY <1>5
      <4>2. n = Len(held)
        BY <1>4, <2>1, <4>1
      <4>3. QED  BY <1>2, <2>1, <4>2, Zenon
    <3>2. y = <<>>
      BY <1>5, <3>1 DEF y
    <3>3. Held(buffered', written') = <<>>
      <4>1. Held(<<>>, 0) = <<>>
        BY <1>1, HeldIs, Zenon
      <4>2. QED  BY <3>1, <4>1, Zenon
    <3>4. <<>> \in Seq(T) /\ 0 <= Len(<<>>)
      OBVIOUS
    <3>5. QED  BY <3>1, <3>2, <3>3, <3>4
  <2>2. CASE written + n # Len(buffered)
    <3>1. written' = written + n /\ buffered' = buffered
      BY <1>2, <2>2
    <3>2. Held(buffered', written') = y
      BY <1>5, <3>1, Zenon DEF Held
    <3>3. QED  BY <1>3, <1>4, <3>1, <3>2
  <2>3. QED  BY <2>1, <2>2
<1>9. Out' = Out
  BY <1>1, <1>2, <1>5, <1>7, <1>8, Zenon DEF Out, Held, held
<1>10. OutputOK' /\ InFrame' /\ Accounted' /\ Ended'
  BY <1>1, <1>9, Kept
<1>11. TypeOK'
  <2>1. socket \o x \in Seq(T)
    BY <1>3, <1>6
  <2>2. socket' \in Seq(OutByte) /\ buffered' \in Seq(OutByte)
    BY <1>2, <1>5, <1>8, <2>1, Zenon DEF T
  <2>3. QED  BY <1>1, <1>8, <1>10, <2>2, Zenon DEF TypeOK
<1>12. AtRest'
  BY <1>1 DEF AtRest
<1>13. QED  BY <1>10, <1>11, <1>12 DEF OutputInv

LEMMA ClientReadsStep ==
  ASSUME OutputInv, ClientReads
  PROVE  OutputInv'
<1>1. /\ TypeOK /\ InFrame /\ Accounted /\ Ended /\ OutputOK /\ AtRest
      /\ UNCHANGED <<setup, server, output, buffered, written, replies>>
  BY DEF OutputInv, ClientReads, TypeOK
<1>2. PICK n \in 1 .. Len(socket) :
        received' = received \o SubSeq(socket, 1, n) /\ socket' = SubSeq(socket, n + 1, Len(socket))
  BY DEF ClientReads
<1> DEFINE T == OutByte
           held == Held(buffered, written)
           x == SubSeq(socket, 1, n)
<1>3. socket \in Seq(T) /\ received \in Seq(T) /\ held \in Seq(T)
  <2>1. socket \in Seq(OutByte) /\ received \in Seq(OutByte)
    BY <1>1 DEF TypeOK
  <2>2. QED  BY <1>1, <2>1, HeldIs, Zenon
<1> HIDE DEF T, held
<1>4. n \in 0 .. Len(socket)
  BY <1>2, <1>3
<1>5. x \in Seq(T) /\ SubSeq(socket, n + 1, Len(socket)) \in Seq(T)
  BY <1>3, <1>4, CutInTwo
<1>6. Joined(received \o x, SubSeq(socket, n + 1, Len(socket)), held) = Joined(received, socket, held)
  BY <1>3, <1>4, JoinedRead
<1> HIDE DEF x
<1>7. Out' = Out
  BY <1>1, <1>2, <1>6, Zenon DEF Out, held, x
<1>8. OutputOK' /\ InFrame' /\ Accounted' /\ Ended'
  BY <1>1, <1>7, Kept
<1>9. TypeOK'
  <2>1. received \o x \in Seq(T)
    BY <1>3, <1>5
  <2>2. socket' \in Seq(OutByte) /\ received' \in Seq(OutByte)
    BY <1>2, <1>5, <2>1, Zenon DEF T, x
  <2>3. QED  BY <1>1, <1>8, <2>2, Zenon DEF TypeOK
<1>10. AtRest'
  BY <1>1 DEF AtRest, output
<1>11. QED  BY <1>8, <1>9, <1>10 DEF OutputInv

-----------------------------------------------------------------------------
(* Between replies.                                                        *)

LEMMA NothingBegun ==
  ASSUME NEW done \in Seq(Nat)
  PROVE  Stuffed(done) \in Seq(OutByte) /\ \A out : Lies(out, done, <<>>) <=> out = Stuffed(done)
<1> DEFINE t == Stuffed(done)
<1>1. t \in Seq(OutByte)
  <2>1. <<>> \in Seq(Nat)
    OBVIOUS
  <2>2. QED  BY <2>1, StuffedInTwo, Zenon
<1> HIDE DEF t
<1>2. t \o <<>> = t
  BY <1>1
<1>3. QED  BY <1>1, <1>2, Zenon DEF Lies, t

LEMMA FlushedStep ==
  ASSUME OutputInv, Flushed
  PROVE  OutputInv'
<1>1. /\ TypeOK /\ InFrame /\ Accounted /\ OutputOK /\ server = "flushing" /\ buffered = <<>>
      /\ UNCHANGED <<setup, buffered, written, socket, received, replies>>
  BY DEF OutputInv, Flushed, TypeOK
<1>2. PICK done \in Seq(Nat) : Progress(done)
  BY <1>1 DEF Accounted
<1>3. /\ Remains(replies', done, ChunksOf(packets)) /\ frame = Len(done) /\ Lies(Out, done, <<>>)
  <2>1. server # "writing"
    BY <1>1
  <2>2. QED  BY <1>1, <1>2, <2>1, Zenon DEF Progress, Left, Begun
<1>4. Out' = Out
  BY <1>1, Zenon DEF Out
<1>5. Out' = Stuffed(done)
  BY <1>3, <1>4, NothingBegun, Zenon
<1>6. CASE packets # <<>>
  <2>1. Begins(packets) /\ packets \in Seq(Nat) /\ frame \in Nat
    BY <1>1, <1>6 DEF Flushed, OutputOK
  <2>2. server' = "writing" /\ OutputOK' /\ InFrame' /\ Progress(done)'
    BY <1>3, <1>5, <1>6, <2>1, BeginsNext, Zenon
  <2>3. Accounted'
    BY <2>2, Zenon DEF Accounted
  <2>4. AtRest' /\ Ended' /\ server' \in {"reading", "writing", "flushing", "closed"}
    BY <2>2 DEF AtRest, Ended
  <2>5. TypeOK'
    BY <1>1, <2>2, <2>4, Zenon DEF TypeOK
  <2>6. QED  BY <2>2, <2>3, <2>4, <2>5 DEF OutputInv
<1>7. CASE packets = <<>>
  <2>1. server' = "reading" /\ UNCHANGED <<packets, chunks, frame, header_offset, chunk_offset>>
    BY <1>7 DEF Flushed, output
  <2>2. Left' = ChunksOf(packets) /\ Begun' = <<>> /\ server' # "writing"
    BY <2>1 DEF Left, Begun
  <2>3. Progress(done)'
    BY <1>3, <1>4, <2>1, <2>2, Zenon DEF Progress
  <2>4. Accounted'
    BY <2>3, Zenon DEF Accounted
  <2>5. OutputOK' /\ InFrame' /\ AtRest' /\ Ended'
    BY <1>1, <1>7, <2>1 DEF OutputOK, InFrame, AtRest, Ended
  <2>6. server' \in {"reading", "writing", "flushing", "closed"}
    BY <2>1
  <2>7. TypeOK'
    BY <1>1, <2>5, <2>6, Zenon DEF TypeOK
  <2>8. QED  BY <2>4, <2>5, <2>7 DEF OutputInv
<1>8. QED  BY <1>6, <1>7

LEMMA ServesCommandStep ==
  ASSUME OutputInv, ServesCommand
  PROVE  OutputInv'
<1>1. /\ TypeOK /\ InFrame /\ Accounted /\ OutputOK /\ server = "reading"
      /\ buffered = <<>> /\ packets = <<>>
      /\ UNCHANGED <<setup, buffered, written, socket, received>>
  BY DEF OutputInv, ServesCommand, TypeOK, AtRest
<1>2. PICK reply \in Replies :
        /\ replies' = Append(replies, reply)
        /\ IF reply = <<>> THEN UNCHANGED <<server, output>> ELSE Begins(reply)
  BY DEF ServesCommand
<1>3. reply \in Seq(Nat)
  <2>1. reply \in Seq(Nat \ {0})
    BY OutputAssumption
  <2>2. QED  BY <2>1
<1>4. replies \in Seq(Seq(Nat)) /\ frame \in Nat
  BY <1>1 DEF TypeOK, OutputOK
<1>5. PICK done \in Seq(Nat) : Progress(done)
  BY <1>1 DEF Accounted
<1>6. Sizes(replies) = done /\ frame = Len(done) /\ Out' = Stuffed(done)
  <2>1. server # "writing"
    BY <1>1
  <2>2. Remains(replies, done, ChunksOf(<<>>)) /\ frame = Len(done) /\ Lies(Out, done, <<>>)
    BY <1>1, <1>5, <2>1, Zenon DEF Progress, Left, Begun
  <2>3. Out' = Out
    BY <1>1, Zenon DEF Out
  <2>4. done \o <<>> = done
    OBVIOUS
  <2>5. QED  BY <2>2, <2>3, <2>4, ChunksOfEmpty, NothingBegun, Zenon DEF Remains
<1>7. Remains(replies', done, ChunksOf(reply))
  <2>1. Sizes(Append(replies, reply)) = Sizes(replies) \o ChunksOf(reply)
    <3> DEFINE T == Seq(Nat)
    <3>1. \A rs \in Seq(T) : \A r \in T : Sizes(Append(rs, r)) = Sizes(rs) \o ChunksOf(r)
      BY SizesAppend
    <3>2. QED  BY <1>3, <1>4, <3>1
  <2>2. QED  BY <1>2, <1>6, <2>1, Zenon DEF Remains
<1>8. replies' \in Seq(Seq(Nat))
  <2> DEFINE T == Seq(Nat)
  <2>1. replies \in Seq(T) /\ reply \in T
    BY <1>3, <1>4
  <2> HIDE DEF T
  <2>2. Append(replies, reply) \in Seq(T)
    BY <2>1
  <2>3. QED  BY <1>2, <2>2 DEF T
<1>9. CASE reply # <<>>
  <2>1. Begins(reply)
    BY <1>2, <1>9
  <2>2. server' = "writing" /\ OutputOK' /\ InFrame' /\ Progress(done)'
    BY <1>3, <1>4, <1>6, <1>7, <1>9, <2>1, BeginsNext, Zenon
  <2>3. Accounted'
    BY <2>2, Zenon DEF Accounted
  <2>4. AtRest' /\ Ended' /\ server' \in {"reading", "writing", "flushing", "closed"}
    BY <2>2 DEF AtRest, Ended
  <2>5. TypeOK'
    BY <1>1, <1>8, <2>2, <2>4, Zenon DEF TypeOK
  <2>6. QED  BY <2>2, <2>3, <2>4, <2>5 DEF OutputInv
<1>10. CASE reply = <<>>
  <2>1. UNCHANGED <<server, packets, chunks, frame, header_offset, chunk_offset>>
    BY <1>2, <1>10 DEF output
  <2>2. server' = "reading" /\ server' # "writing" /\ packets' = reply
    BY <1>1, <1>10, <2>1
  <2>3. Left' = ChunksOf(reply) /\ Begun' = <<>>
    BY <2>2, Zenon DEF Left, Begun
  <2>4. Lies(Out', done, <<>>)
    BY <1>6, NothingBegun, Zenon
  <2>5. frame' = Len(done)
    BY <1>6, <2>1
  <2>6. Progress(done)'
    BY <1>7, <2>2, <2>3, <2>4, <2>5, Zenon DEF Progress
  <2>7. Accounted'
    BY <2>6, Zenon DEF Accounted
  <2>8. OutputOK' /\ InFrame' /\ AtRest' /\ Ended'
    BY <1>1, <2>1, <2>2 DEF OutputOK, InFrame, AtRest, Ended
  <2>9. server' \in {"reading", "writing", "flushing", "closed"}
    BY <2>2
  <2>10. TypeOK'
    BY <1>1, <1>8, <2>8, <2>9, Zenon DEF TypeOK
  <2>11. QED  BY <2>7, <2>8, <2>10 DEF OutputInv
<1>11. QED  BY <1>9, <1>10

-----------------------------------------------------------------------------
(* What is out is the beginning of what should be.                         *)

LEMMA OutComesFirst ==
  ASSUME OutputInv, server # "closed"
  PROVE  /\ \E rest \in Seq(OutByte) : Intended = Out \o rest
         /\ server = "reading" => Intended = Out
<1>1. /\ TypeOK /\ InFrame /\ OutputOK /\ AtRest /\ Accounted
  BY DEF OutputInv, TypeOK
<1>2. PICK done \in Seq(Nat) : Progress(done)
  BY <1>1 DEF Accounted
<1>3. Intended = Stuffed(done \o Left)
  BY <1>2, IntendedSizes, Zenon DEF Progress, Remains
<1>4. CASE server = "writing"
  <2> DEFINE c == Head(chunks)
             q == Tail(chunks) \o ChunksOf(Tail(packets))
             more == Append(done, c)
             b == Behind(frame, Offset, Whole - Offset)
             whole == Out \o b
  <2>1. /\ Tail(packets) \in Seq(Nat) /\ chunks \in Seq(Nat) /\ chunks # <<>> /\ c \in Nat
        /\ Tail(chunks) \in Seq(Nat) /\ frame \in Nat
    BY <1>1, <1>4 DEF OutputOK, InFrame
  <2>2. ChunksOf(Tail(packets)) \in Seq(Nat)
    BY <2>1, ChunksOfType, Zenon
  <2>3. Left = chunks \o ChunksOf(Tail(packets))
    BY <1>4, Zenon DEF Left
  <2>4. done \o (chunks \o ChunksOf(Tail(packets))) = more \o q /\ more \in Seq(Nat)
    <3> DEFINE r == ChunksOf(Tail(packets))
    <3>1. r \in Seq(Nat)
      BY <2>2
    <3> HIDE DEF r
    <3>2. done \o (chunks \o r) = Append(done, Head(chunks)) \o (Tail(chunks) \o r)
          /\ Append(done, Head(chunks)) \in Seq(Nat)
      BY <2>1, <3>1, HeadMoves
    <3>3. QED  BY <3>2 DEF r
  <2>5. q \in Seq(Nat)
    BY <2>1, <2>2
  <2> HIDE DEF q
  <2>6. PICK y \in Seq(OutByte) : Stuffed(more \o q) = Stuffed(more) \o y
    BY <2>4, <2>5, StuffedInTwo, Zenon
  <2>7. Offset \in Nat /\ Whole \in Nat /\ Offset <= Whole
    BY <1>1, <1>4, SlicesAre, Zenon
  <2>8. Whole - Offset \in Nat /\ IsSum(Whole, Offset, Whole - Offset)
    BY <2>7 DEF IsSum
  <2>9. Lies(Out, done, FrameBytes(frame, Offset)) /\ frame = Len(done) + 1
    BY <1>2, <1>4, Zenon DEF Progress, Begun
  <2>10. Grows(Out, frame, Offset, Whole - Offset, whole)
    BY Zenon DEF Grows
  <2>11. Completes(whole, done, frame, Whole)
    BY <2>1, <2>7, <2>8, <2>9, <2>10, BytesLie, Zenon
  <2>12. whole = Stuffed(more)
    <3>1. Whole = HeaderSize + c
      BY DEF Whole
    <3>2. QED  BY <2>1, <2>9, <2>11, <3>1, Zenon DEF Completes
  <2>13. Out \in Seq(OutByte) /\ b \in Seq(OutByte)
    <3>1. b \in Seq(OutByte)
      BY <2>1, <2>7, <2>8, BytesAre, Zenon
    <3>2. QED  BY <1>1, <3>1, HeldIs, Zenon
  <2>14. PICK rest \in Seq(OutByte) : Joins(Out, rest, whole \o y)
    <3> DEFINE T == OutByte
               by == b \o y
    <3>1. PICK o \in Seq(T) : o = Out
      BY <2>13
    <3>2. b \in Seq(T) /\ y \in Seq(T)
      BY <2>13
    <3> HIDE DEF T, b
    <3> DEFINE ob == o \o b
    <3>3. ob \o y = o \o by /\ by \in Seq(T)
      BY SMTT(60), <3>2, Associativity
    <3>4. whole = ob
      BY <3>1, Zenon
    <3>5. whole \o y = o \o by
      BY <3>3, <3>4, Zenon
    <3>6. QED  BY <3>1, <3>3, <3>5, Zenon DEF Joins, T
  <2>15. Intended = whole \o y
    BY <1>3, <2>3, <2>4, <2>6, <2>12, Zenon
  <2>16. QED  BY <1>4, <2>14, <2>15, Zenon DEF Joins
<1>5. CASE server # "writing"
  <2>1. Left = ChunksOf(packets) /\ packets \in Seq(Nat) /\ Lies(Out, done, <<>>)
    BY <1>1, <1>2, <1>5, Zenon DEF Progress, Left, Begun, OutputOK
  <2>2. Out = Stuffed(done)
    BY <2>1, NothingBegun, Zenon
  <2>3. ChunksOf(packets) \in Seq(Nat)
    BY <2>1, ChunksOfType, Zenon
  <2>4. \E rest \in Seq(OutByte) : Intended = Out \o rest
    BY <1>3, <2>1, <2>2, <2>3, StuffedInTwo, Zenon
  <2>5. server = "reading" => Intended = Out
    <3>1. ASSUME server = "reading" PROVE Intended = Out
      <4>1. Left = <<>>
        BY <1>1, <2>1, <3>1, ChunksOfEmpty, Zenon DEF AtRest
      <4>2. done \o <<>> = done
        OBVIOUS
      <4>3. QED  BY <1>3, <2>2, <4>1, <4>2, Zenon
    <3>2. QED  BY <3>1
  <2>6. QED  BY <2>4, <2>5
<1>6. QED  BY <1>4, <1>5

LEMMA WriteTimeoutStep ==
  ASSUME OutputInv, WriteTimeout
  PROVE  OutputInv'
<1>1. /\ TypeOK /\ InFrame /\ OutputOK /\ server # "closed" /\ server' = "closed"
      /\ buffered' = <<>> /\ written' = 0
      /\ UNCHANGED <<setup, output, socket, received, replies>>
  BY DEF OutputInv, WriteTimeout, TypeOK, Timed
<1>2. PICK rest \in Seq(OutByte) : Intended = Out \o rest
  BY <1>1, OutComesFirst, Zenon
<1> DEFINE T == OutByte
           held == Held(buffered, written)
           shorter == Joined(received, socket, <<>>)
<1>3. socket \in Seq(T) /\ received \in Seq(T) /\ held \in Seq(T) /\ rest \in Seq(T)
  <2>1. socket \in Seq(OutByte) /\ received \in Seq(OutByte)
    BY <1>1 DEF TypeOK
  <2>2. QED  BY <1>1, <2>1, HeldIs, Zenon
<1>4. shorter \in Seq(T)
  <2>1. <<>> \in Seq(T)
    OBVIOUS
  <2>2. QED  BY <1>3, <2>1, JoinedType, Zenon
<1> HIDE DEF T, held
<1>5. shorter \o held = Joined(received, socket, held)
  BY <1>3, JoinedMore
<1>6. Out = shorter \o held /\ Out' = shorter
  <2>1. Held(<<>>, 0) = <<>>
    BY <1>1, HeldIs, Zenon
  <2>2. QED  BY <1>1, <1>5, <2>1, Zenon DEF Out, held
<1> HIDE DEF shorter
<1> DEFINE sh == shorter \o held
           hr == held \o rest
<1>7. sh \o rest = shorter \o hr /\ hr \in Seq(T)
  BY SMTT(60), <1>3, <1>4, Associativity
<1>8. Intended' = Intended
  BY <1>1, Zenon DEF Intended
<1>9. Intended' = Out' \o hr
  BY <1>2, <1>6, <1>7, <1>8, Zenon
<1>10. Ended'
  <2>1. PICK r \in Seq(OutByte) : r = hr
    BY <1>7 DEF T
  <2>2. QED  BY <1>9, <2>1, Zenon DEF Ended
<1>11. InFrame' /\ AtRest' /\ Accounted'
  BY <1>1 DEF InFrame, AtRest, Accounted
<1>12. TypeOK'
  <2>1. OutputOK'
    BY <1>1, Zenon DEF OutputOK, output
  <2>2. buffered' \in Seq(OutByte) /\ written' <= Len(buffered') /\ written' \in Nat
    BY <1>1
  <2>3. server' \in {"reading", "writing", "flushing", "closed"}
    BY <1>1
  <2>4. QED  BY <1>1, <2>1, <2>2, <2>3, Zenon DEF TypeOK
<1>13. QED  BY <1>10, <1>11, <1>12 DEF OutputInv

LEMMA NothingMoves ==
  ASSUME OutputInv, UNCHANGED <<setup, server, output, buffered, written, socket, received, replies>>
  PROVE  OutputInv'
<1>1. OutputOK /\ InFrame /\ Accounted /\ Ended /\ TypeOK /\ AtRest
  BY DEF OutputInv, TypeOK
<1>2. Out' = Out
  BY Zenon DEF Out
<1>3. OutputOK' /\ InFrame' /\ Accounted' /\ Ended'
  BY <1>1, <1>2, Kept
<1>4. TypeOK' /\ AtRest'
  BY <1>1, <1>3, Zenon DEF TypeOK, AtRest, output
<1>5. QED  BY <1>3, <1>4 DEF OutputInv

LEMMA OutputStarts ==
  ASSUME Init
  PROVE  OutputInv
<1>1. /\ setup \in [capacity : Capacities, threshold : Thresholds, write_timeout : BOOLEAN,
                    vectored : BOOLEAN, client : Clients]
      /\ server = "reading" /\ packets = <<>> /\ chunks = <<>> /\ frame = 0
      /\ header_offset = 0 /\ chunk_offset = 0 /\ buffered = <<>> /\ written = 0
      /\ socket = <<>> /\ received = <<>> /\ replies = <<>>
  BY DEF Init
<1>2. OutputOK /\ InFrame /\ AtRest /\ Ended
  BY <1>1 DEF OutputOK, InFrame, AtRest, Ended
<1>3. TypeOK
  BY <1>1, <1>2 DEF TypeOK
<1>4. Progress(<<>>)
  <2>1. Left = ChunksOf(<<>>) /\ Begun = <<>> /\ frame = 0 /\ server # "writing"
    BY <1>1 DEF Left, Begun
  <2>2. Sizes(<<>>) = <<>>
    <3>1. SizeLists(<<>>) = <<>>
      BY DEF SizeLists
    <3>2. QED  BY <3>1, FlattenSeqEmpty, Zenon DEF Sizes
  <2>3. Remains(replies, <<>>, Left)
    <3>1. <<>> \o <<>> = <<>>
      OBVIOUS
    <3>2. QED  BY <1>1, <2>1, <2>2, <3>1, ChunksOfEmpty, Zenon DEF Remains
  <2>4. Stuffed(<<>>) = <<>>
    <3>1. FramesOf(<<>>) = <<>>
      BY DEF FramesOf
    <3>2. QED  BY <3>1, FlattenSeqEmpty, Zenon DEF Stuffed
  <2>5. Out = <<>>
    BY <1>1 DEF Out, Joined, Held
  <2>6. Lies(Out, <<>>, Begun)
    <3>1. <<>> \o <<>> = <<>>
      OBVIOUS
    <3>2. QED  BY <2>1, <2>4, <2>5, <3>1, Zenon DEF Lies
  <2>7. frame = Len(<<>>)
    BY <2>1
  <2>8. QED  BY <2>1, <2>3, <2>6, <2>7, Zenon DEF Progress
<1>5. <<>> \in Seq(Nat)
  OBVIOUS
<1>6. Accounted
  BY <1>4, <1>5, Zenon DEF Accounted
<1>7. QED  BY <1>2, <1>3, <1>6 DEF OutputInv

-----------------------------------------------------------------------------
(* In every reachable state what left the server is accounted for: frames  *)
(* finished, and the bytes write_chunk's offsets count in the one begun.   *)
THEOREM OutputHolds == Spec => []OutputInv
<1>1. Init => OutputInv
  BY OutputStarts
<1>2. OutputInv /\ [Next]_vars => OutputInv'
  <2> SUFFICES ASSUME OutputInv, [Next]_vars PROVE OutputInv'
    OBVIOUS
  <2>1. CASE ServesCommand
    BY <2>1, ServesCommandStep
  <2>2. CASE WriteBuffers
    BY <2>2, WriteBuffersStep
  <2>3. CASE WriteThrough
    BY <2>3, WriteThroughStep
  <2>4. CASE FlushBuf
    BY <2>4, FlushBufStep
  <2>5. CASE Flushed
    BY <2>5, FlushedStep
  <2>6. CASE WriteTimeout
    BY <2>6, WriteTimeoutStep
  <2>7. CASE ClientSends
    BY <2>7, NothingMoves DEF ClientSends
  <2>8. CASE ClientReads
    BY <2>8, ClientReadsStep
  <2>9. CASE UNCHANGED vars
    BY <2>9, NothingMoves DEF vars
  <2>10. QED
    BY <2>1, <2>2, <2>3, <2>4, <2>5, <2>6, <2>7, <2>8, <2>9 DEF Next, Server
<1>3. QED  BY <1>1, <1>2, PTL DEF Spec

(* However a stream cuts header and chunk, whatever the buffer keeps,      *)
(* flushes and passes on, and wherever a write timeout ends it: what left  *)
(* write_packet is the replies' frames, in order, and nothing of them is   *)
(* held back when the server reads the next command.                       *)
THEOREM RepliesLeaveInOrder == Spec => []SentInOrder
<1>1. OutputInv => SentInOrder
  <2> SUFFICES ASSUME OutputInv PROVE SentInOrder
    OBVIOUS
  <2>1. TypeOK /\ AtRest /\ Ended
    BY DEF OutputInv
  <2>2. PICK rest \in Seq(OutByte) : Intended = Out \o rest
    <3>1. CASE server = "closed"
      BY <2>1, <3>1, Zenon DEF Ended
    <3>2. CASE server # "closed"
      BY <3>2, OutComesFirst, Zenon
    <3>3. QED  BY <3>1, <3>2
  <2>3. Out \in Seq(OutByte)
    BY <2>1, HeldIs, Zenon
  <2>4. IsPrefix(Out, Intended)
    <3>1. PICK t : t = Intended
      OBVIOUS
    <3>2. PICK o \in Seq(OutByte) : o = Out
      BY <2>3
    <3>3. IsPrefix(o, t)
      BY <2>2, <3>1, <3>2, FirstPart, Zenon
    <3>4. QED  BY <3>1, <3>2, <3>3, Zenon
  <2>5. server = "reading" => buffered = <<>> /\ Out = Intended
    <3>1. server = "reading" => server # "closed"
      OBVIOUS
    <3>2. QED  BY <2>1, <3>1, OutComesFirst, Zenon DEF AtRest
  <2>6. received \o socket \o SubSeq(buffered, written + 1, Len(buffered)) = Out
    <3> DEFINE T == OutByte
               held == Held(buffered, written)
    <3>1. received \in Seq(T) /\ socket \in Seq(T) /\ held \in Seq(T)
      <4>1. socket \in Seq(OutByte) /\ received \in Seq(OutByte)
        BY <2>1 DEF TypeOK
      <4>2. QED  BY <2>1, <4>1, HeldIs, Zenon
    <3> HIDE DEF T, held
    <3>2. (received \o socket) \o held = Joined(received, socket, held)
      BY <3>1, JoinedAll
    <3>3. QED  BY <3>2 DEF Out, held, Held
  <2>7. QED  BY <2>4, <2>5, <2>6, Zenon DEF SentInOrder
<1>2. QED  BY <1>1, OutputHolds, PTL

=============================================================================
