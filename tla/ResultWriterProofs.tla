-------------------------- MODULE ResultWriterProofs --------------------------
(***************************************************************************)
(* What a client makes of a response is what the backend submitted, for    *)
(* every dialect, whatever methods the backend calls and whatever packet   *)
(* fails; and the completion flag, the session status and the cursor state *)
(* run() goes on with are what the client was told.                        *)
(*                                                                         *)
(* Between a method's call and its last packet the client is anywhere in   *)
(* the middle of a response.  The invariant does not say where the client  *)
(* stands but where the packets still outgoing will take it: to the place  *)
(* the writer's own state assumes (AtRest).                                *)
(*                                                                         *)
(* First, what the decoder makes of each packet a writer emits, and of the *)
(* sequence of packets of each method.                                     *)
(***************************************************************************)
EXTENDS ResultWriter, SequenceTheorems, TLAPS

-----------------------------------------------------------------------------------
(* The client's decoder and its runs.                                      *)

Due == [type : {"DEFS", "EOF"}, n : Nat]

Phase == {"head", "rows", "prepared", "done", "confused"}

Decoder ==
  [phase : Phase,
   due : Seq(Due), n : Nat, rows : Nat, results : Seq(ClientResult)]

(* One packet delivers nothing, or the next of the results submitted.      *)
Delivers(c, d, results) ==
  \/ d.results = c.results
  \/ /\ Len(c.results) < Len(results)
     /\ d.results = Append(c.results, results[Len(c.results) + 1])

(* A decoder that is neither lost nor at the end takes a packet.           *)
Takes(c, p, d, results) ==
  /\ c.phase \notin {"done", "confused"}
  /\ d = Decode(c, p)
  /\ Delivers(c, d, results)

(* ... and a sequence of them, ending as d.                                *)
Reaches(c, packets, d, results) ==
  \E run \in [0 .. Len(packets) -> Decoder] :
    /\ run[0] = c /\ run[Len(packets)] = d
    /\ \A i \in 1 .. Len(packets) : Takes(run[i - 1], packets[i], run[i], results)

LEMMA ReachesItself ==
  ASSUME NEW c \in Decoder, NEW results PROVE Reaches(c, <<>>, c, results)
<1> DEFINE run == [i \in 0 .. 0 |-> c]
<1>1. run \in [0 .. Len(<<>>) -> Decoder] /\ run[0] = c
  OBVIOUS
<1> HIDE DEF run
<1> QED
  BY <1>1 DEF Reaches

LEMMA ReachesNothing ==
  ASSUME NEW c, NEW d, NEW results, Reaches(c, <<>>, d, results)
  PROVE  c = d /\ c \in Decoder
BY DEF Reaches

(* The first packet, then the others.                                      *)
LEMMA ReachesRest ==
  ASSUME NEW c, NEW packets \in Seq(Packet), packets # <<>>, NEW d, NEW results,
         Reaches(c, packets, d, results)
  PROVE  /\ Takes(c, Head(packets), Decode(c, Head(packets)), results)
         /\ Reaches(Decode(c, Head(packets)), Tail(packets), d, results)
         /\ c \in Decoder
<1>1. /\ Len(packets) \in Nat \ {0} /\ Len(Tail(packets)) = Len(packets) - 1
      /\ Head(packets) = packets[1]
      /\ \A i \in 1 .. Len(packets) - 1 : Tail(packets)[i] = packets[i + 1]
  OBVIOUS
<1>2. PICK run \in [0 .. Len(packets) -> Decoder] :
        /\ run[0] = c /\ run[Len(packets)] = d
        /\ \A i \in 1 .. Len(packets) : Takes(run[i - 1], packets[i], run[i], results)
  BY DEF Reaches
<1>3. Takes(c, Head(packets), run[1], results)
  BY <1>1, <1>2
<1>4. run[1] = Decode(c, Head(packets))
  BY <1>3 DEF Takes
<1> DEFINE later == [i \in 0 .. Len(packets) - 1 |-> run[i + 1]]
<1>5. later \in [0 .. Len(packets) - 1 -> Decoder]
  BY <1>1, <1>2
<1>6. later[0] = run[1] /\ later[Len(packets) - 1] = d
  BY <1>1, <1>2
<1>7. \A i \in 1 .. Len(packets) - 1 : Takes(later[i - 1], Tail(packets)[i], later[i], results)
  BY <1>1, <1>2
<1> HIDE DEF later
<1>8. Reaches(run[1], Tail(packets), d, results)
  BY <1>1, <1>5, <1>6, <1>7 DEF Reaches
<1> QED
  BY <1>1, <1>2, <1>3, <1>4, <1>8

LEMMA ReachesFirst ==
  ASSUME NEW c \in Decoder, NEW packets \in Seq(Packet), packets # <<>>, NEW d, NEW results,
         NEW e, Takes(c, Head(packets), e, results), Reaches(e, Tail(packets), d, results)
  PROVE  Reaches(c, packets, d, results)
<1>1. /\ Len(packets) \in Nat \ {0} /\ Len(Tail(packets)) = Len(packets) - 1
      /\ Head(packets) = packets[1]
      /\ \A i \in 1 .. Len(packets) - 1 : Tail(packets)[i] = packets[i + 1]
  OBVIOUS
<1>2. PICK later \in [0 .. Len(packets) - 1 -> Decoder] :
        /\ later[0] = e /\ later[Len(packets) - 1] = d
        /\ \A i \in 1 .. Len(packets) - 1 : Takes(later[i - 1], Tail(packets)[i], later[i], results)
  BY <1>1 DEF Reaches
<1> DEFINE run == [i \in 0 .. Len(packets) |-> IF i = 0 THEN c ELSE later[i - 1]]
<1>3. run \in [0 .. Len(packets) -> Decoder]
  BY <1>1, <1>2
<1>4. run[0] = c /\ run[Len(packets)] = d
  BY <1>1, <1>2
<1>5. ASSUME NEW i \in 1 .. Len(packets)
      PROVE  Takes(run[i - 1], packets[i], run[i], results)
  <2>1. CASE i = 1
    BY <1>1, <1>2, <2>1
  <2>2. CASE i # 1
    <3>1. i - 1 \in 1 .. Len(packets) - 1 /\ Tail(packets)[i - 1] = packets[i]
      BY <1>1, <2>2
    <3>2. run[i - 1] = later[(i - 1) - 1] /\ run[i] = later[i - 1]
      BY <1>1, <2>2
    <3> HIDE DEF run
    <3> QED
      BY <1>2, <3>1, <3>2
  <2> QED
    BY <2>1, <2>2
<1> HIDE DEF run
<1> QED
  BY <1>3, <1>4, <1>5 DEF Reaches

-----------------------------------------------------------------------------------
(* What the decoder makes of each packet.                                  *)

Flag == UNION (BackendStatus \cup {DurableFlag, CursorFlags, {"MORE_RESULTS"}})
End == [type : {"OK", "OK_FE", "EOF"}, status : SUBSET Flag]

Got(c, result, more) ==
  [c EXCEPT !.results = Append(@, result), !.rows = 0,
            !.phase = IF more THEN "head" ELSE "done"]

LEMMA GotType ==
  ASSUME NEW c \in Decoder, NEW result \in ClientResult, NEW more \in BOOLEAN
  PROVE  /\ Got(c, result, more) \in Decoder
         /\ Got(c, result, more).phase = IF more THEN "head" ELSE "done"
         /\ Got(c, result, more).due = c.due
         /\ Got(c, result, more).n = c.n
         /\ Got(c, result, more).rows = 0
         /\ Got(c, result, more).results = Append(c.results, result)
<1>1. c.results \in Seq(ClientResult)
  BY DEF Decoder
<1>2. Append(c.results, result) \in Seq(ClientResult)
  BY <1>1
<1>3. Got(c, result, more) \in Decoder
  BY <1>2 DEF Got, Decoder, Phase
<1> QED
  BY <1>3 DEF Got, Decoder, Phase

LEMMA GetsResult ==
  ASSUME NEW c \in Decoder, NEW result \in ClientResult, NEW status, NEW more \in BOOLEAN,
         more <=> "MORE_RESULTS" \in status, more => MultiResults
  PROVE  Gets(c, result, status) = Got(c, result, more)
BY DEF Gets, Got, Decoder

LEMMA TerminatorType ==
  ASSUME NEW end \in End, NEW more \in BOOLEAN
  PROVE  /\ Terminator(end, more) \in Packet
         /\ Terminator(end, more).type = end.type
         /\ Terminator(end, more).n = 0
         /\ more <=> "MORE_RESULTS" \in Terminator(end, more).status
         /\ Ok(Terminator(end, more).status) = Ok(end.status)
         /\ \A n : RowSet(n, Terminator(end, more).status) = RowSet(n, end.status)
         /\ \A f : f # "MORE_RESULTS" => (f \in Terminator(end, more).status <=> f \in end.status)
<1>1. (end.status \ {"MORE_RESULTS"}) \cup MoreResults(more) \in SUBSET Flag
  BY DEF MoreResults, End, Flag
<1>2. Terminator(end, more) \in Packet
  BY <1>1 DEF Terminator, Packet, End, Flag
<1>3. Terminator(end, more).status \ {"MORE_RESULTS"} = end.status \ {"MORE_RESULTS"}
  BY DEF Terminator, MoreResults
<1>4. /\ more <=> "MORE_RESULTS" \in Terminator(end, more).status
      /\ \A f : f # "MORE_RESULTS" => (f \in Terminator(end, more).status <=> f \in end.status)
  BY DEF Terminator, MoreResults
<1>5. Terminator(end, more).type = end.type /\ Terminator(end, more).n = 0
  BY DEF Terminator
<1> QED
  BY <1>2, <1>3, <1>4, <1>5 DEF Ok, RowSet

(* The end of a result: an OK, or the terminator of a row set.             *)
LEMMA TerminatorRead ==
  ASSUME ~torn, NEW c \in Decoder, c.due = <<>>, NEW end \in End, NEW more \in BOOLEAN,
         more => MultiResults, NEW result \in ClientResult,
         \/ c.phase = "head" /\ end.type = "OK" /\ result = Ok(end.status)
         \/ c.phase = "rows" /\ end.type = CursorEnd /\ result = RowSet(c.rows, end.status)
  PROVE  Decode(c, Terminator(end, more)) = Got(c, result, more)
<1> DEFINE p == Terminator(end, more)
<1>1. /\ p.type = end.type /\ (more <=> "MORE_RESULTS" \in p.status)
      /\ Ok(p.status) = Ok(end.status) /\ RowSet(c.rows, p.status) = RowSet(c.rows, end.status)
  BY TerminatorType
<1> HIDE DEF p
<1>2. CASE c.phase = "head" /\ end.type = "OK" /\ result = Ok(end.status)
  <2>1. Decode(c, p) = Gets(c, Ok(p.status), p.status)
    BY <1>1, <1>2 DEF Decode, DecodeHead
  <2> QED
    BY <1>1, <1>2, <2>1, GetsResult DEF p
<1>3. CASE c.phase = "rows" /\ end.type = CursorEnd /\ result = RowSet(c.rows, end.status)
  <2>1. Decode(c, p) = Gets(c, RowSet(c.rows, p.status), p.status)
    BY <1>1, <1>3 DEF Decode, DecodeRow, CursorEnd
  <2> QED
    BY <1>1, <1>3, <2>1, GetsResult DEF p
<1> QED
  BY <1>2, <1>3

LEMMA ErrorType == Error \in ClientResult /\ ERR \in Packet
BY BoundAssumption DEF Error, ClientResult, ERR, Packet

LEMMA ErrorRead ==
  ASSUME ~torn, NEW c \in Decoder, c.due = <<>>, c.phase \in {"head", "rows"}
  PROVE  Decode(c, ERR) = Got(c, Error, FALSE)
<1>1. Decode(c, ERR) = Gets(c, Error, {})
  BY DEF Decode, ERR
<1> QED
  BY <1>1, GetsResult, ErrorType

LEMMA RowRead ==
  ASSUME ~torn, NEW c \in Decoder, c.due = <<>>, c.phase = "rows", NEW n \in Nat, n = c.n
  PROVE  /\ ROW(n) \in Packet
         /\ Decode(c, ROW(n)) = [c EXCEPT !.rows = @ + 1]
         /\ [c EXCEPT !.rows = @ + 1] \in Decoder
BY DEF Decode, DecodeRow, ROW, Packet, Decoder, CursorEnd

LEMMA CountRead ==
  ASSUME ~torn, NEW c \in Decoder, c.due = <<>>, c.phase = "head", NEW n \in Nat
  PROVE  /\ COUNT(n) \in Packet
         /\ Decode(c, COUNT(n)) = [c EXCEPT !.phase = "rows", !.due = Metadata(n), !.n = n]
BY DEF Decode, DecodeHead, COUNT, Packet

(* Packets that are the column definitions the client waits for.           *)
Announced(packets, due) ==
  /\ Len(packets) = Len(due)
  /\ \A i \in 1 .. Len(packets) :
       /\ [type |-> packets[i].type, n |-> packets[i].n] = due[i]
       /\ "CURSOR_EXISTS" \notin packets[i].status

At(c, due, phase) == [c EXCEPT !.due = due, !.phase = phase]

LEMMA AtType ==
  ASSUME NEW c \in Decoder, NEW due, due \in Seq(Due), NEW phase, phase \in Phase
  PROVE  /\ At(c, due, phase) \in Decoder
         /\ At(c, due, phase).due = due /\ At(c, due, phase).phase = phase
         /\ At(c, due, phase).n = c.n /\ At(c, due, phase).rows = c.rows
         /\ At(c, due, phase).results = c.results
         /\ due = c.due /\ phase = c.phase => At(c, due, phase) = c
BY DEF At, Decoder

LEMMA AtAgain ==
  ASSUME NEW c \in Decoder, NEW due, NEW due2, NEW phase, NEW phase2
  PROVE  At(At(c, due, phase), due2, phase2) = At(c, due2, phase2)
BY DEF At, Decoder

Defined(c) == At(c, <<>>, IF c.phase = "prepared" THEN "done" ELSE c.phase)

LEMMA TailOf ==
  ASSUME NEW S, NEW s \in Seq(S), NEW k \in Nat, Len(s) = k + 1
  PROVE  /\ Tail(s) \in Seq(S) /\ Len(Tail(s)) = k
         /\ \A j \in 1 .. k : Tail(s)[j] = s[j + 1]
         /\ s # <<>> /\ Head(s) = s[1]
OBVIOUS

LEMMA DefinedType ==
  ASSUME NEW c \in Decoder, c.phase = "prepared"
  PROVE  /\ Defined(c) \in Decoder /\ Defined(c).phase = "done" /\ Defined(c).due = <<>>
         /\ Defined(c).results = c.results
<1>1. "done" \in Phase /\ <<>> \in Seq(Due)
  BY DEF Phase
<1>2. Defined(c) = At(c, <<>>, "done")
  BY DEF Defined
<1> DEFINE none == <<>>
<1>3. none \in Seq(Due)
  BY <1>1
<1> HIDE DEF none
<1>4. /\ At(c, none, "done") \in Decoder /\ At(c, none, "done").phase = "done"
      /\ At(c, none, "done").due = none /\ At(c, none, "done").results = c.results
  BY <1>1, <1>3, AtType
<1> QED
  BY <1>2, <1>4 DEF none

LEMMA DefinitionsRead ==
  ASSUME ~torn, NEW c \in Decoder, c.due # <<>>, c.phase \in {"rows", "prepared"},
         NEW packets \in Seq(Packet), Announced(packets, c.due), NEW results
  PROVE  Reaches(c, packets, Defined(c), results)
<1> DEFINE last == Len(c.due)
           left(i) == SubSeq(c.due, i + 1, last)
           phase(i) == IF c.phase = "prepared" /\ i = last THEN "done" ELSE c.phase
           run == [i \in 0 .. last |-> At(c, left(i), phase(i))]
<1>1. /\ c.due \in Seq(Due) /\ last \in Nat \ {0} /\ Len(packets) = last
      /\ DOMAIN c.due = 1 .. last
  BY DEF Decoder, Announced
<1>2. ASSUME NEW i \in 0 .. last
      PROVE  /\ left(i) \in Seq(Due) /\ Len(left(i)) = last - i
             /\ \A j \in 1 .. last - i : left(i)[j] = c.due[i + j]
  <2>1. c.due \in Seq(Due) /\ i + 1 \in 1 .. last + 1 /\ last = Len(c.due)
    BY <1>1
  <2>2. /\ SubSeq(c.due, i + 1, last) \in Seq(Due)
        /\ Len(SubSeq(c.due, i + 1, last)) = IF i + 1 <= last THEN last - (i + 1) + 1 ELSE 0
        /\ \A j \in 1 .. last - (i + 1) + 1 : SubSeq(c.due, i + 1, last)[j] = c.due[(i + 1) + j - 1]
    BY <1>1, <2>1, SubSeqProperties
  <2> QED
    BY SMTT(60), <1>1, <2>2
<1> HIDE DEF left
<1>3. ASSUME NEW i \in 0 .. last
      PROVE  /\ run[i] \in Decoder
             /\ run[i].due = left(i) /\ run[i].phase = phase(i)
             /\ run[i].results = c.results
             /\ run[i] = At(c, left(i), phase(i))
  <2>1. left(i) \in Seq(Due) /\ phase(i) \in Phase
    BY <1>2 DEF Phase
  <2> QED
    BY <2>1, AtType
<1>4. run \in [0 .. last -> Decoder]
  BY <1>3
<1>5. run[0] = c
  <2>1. left(0) = c.due
    <3>1. 0 \in 0 .. last
      BY <1>1
    <3>2. /\ left(0) \in Seq(Due) /\ Len(left(0)) = Len(c.due)
          /\ \A j \in 1 .. Len(left(0)) : left(0)[j] = c.due[j]
      BY <1>1, <1>2, <3>1
    <3> QED
      BY <1>1, <3>2, SeqEqual
  <2>2. phase(0) = c.phase
    BY <1>1
  <2>3. At(c, c.due, c.phase) = c
    BY <1>1, AtType DEF Phase
  <2> QED
    BY <1>1, <2>1, <2>2, <2>3
<1>6. run[last] = Defined(c)
  <2>1. left(last) = <<>>
    <3>1. last \in 0 .. last
      BY <1>1
    <3>2. left(last) \in Seq(Due) /\ Len(left(last)) = 0
      BY <1>1, <1>2, <3>1
    <3> QED
      BY <3>2, EmptySeq
  <2> QED
    BY <1>1, <2>1 DEF Defined
<1>7. ASSUME NEW i \in 1 .. last
      PROVE  Takes(run[i - 1], packets[i], run[i], results)
  <2> DEFINE b == run[i - 1]
             p == packets[i]
  <2>1. /\ i - 1 \in 0 .. last /\ i \in 0 .. last /\ i \in 1 .. Len(packets)
        /\ i - 1 # last
    BY <1>1
  <2>2. /\ b \in Decoder /\ b.due = left(i - 1) /\ b.phase = c.phase
        /\ b.results = c.results /\ run[i].results = c.results
        /\ b = At(c, left(i - 1), c.phase)
    BY <1>3, <2>1
  <2>3. /\ b.due # <<>> /\ Head(b.due) = c.due[i] /\ Tail(b.due) = left(i)
    <3>1. /\ left(i - 1) \in Seq(Due) /\ left(i) \in Seq(Due)
          /\ Len(left(i - 1)) = (last - i) + 1 /\ Len(left(i)) = last - i
          /\ left(i - 1)[1] = c.due[i]
          /\ \A j \in 1 .. last - i : left(i - 1)[j + 1] = left(i)[j]
      <4>1. /\ left(i - 1) \in Seq(Due) /\ Len(left(i - 1)) = last - (i - 1)
            /\ \A j \in 1 .. last - (i - 1) : left(i - 1)[j] = c.due[(i - 1) + j]
        BY <1>2, <2>1
      <4>2. /\ left(i) \in Seq(Due) /\ Len(left(i)) = last - i
            /\ \A j \in 1 .. last - i : left(i)[j] = c.due[i + j]
        BY <1>2, <2>1
      <4>3. 1 \in 1 .. last - (i - 1) /\ (i - 1) + 1 = i /\ last - (i - 1) = (last - i) + 1
        BY <1>1, <2>1
      <4>4. ASSUME NEW j \in 1 .. last - i PROVE left(i - 1)[j + 1] = left(i)[j]
        <5>1. j + 1 \in 1 .. last - (i - 1) /\ (i - 1) + (j + 1) = i + j
          BY <1>1, <2>1
        <5> QED
          BY SMTT(60), <4>1, <4>2, <5>1
      <4> QED
        BY <4>1, <4>2, <4>3, <4>4
    <3>2. /\ Tail(left(i - 1)) \in Seq(Due) /\ Len(Tail(left(i - 1))) = last - i
          /\ \A j \in 1 .. last - i : Tail(left(i - 1))[j] = left(i - 1)[j + 1]
          /\ left(i - 1) # <<>> /\ Head(left(i - 1)) = left(i - 1)[1]
      <4>1. last - i \in Nat
        BY <1>1, <2>1
      <4> QED
        BY <3>1, <4>1, TailOf
    <3>3. Tail(left(i - 1)) = left(i)
      <4>1. \A j \in 1 .. Len(left(i)) : left(i)[j] = Tail(left(i - 1))[j]
        BY <3>1, <3>2
      <4>2. Len(left(i)) = Len(Tail(left(i - 1)))
        BY <3>1, <3>2
      <4> QED
        BY <3>1, <3>2, <4>1, <4>2, SeqEqual
    <3> QED
      BY <2>2, <3>1, <3>2, <3>3
  <2>4. [type |-> p.type, n |-> p.n] = c.due[i] /\ "CURSOR_EXISTS" \notin p.status
    BY <2>1 DEF Announced
  <2>5. left(i) = <<>> <=> i = last
    BY <1>1, <1>2, <2>1
  <2>6. run[i] = At(c, left(i), phase(i))
    BY <1>3, <2>1
  <2> HIDE DEF run, b, p
  <2>7. Decode(b, p) = DecodeDue(b, p)
    BY <2>3 DEF Decode
  <2> DEFINE rest == [b EXCEPT !.due = Tail(@)]
  <2>8. rest = At(c, left(i), c.phase) /\ rest.due = left(i)
    <3>1. rest = At(b, left(i), c.phase)
      BY <2>2, <2>3 DEF At, Decoder
    <3>2. left(i) \in Seq(Due)
      BY <1>2, <2>1
    <3>3. At(b, left(i), c.phase) = At(c, left(i), c.phase)
      BY <2>2, AtAgain
    <3>4. At(c, left(i), c.phase).due = left(i)
      BY <3>2, AtType DEF Phase
    <3> QED
      BY <3>1, <3>3, <3>4
  <2> HIDE DEF rest
  <2>9. DecodeDue(b, p) = IF left(i) = <<>> /\ c.phase = "prepared"
                            THEN [rest EXCEPT !.phase = "done"] ELSE rest
    BY <2>2, <2>3, <2>4, <2>8 DEF DecodeDue, rest
  <2>10. DecodeDue(b, p) = run[i]
    <3>1. [rest EXCEPT !.phase = "done"] = At(c, left(i), "done")
      BY <2>8 DEF At, Decoder
    <3> QED
      BY <2>5, <2>6, <2>8, <2>9, <3>1
  <2> QED
    BY <2>2, <2>7, <2>10 DEF Takes, Delivers, b, p
<1> HIDE DEF run
<1> QED
  BY <1>1, <1>4, <1>5, <1>6, <1>7 DEF Reaches

-----------------------------------------------------------------------------------
(* What the decoder makes of the packets of a method.                      *)

LEMMA Cons ==
  ASSUME NEW p, p \in Packet, NEW packets, packets \in Seq(Packet)
  PROVE  /\ <<p>> \o packets \in Seq(Packet) /\ <<p>> \o packets # <<>>
         /\ Head(<<p>> \o packets) = p /\ Tail(<<p>> \o packets) = packets
<1>1. /\ <<p>> \in Seq(Packet) /\ Len(<<p>>) = 1 /\ <<p>>[1] = p
      /\ Len(packets) \in Nat
  OBVIOUS
<1> DEFINE all == <<p>> \o packets
<1>2. /\ all \in Seq(Packet) /\ Len(all) = Len(packets) + 1 /\ all[1] = p
      /\ \A i \in 1 .. Len(packets) : all[i + 1] = packets[i]
  BY <1>1
<1> HIDE DEF all
<1>3. /\ all # <<>> /\ Head(all) = p
      /\ Tail(all) \in Seq(Packet) /\ Len(Tail(all)) = Len(packets)
      /\ \A i \in 1 .. Len(Tail(all)) : Tail(all)[i] = packets[i]
  BY <1>1, <1>2
<1>4. Tail(all) = packets
  BY <1>3, SeqEqual
<1> QED
  BY <1>2, <1>3, <1>4 DEF all

LEMMA ReachesOne ==
  ASSUME NEW c \in Decoder, NEW p, p \in Packet, NEW d \in Decoder, NEW results,
         Takes(c, p, d, results)
  PROVE  /\ Reaches(c, <<p>>, d, results)
         /\ <<p>> \in Seq(Packet) /\ <<p>> # <<>>
<1>1. <<p>> \in Seq(Packet) /\ <<p>> # <<>> /\ Head(<<p>>) = p /\ Tail(<<p>>) = <<>>
  OBVIOUS
<1> QED
  BY <1>1, ReachesItself, ReachesFirst

LEMMA ReachesCons ==
  ASSUME NEW c \in Decoder, NEW p, p \in Packet, NEW packets, packets \in Seq(Packet),
         NEW d, NEW e, NEW results,
         Takes(c, p, e, results), Reaches(e, packets, d, results)
  PROVE  /\ Reaches(c, <<p>> \o packets, d, results)
         /\ <<p>> \o packets \in Seq(Packet) /\ <<p>> \o packets # <<>>
<1> DEFINE all == <<p>> \o packets
<1>1. all \in Seq(Packet) /\ all # <<>> /\ Head(all) = p /\ Tail(all) = packets
  BY Cons
<1> HIDE DEF all
<1>2. Reaches(c, all, d, results)
  BY <1>1, ReachesFirst
<1> QED
  BY <1>1, <1>2 DEF all

(* A sequence of two.                                                      *)
LEMMA Two ==
  ASSUME NEW a, NEW b PROVE <<a>> \o <<b>> = <<a, b>>
<1> DEFINE s == <<a>> \o <<b>>
<1>1. <<a>> \in Seq({a, b}) /\ <<b>> \in Seq({a, b}) /\ <<a, b>> \in Seq({a, b})
  OBVIOUS
<1>2. s \in Seq({a, b}) /\ Len(s) = 2 /\ s[1] = a /\ s[2] = b
  BY <1>1, ConcatProperties
<1> HIDE DEF s
<1>3. Len(<<a, b>>) = 2 /\ \A i \in 1 .. Len(s) : s[i] = <<a, b>>[i]
  BY <1>2
<1>4. s = <<a, b>>
  BY <1>1, <1>2, <1>3, SeqEqual
<1> QED
  BY <1>4 DEF s

LEMMA MetadataType ==
  ASSUME NEW n \in Nat
  PROVE  /\ Metadata(n) \in Seq(Due)
         /\ n = 0 => Metadata(n) = <<>>
         /\ n # 0 => Metadata(n) # <<>> /\ Head(Metadata(n)) = [type |-> "DEFS", n |-> n]
         /\ n # 0 => Tail(Metadata(n)) = EofAfterMetadata
<1> DEFINE def == [type |-> "DEFS", n |-> n]
           eof == [type |-> "EOF", n |-> 0]
<1>1. def \in Due /\ eof \in Due
  BY DEF Due
<1> HIDE DEF def, eof
<1>2. CASE n = 0
  BY <1>2 DEF Metadata
<1>3. CASE n # 0 /\ "DEPRECATE_EOF" \in caps
  <2>1. Metadata(n) = <<def>> /\ EofAfterMetadata = <<>>
    BY <1>3 DEF Metadata, EofAfterMetadata, def
  <2> QED
    BY <1>1, <1>3, <2>1 DEF def
<1>4. CASE n # 0 /\ "DEPRECATE_EOF" \notin caps
  <2>1. Metadata(n) = <<def, eof>> /\ EofAfterMetadata = <<eof>>
    BY <1>4, Two DEF Metadata, EofAfterMetadata, def, eof
  <2> QED
    BY <1>1, <1>4, <2>1 DEF def
<1> QED
  BY <1>2, <1>3, <1>4

(* Definitions, with the EOF the client's dialect has after them.          *)
LEMMA DefinitionsAnnounced ==
  ASSUME NEW n \in Nat, n # 0, NEW status, status \in SUBSET Flag, "CURSOR_EXISTS" \notin status
  PROVE  LET packets == <<COLUMNS(n)>> \o (IF "DEPRECATE_EOF" \in caps THEN <<>> ELSE <<EOF(status)>>)
         IN  packets \in Seq(Packet) /\ Announced(packets, Metadata(n))
<1> DEFINE def == [type |-> "DEFS", n |-> n]
           eof == [type |-> "EOF", n |-> 0]
           columns_ == COLUMNS(n)
           eof_ == EOF(status)
<1>1. /\ columns_ \in Packet /\ eof_ \in Packet
      /\ [type |-> columns_.type, n |-> columns_.n] = def /\ "CURSOR_EXISTS" \notin columns_.status
      /\ [type |-> eof_.type, n |-> eof_.n] = eof /\ "CURSOR_EXISTS" \notin eof_.status
  BY DEF COLUMNS, EOF, Packet, Flag
<1> HIDE DEF def, eof, columns_, eof_
<1>2. CASE "DEPRECATE_EOF" \in caps
  <2>1. Metadata(n) = <<def>> /\ <<columns_>> \o <<>> = <<columns_>>
    BY <1>2 DEF Metadata, EofAfterMetadata, def
  <2>2. <<columns_>> \in Seq(Packet) /\ Announced(<<columns_>>, <<def>>)
    BY <1>1 DEF Announced
  <2> QED
    BY <1>2, <2>1, <2>2 DEF columns_
<1>3. CASE "DEPRECATE_EOF" \notin caps
  <2>1. Metadata(n) = <<def, eof>> /\ <<columns_>> \o <<eof_>> = <<columns_, eof_>>
    BY <1>3, Two DEF Metadata, EofAfterMetadata, def, eof
  <2>2. <<columns_, eof_>> \in Seq(Packet) /\ Announced(<<columns_, eof_>>, <<def, eof>>)
    BY <1>1 DEF Announced
  <2> QED
    BY <1>3, <2>1, <2>2 DEF columns_, eof_
<1> QED
  BY <1>2, <1>3

Headed(c, n) == [c EXCEPT !.phase = "rows", !.due = <<>>, !.n = n]

LEMMA HeadedType ==
  ASSUME NEW c \in Decoder, NEW n \in Nat
  PROVE  /\ Headed(c, n) \in Decoder
         /\ Headed(c, n).phase = "rows" /\ Headed(c, n).due = <<>> /\ Headed(c, n).n = n
         /\ Headed(c, n).rows = c.rows /\ Headed(c, n).results = c.results
<1>1. <<>> \in Seq(Due)
  OBVIOUS
<1> QED
  BY <1>1 DEF Headed, Decoder, Phase

(* The count of a result announces the definitions that follow.            *)
LEMMA CountTaken ==
  ASSUME ~torn, NEW c \in Decoder, c.phase = "head", c.due = <<>>, NEW n \in Nat, NEW results
  PROVE  LET e == [c EXCEPT !.phase = "rows", !.due = Metadata(n), !.n = n]
         IN  /\ COUNT(n) \in Packet /\ Takes(c, COUNT(n), e, results)
             /\ e \in Decoder /\ e.phase = "rows" /\ e.due = Metadata(n) /\ e.n = n
             /\ e.rows = c.rows /\ e.results = c.results
             /\ At(e, <<>>, "rows") = Headed(c, n)
<1> DEFINE e == [c EXCEPT !.phase = "rows", !.due = Metadata(n), !.n = n]
<1>1. Metadata(n) \in Seq(Due)
  BY MetadataType
<1>2. /\ e \in Decoder /\ e.phase = "rows" /\ e.due = Metadata(n) /\ e.n = n
      /\ e.rows = c.rows /\ e.results = c.results
      /\ At(e, <<>>, "rows") = Headed(c, n)
  BY <1>1 DEF Decoder, Phase, At, Headed
<1>3. COUNT(n) \in Packet /\ Decode(c, COUNT(n)) = e
  BY CountRead
<1> HIDE DEF e
<1>4. Takes(c, COUNT(n), e, results)
  BY <1>2, <1>3 DEF Takes, Delivers
<1> QED
  BY <1>2, <1>3, <1>4 DEF e

LEMMA HeaderRead ==
  ASSUME ~torn, NEW c \in Decoder, c.phase = "head", c.due = <<>>, NEW n \in Nat, n # 0,
         NEW status, status \in SUBSET Flag, "CURSOR_EXISTS" \notin status, NEW results
  PROVE  /\ Reaches(c, Header(n, status), Headed(c, n), results)
         /\ Header(n, status) \in Seq(Packet) /\ Header(n, status) # <<>>
<1> DEFINE e == [c EXCEPT !.phase = "rows", !.due = Metadata(n), !.n = n]
           definitions == <<COLUMNS(n)>> \o (IF "DEPRECATE_EOF" \in caps THEN <<>> ELSE <<EOF(status)>>)
<1>1. definitions \in Seq(Packet) /\ Announced(definitions, Metadata(n))
  BY DefinitionsAnnounced
<1>2. /\ COUNT(n) \in Packet /\ Takes(c, COUNT(n), e, results)
      /\ e \in Decoder /\ e.phase = "rows" /\ e.due = Metadata(n)
      /\ At(e, <<>>, "rows") = Headed(c, n)
  BY ZenonT(90), CountTaken
<1>3. Header(n, status) = <<COUNT(n)>> \o definitions
  <2> DEFINE eofs == IF "DEPRECATE_EOF" \in caps THEN <<>> ELSE <<EOF(status)>>
  <2>1. COUNT(n) \in Packet /\ COLUMNS(n) \in Packet /\ EOF(status) \in Packet
    BY <1>2 DEF COLUMNS, EOF, Packet, Flag
  <2>2. /\ <<COUNT(n)>> \in Seq(Packet) /\ <<COLUMNS(n)>> \in Seq(Packet) /\ eofs \in Seq(Packet)
        /\ Header(n, status) = <<COUNT(n), COLUMNS(n)>> \o eofs
    BY <2>1 DEF Header
  <2>3. <<COUNT(n), COLUMNS(n)>> = <<COUNT(n)>> \o <<COLUMNS(n)>>
    BY Two
  <2> HIDE DEF eofs
  <2>4. Header(n, status) = <<COUNT(n)>> \o (<<COLUMNS(n)>> \o eofs)
    BY <2>2, <2>3, ConcatAssociative
  <2> QED
    BY <2>4 DEF eofs
<1> HIDE DEF definitions, e
<1>4. Metadata(n) # <<>>
  BY MetadataType
<1>5. Reaches(e, definitions, Headed(c, n), results)
  <2>1. Reaches(e, definitions, Defined(e), results)
    BY <1>1, <1>2, <1>4, DefinitionsRead
  <2> QED
    BY <1>2, <2>1 DEF Defined
<1> QED
  BY <1>1, <1>2, <1>3, <1>5, ReachesCons

(* The header of a cursor has no EOF: the terminator that says the cursor  *)
(* exists stands where it would be.                                        *)
LEMMA OpenRead ==
  ASSUME ~torn, NEW c \in Decoder, c.phase = "head", c.due = <<>>, c.rows = 0, NEW n \in Nat, n # 0,
         NEW status, status \in SUBSET Flag, "CURSOR_EXISTS" \in status,
         NEW results, results = Append(c.results, RowSet(0, status)),
         RowSet(0, status) \in ClientResult
  PROVE  LET packets == CursorHeader(n, status)
                          \o <<Terminator([type |-> CursorEnd, status |-> status], FALSE)>>
             d == Got(Headed(c, n), RowSet(0, status), FALSE)
         IN  Reaches(c, packets, d, results) /\ packets \in Seq(Packet) /\ packets # <<>>
<1> DEFINE end == [type |-> CursorEnd, status |-> status]
           t == Terminator(end, FALSE)
           result == RowSet(0, status)
           e == [c EXCEPT !.phase = "rows", !.due = Metadata(n), !.n = n]
           f == At(e, EofAfterMetadata, "rows")
           d == Got(Headed(c, n), result, FALSE)
<1>1. /\ COUNT(n) \in Packet /\ Takes(c, COUNT(n), e, results)
      /\ e \in Decoder /\ e.phase = "rows" /\ e.due = Metadata(n) /\ e.n = n
      /\ e.rows = c.rows /\ e.results = c.results
      /\ At(e, <<>>, "rows") = Headed(c, n)
  BY CountTaken
<1>2. /\ end \in End /\ t \in Packet /\ t.type = CursorEnd /\ t.n = 0
      /\ "CURSOR_EXISTS" \in t.status /\ "MORE_RESULTS" \notin t.status
      /\ RowSet(0, t.status) = result
  <2>1. end \in End
    BY DEF End, CursorEnd
  <2>2. end.type = CursorEnd /\ end.status = status
    OBVIOUS
  <2> HIDE DEF end
  <2> QED
    BY <2>1, <2>2, TerminatorType
<1>3. COLUMNS(n) \in Packet
  BY DEF COLUMNS, Packet
<1>4. EofAfterMetadata \in Seq(Due)
  <2> DEFINE eof == [type |-> "EOF", n |-> 0]
  <2>1. eof \in Due
    BY DEF Due
  <2> HIDE DEF eof
  <2>2. <<eof>> \in Seq(Due) /\ <<>> \in Seq(Due)
    BY <2>1
  <2> QED
    BY <2>2 DEF EofAfterMetadata, eof
<1> HIDE DEF e
<1>5. /\ f \in Decoder /\ f.phase = "rows" /\ f.due = EofAfterMetadata
      /\ f.rows = 0 /\ f.results = c.results /\ At(f, <<>>, "rows") = Headed(c, n)
  BY <1>1, <1>4, AtType, AtAgain DEF Phase
<1>6. Takes(e, COLUMNS(n), f, results)
  <2>1. /\ e.due # <<>> /\ Head(e.due) = [type |-> "DEFS", n |-> n]
        /\ Tail(e.due) = EofAfterMetadata
    BY <1>1, MetadataType
  <2>2. Decode(e, COLUMNS(n)) = DecodeDue(e, COLUMNS(n))
    BY <2>1 DEF Decode
  <2>3. DecodeDue(e, COLUMNS(n)) = [e EXCEPT !.due = Tail(@)]
    BY <1>1, <2>1 DEF DecodeDue, COLUMNS
  <2>4. [e EXCEPT !.due = Tail(@)] = f
    BY <1>1, <2>1 DEF At, Decoder
  <2> QED
    BY <1>1, <1>5, <2>2, <2>3, <2>4 DEF Takes, Delivers
<1> HIDE DEF t, end, f
<1>7. Headed(c, n) \in Decoder /\ Headed(c, n).rows = 0 /\ Headed(c, n).results = c.results
      /\ Headed(c, n).due = <<>> /\ Headed(c, n).phase = "rows"
  BY HeadedType
<1>8. /\ d \in Decoder /\ d.results = results
      /\ Gets(Headed(c, n), result, t.status) = d
  <2>1. result \in ClientResult
    OBVIOUS
  <2>2. d \in Decoder /\ d.results = Append(Headed(c, n).results, result)
    BY <1>7, <2>1, GotType
  <2>3. Gets(Headed(c, n), result, t.status) = d
    BY <1>2, <1>7, <2>1, GetsResult
  <2> QED
    BY <1>7, <2>2, <2>3
<1>9. Decode(f, t) = d
  <2>1. CASE "DEPRECATE_EOF" \in caps
    <3>1. f.due = <<>>
      BY <1>5, <2>1 DEF EofAfterMetadata
    <3>2. f = Headed(c, n)
      <4>1. At(f, f.due, f.phase) = f
        BY <1>4, <1>5, AtType DEF Phase
      <4> QED
        BY <1>5, <3>1, <4>1
    <3>3. t.type = "OK_FE"
      BY <1>2, <2>1 DEF CursorEnd
    <3>4. Decode(f, t) = DecodeRow(f, t)
      BY <1>5, <3>1, <3>3 DEF Decode
    <3>5. DecodeRow(f, t) = Gets(f, RowSet(f.rows, t.status), t.status)
      BY <2>1, <3>3 DEF DecodeRow
    <3> QED
      BY <1>2, <1>5, <1>8, <3>2, <3>4, <3>5
  <2>2. CASE "DEPRECATE_EOF" \notin caps
    <3>1. f.due = <<[type |-> "EOF", n |-> 0]>> /\ t.type = "EOF"
      BY <1>2, <1>5, <2>2 DEF EofAfterMetadata, CursorEnd
    <3>2. f.due # <<>> /\ Head(f.due) = [type |-> t.type, n |-> t.n] /\ Tail(f.due) = <<>>
      BY <1>2, <3>1
    <3>3. [f EXCEPT !.due = Tail(@)] = Headed(c, n)
      BY <1>5, <3>2 DEF At, Decoder
    <3>4. Decode(f, t) = DecodeDue(f, t)
      BY <3>2 DEF Decode
    <3>5. DecodeDue(f, t) = Gets(Headed(c, n), RowSet(0, t.status), t.status)
      BY <1>2, <1>5, <3>2, <3>3 DEF DecodeDue
    <3> QED
      BY <1>2, <1>8, <3>4, <3>5
  <2> QED
    BY <2>1, <2>2
<1> HIDE DEF d, result
<1>10. Takes(f, t, d, results)
  <2>1. c.results \in Seq(ClientResult) /\ result \in ClientResult
    BY DEF Decoder, result
  <2>2. /\ Len(c.results) < Len(results) /\ results = Append(c.results, results[Len(c.results) + 1])
    BY <2>1 DEF result
  <2> QED
    BY <1>5, <1>8, <1>9, <2>2 DEF Takes, Delivers
<1>11. Reaches(f, <<t>>, d, results) /\ <<t>> \in Seq(Packet)
  BY <1>2, <1>5, <1>8, <1>10, ReachesOne
<1>12. Reaches(e, <<COLUMNS(n)>> \o <<t>>, d, results) /\ <<COLUMNS(n)>> \o <<t>> \in Seq(Packet)
  BY <1>1, <1>3, <1>6, <1>11, ReachesCons
<1>13. /\ Reaches(c, <<COUNT(n)>> \o (<<COLUMNS(n)>> \o <<t>>), d, results)
       /\ <<COUNT(n)>> \o (<<COLUMNS(n)>> \o <<t>>) \in Seq(Packet)
       /\ <<COUNT(n)>> \o (<<COLUMNS(n)>> \o <<t>>) # <<>>
  <2> DEFINE later == <<COLUMNS(n)>> \o <<t>>
             p == COUNT(n)
  <2>1. later \in Seq(Packet) /\ Reaches(e, later, d, results)
    BY <1>12
  <2>2. p \in Packet /\ Takes(c, p, e, results) /\ c \in Decoder
    BY <1>1
  <2> HIDE DEF later, p
  <2> QED
    <3>1. Reaches(c, <<p>> \o later, d, results) /\ <<p>> \o later \in Seq(Packet) /\ <<p>> \o later # <<>>
      BY <2>1, <2>2, ReachesCons
    <3> QED
      BY <3>1 DEF later, p
<1>14. CursorHeader(n, status) \o <<t>> = <<COUNT(n)>> \o (<<COLUMNS(n)>> \o <<t>>)
  <2>1. CursorHeader(n, status) = <<COUNT(n)>> \o <<COLUMNS(n)>>
    BY Two DEF CursorHeader
  <2>2. <<COUNT(n)>> \in Seq(Packet) /\ <<COLUMNS(n)>> \in Seq(Packet) /\ <<t>> \in Seq(Packet)
    BY <1>1, <1>2, <1>3
  <2> QED
    BY <2>1, <2>2, ConcatAssociative
<1> QED
  BY <1>13, <1>14 DEF d, result, t, end

LEMMA AnnouncedBoth ==
  ASSUME NEW p1 \in Seq(Packet), NEW p2 \in Seq(Packet), NEW d1 \in Seq(Due), NEW d2 \in Seq(Due),
         Announced(p1, d1), Announced(p2, d2)
  PROVE  p1 \o p2 \in Seq(Packet) /\ d1 \o d2 \in Seq(Due) /\ Announced(p1 \o p2, d1 \o d2)
<1>1. /\ p1 \o p2 \in Seq(Packet) /\ Len(p1 \o p2) = Len(p1) + Len(p2)
      /\ \A i \in 1 .. Len(p1) + Len(p2) :
           (p1 \o p2)[i] = IF i <= Len(p1) THEN p1[i] ELSE p2[i - Len(p1)]
  BY ConcatProperties
<1>2. /\ d1 \o d2 \in Seq(Due) /\ Len(d1 \o d2) = Len(d1) + Len(d2)
      /\ \A i \in 1 .. Len(d1) + Len(d2) :
           (d1 \o d2)[i] = IF i <= Len(d1) THEN d1[i] ELSE d2[i - Len(d1)]
  BY ConcatProperties
<1> DEFINE p == p1 \o p2
           d == d1 \o d2
<1> HIDE DEF p, d
<1>3. Len(p1) \in Nat /\ Len(p2) \in Nat /\ Len(d1) = Len(p1) /\ Len(d2) = Len(p2)
  BY DEF Announced
<1>4. ASSUME NEW i \in 1 .. Len(p1) + Len(p2)
      PROVE  [type |-> p[i].type, n |-> p[i].n] = d[i] /\ "CURSOR_EXISTS" \notin p[i].status
  <2>1. CASE i <= Len(p1)
    <3>1. i \in 1 .. Len(p1) /\ p[i] = p1[i] /\ d[i] = d1[i]
      BY <1>1, <1>2, <1>3, <2>1 DEF p, d
    <3> QED
      BY <3>1 DEF Announced
  <2>2. CASE ~(i <= Len(p1))
    <3>1. i - Len(p1) \in 1 .. Len(p2) /\ p[i] = p2[i - Len(p1)] /\ d[i] = d2[i - Len(p1)]
      BY <1>1, <1>2, <1>3, <2>2 DEF p, d
    <3> QED
      BY <3>1 DEF Announced
  <2> QED
    BY <2>1, <2>2
<1>5. Len(p) = Len(p1) + Len(p2) /\ Len(d) = Len(p)
  BY <1>1, <1>2, <1>3 DEF p, d
<1>6. Announced(p, d)
  BY <1>4, <1>5 DEF Announced
<1> QED
  BY <1>1, <1>2, <1>6 DEF p, d

LEMMA PreparedDefinitions ==
  ASSUME NEW n \in Nat, session_status \in SUBSET DurableFlag
  PROVE  /\ Definitions(n) \in Seq(Packet) /\ Metadata(n) \in Seq(Due)
         /\ Announced(Definitions(n), Metadata(n))
<1>1. session_status \in SUBSET Flag /\ "CURSOR_EXISTS" \notin session_status
  BY BackendAssumption DEF Flag, CursorFlags
<1>2. CASE n = 0
  <2>1. Definitions(n) = <<>> /\ Metadata(n) = <<>>
    BY <1>2 DEF Definitions, Metadata
  <2>2. Announced(<<>>, <<>>)
    BY DEF Announced
  <2> QED
    BY <2>1, <2>2
<1>3. CASE n # 0
  BY <1>1, <1>3, DefinitionsAnnounced, MetadataType DEF Definitions
<1> QED
  BY <1>2, <1>3

ReplyPackets(params, n) == <<PREPARE_OK(params, n)>> \o Definitions(params) \o Definitions(n)

(* The reply to a PREPARE takes the client to its end.                     *)
LEMMA PrepareRead ==
  ASSUME ~torn, NEW c \in Decoder, c.phase = "head", c.due = <<>>,
         session_status \in SUBSET DurableFlag,
         NEW params \in Nat, NEW n \in Nat, Prepared(params, n) \in ClientResult,
         NEW results, results = Append(c.results, Prepared(params, n))
  PROVE  \E d \in Decoder :
           /\ Reaches(c, ReplyPackets(params, n), d, results)
           /\ ReplyPackets(params, n) \in Seq(Packet) /\ ReplyPackets(params, n) # <<>>
           /\ d.phase = "done" /\ d.results = results
<1> DEFINE p == PREPARE_OK(params, n)
           later == Definitions(params) \o Definitions(n)
           due == Metadata(params) \o Metadata(n)
           e == [c EXCEPT !.phase = IF due = <<>> THEN "done" ELSE "prepared", !.due = due,
                          !.results = Append(@, Prepared(params, n))]
<1>1. later \in Seq(Packet) /\ due \in Seq(Due) /\ Announced(later, due)
  BY PreparedDefinitions, AnnouncedBoth
<1>2. p \in Packet /\ p.type = "PREPARE_OK" /\ p.params = params /\ p.n = n
  BY DEF PREPARE_OK, Packet
<1>3. <<p>> \o Definitions(params) \o Definitions(n) = <<p>> \o later
  <2>1. <<p>> \in Seq(Packet) /\ Definitions(params) \in Seq(Packet) /\ Definitions(n) \in Seq(Packet)
    BY <1>2, PreparedDefinitions
  <2> QED
    BY <2>1, ConcatAssociative
<1>4. c.results \in Seq(ClientResult) /\ results \in Seq(ClientResult)
  BY DEF Decoder
<1> HIDE DEF p, later
<1>5. Decode(c, p) = e
  <2>1. Decode(c, p) = DecodeHead(c, p)
    BY <1>2 DEF Decode
  <2> QED
    BY <1>2, <2>1 DEF DecodeHead
<1> HIDE DEF due
<1>6. /\ e \in Decoder /\ e.due = due /\ e.results = results
      /\ e.phase = IF due = <<>> THEN "done" ELSE "prepared"
  BY <1>1, <1>4 DEF Decoder, Phase
<1> HIDE DEF e
<1>7. Takes(c, p, e, results)
  <2>1. /\ Len(c.results) < Len(results)
        /\ results = Append(c.results, results[Len(c.results) + 1])
    BY <1>4
  <2> QED
    BY <1>5, <1>6, <2>1 DEF Takes, Delivers
<1>8. PICK d \in Decoder : /\ Reaches(e, later, d, results)
                           /\ d.phase = "done" /\ d.results = results
  <2>1. CASE due = <<>>
    <3>1. later = <<>>
      BY <1>1, <2>1 DEF Announced
    <3> QED
      BY <1>6, <2>1, <3>1, ReachesItself
  <2>2. CASE due # <<>>
    <3>1. Reaches(e, later, Defined(e), results)
      BY <1>1, <1>6, <2>2, DefinitionsRead
    <3>2. /\ Defined(e) \in Decoder /\ Defined(e).phase = "done" /\ Defined(e).due = <<>>
          /\ Defined(e).results = results
      BY <1>6, <2>2, DefinedType
    <3> QED
      BY <3>1, <3>2
  <2> QED
    BY <2>1, <2>2
<1>9. /\ Reaches(c, <<p>> \o later, d, results)
      /\ <<p>> \o later \in Seq(Packet) /\ <<p>> \o later # <<>>
  BY <1>1, <1>2, <1>7, <1>8, ReachesCons
<1> QED
  BY <1>3, <1>8, <1>9 DEF p, ReplyPackets

-----------------------------------------------------------------------------
(* The invariant.                                                          *)

(* Flags a backend reports or a session keeps; never a cursor's.           *)
ReportedFlag == UNION (BackendStatus \cup {DurableFlag})

TypeOK ==
  /\ command \in Call /\ caps \in ClientCapabilities
  /\ writer \in {"query", "rows", "execute_cursor", "prepare", "init", "none"}
  /\ last_end \in [type : {"OK", CursorEnd}, status : SUBSET ReportedFlag] \cup {NoEnd}
  /\ default_status \in SUBSET ReportedFlag /\ session_status \in SUBSET DurableFlag
  /\ columns \in Nat /\ col \in Nat /\ rows \in 0 .. MaxRows
  /\ exhausted \in BOOLEAN /\ cursor_open \in BOOLEAN
  /\ completion \in BOOLEAN /\ torn \in BOOLEAN
  /\ outgoing \in Seq(Packet)
  /\ call \in [op : {"idle", "consume", "row", "complete"}, exhausted : BOOLEAN, cursor : BOOLEAN]
  /\ handler \in {"running", "answered", "failed"}
  /\ client \in Decoder
  /\ submitted \in Seq(ClientResult)

(* Which writer a command is served with, and what a method in progress    *)
(* has made of it.                                                         *)
Shape ==
  /\ writer = "query" => command \in {"query", "execute"}
  /\ writer = "rows" => command \in {"query", "execute", "fetch"}
  /\ writer \in {"execute_cursor", "prepare", "init"} => command = writer
  /\ writer \notin {"query", "none"} => last_end = NoEnd
  /\ command = "fetch" => columns > 0
  /\ outgoing = <<>> <=> call.op = "idle"
  /\ outgoing # <<>> => handler = "running"
  /\ call.op = "complete" => writer = "none"
  /\ call.op = "row" => writer = "rows" /\ columns > 0 /\ rows < MaxRows /\ Len(outgoing) = 1
  /\ call.op = "consume" => writer \in {"rows", "query"}
  /\ completion => writer = "none" /\ outgoing = <<>>
  /\ handler = "answered" => completion

(* Rows ended or about to end in the current result.                       *)
RowsWritten == IF call.op = "row" THEN rows + 1 ELSE rows

(* Where the decoder stands when no packet is outgoing: at a row of the    *)
(* current result, before the terminator a QueryResultWriter holds back,   *)
(* before the head of a response, or at its end.                           *)
AtRest(d) ==
  /\ d.phase # "confused"
  /\ writer # "none" => d.due = <<>>
  /\ writer = "rows" /\ columns > 0 =>
       /\ d.phase = "rows" /\ d.n = columns /\ d.rows = RowsWritten
       /\ submitted = d.results
  /\ writer = "query" /\ last_end.type = CursorEnd =>
       /\ d.phase = "rows"
       /\ submitted = Append(d.results, RowSet(d.rows, last_end.status))
  /\ writer = "query" /\ last_end.type = "OK" =>
       /\ d.phase = "head" /\ d.rows = 0
       /\ submitted = Append(d.results, Ok(last_end.status))
  /\ writer # "none" /\ last_end = NoEnd /\ ~(writer = "rows" /\ columns > 0) =>
       /\ d.phase = "head" /\ d.rows = 0
       /\ submitted = d.results
  /\ writer = "none" =>
       IF completion \/ call.op = "complete"
         THEN d.phase = "done" /\ d.results = submitted
         ELSE d.phase # "done"

(* The packets outgoing take the client to its rest.                       *)
Arrives == \E d \in Decoder : Reaches(client, outgoing, d, submitted) /\ AtRest(d)

(* After a transport error nothing more is sent.                           *)
Stopped == outgoing = <<>> /\ ~completion /\ client.phase \notin {"done", "confused"}

(* What run() will be left with is what the last result says.              *)
Final == submitted[Len(submitted)]

Told ==
  completion \/ call.op = "complete" =>
    /\ submitted # <<>>
    /\ Final.kind \in {"ok", "set"} => session_status = SessionStatusFlags(Final.status)
    /\ command = "execute_cursor" =>
         ((IF completion THEN cursor_open ELSE call.cursor) <=> "CURSOR_EXISTS" \in Final.status)
    /\ command = "fetch" =>
         ((IF completion THEN exhausted ELSE call.exhausted) <=> "CURSOR_EXISTS" \notin Final.status)

(* The held back end is that of the last result submitted.                 *)
HeldBack ==
  last_end # NoEnd =>
    submitted # <<>> /\ Final.status = last_end.status \ {"MORE_RESULTS"}

Inv ==
  /\ TypeOK /\ Shape /\ Told /\ HeldBack
  /\ ~torn => Arrives
  /\ torn => Stopped

(* A backend that goes on after a transport error breaks all of this: the  *)
(* packet it sends next follows the torn one.                              *)
Quiet == torn => GivesUpWhenTorn

-----------------------------------------------------------------------------
(* The dialect is fixed, so a run of the decoder is one in the next state. *)

LEMMA SteadyDecode ==
  ASSUME UNCHANGED <<fixed, torn>>
  PROVE  \A c, p : Decode(c, p)' = Decode(c, p)
BY DEF Decode, DecodeDue, DecodeHead, DecodeRow, fixed, Gets, MultiResults, Metadata,
       EofAfterMetadata, Confused

LEMMA SteadyReach ==
  ASSUME UNCHANGED <<fixed, torn>>
  PROVE  \A c, ps, d, rs : Reaches(c, ps, d, rs)' <=> Reaches(c, ps, d, rs)
<1>1. \A c, p : Decode(c, p)' = Decode(c, p)
  BY SteadyDecode
<1>2. \A c, p, d, rs : Takes(c, p, d, rs)' <=> Takes(c, p, d, rs)
  BY <1>1 DEF Takes
<1> QED
  BY <1>2 DEF Reaches

LEMMA ArrivesNext ==
  ASSUME UNCHANGED <<fixed, torn>>, NEW d \in Decoder,
         Reaches(client', outgoing', d, submitted'), AtRest(d)'
  PROVE  Arrives'
<1>1. (Reaches(client, outgoing, d, submitted))'
  BY SteadyReach
<1> QED
  BY <1>1 DEF Arrives

(* A writer in the backend's hands, with nothing outgoing.                 *)
LEMMA Resting ==
  ASSUME Inv, Quiet, NEW w, w # "none", Holds(w)
  PROVE  /\ ~torn /\ ~completion /\ call.op = "idle" /\ outgoing = <<>>
         /\ handler = "running" /\ writer = w
         /\ client \in Decoder /\ client.due = <<>> /\ AtRest(client)
<1>1. ~torn /\ outgoing = <<>> /\ handler = "running" /\ writer = w
  BY DEF Holds, Quiet
<1>2. ~completion /\ call.op = "idle"
  BY <1>1 DEF Inv, Shape
<1>3. PICK d \in Decoder : Reaches(client, <<>>, d, submitted) /\ AtRest(d)
  BY <1>1 DEF Inv, Arrives
<1>4. d = client
  BY <1>3, ReachesNothing
<1> QED
  BY <1>1, <1>2, <1>3, <1>4 DEF AtRest

LEMMA AtRestPhase ==
  ASSUME Inv, writer # "none", NEW c, AtRest(c)
  PROVE  c.phase \in {"head", "rows"}
<1>1. last_end = NoEnd \/ last_end.type \in {"OK", CursorEnd}
  BY DEF Inv, TypeOK
<1>2. writer # "query" => last_end = NoEnd
  BY DEF Inv, Shape, TypeOK
<1> QED
  BY <1>1, <1>2 DEF AtRest

(* Nothing sent: the client rests where it stood.                          *)
LEMMA StaysAtRest ==
  ASSUME Inv, UNCHANGED <<fixed, torn, client>>, outgoing' = <<>>, AtRest(client)'
  PROVE  Arrives'
<1>1. PICK d \in Decoder : d = client
  BY DEF Inv, TypeOK
<1>2. Reaches(d, <<>>, d, submitted')
  BY ReachesItself
<1>3. AtRest(d)'
  BY <1>1
<1> QED
  BY <1>1, <1>2, <1>3, ArrivesNext

-----------------------------------------------------------------------------
(* One lemma for each operation.                                           *)

LEMMA InitInv == Init => Inv
<1> SUFFICES ASSUME Init PROVE Inv
  OBVIOUS
<1>1. client \in Decoder /\ submitted \in Seq(ClientResult) /\ outgoing \in Seq(Packet)
  BY BackendAssumption DEF Init, Decoder, Phase
<1>2. TypeOK
  <2>1. command \in Call /\ caps \in ClientCapabilities
    BY DEF Init
  <2>2. writer \in {"query", "rows", "execute_cursor", "prepare", "init", "none"}
    BY BackendAssumption DEF Init, WriterFor, CommandKind
  <2>3. default_status \in SUBSET ReportedFlag /\ session_status \in SUBSET DurableFlag
    BY DEF Init, SessionStatusFlags, ReportedFlag
  <2>4. columns \in Nat /\ col \in Nat /\ rows \in 0 .. MaxRows
    BY BackendAssumption, BoundAssumption DEF Init
  <2>5. call \in [op : {"idle", "consume", "row", "complete"}, exhausted : BOOLEAN, cursor : BOOLEAN]
    BY DEF Init, Idle
  <2>6. /\ last_end = NoEnd /\ exhausted = FALSE /\ cursor_open = FALSE /\ completion = FALSE
        /\ torn = FALSE /\ handler = "running"
    BY DEF Init
  <2> QED
    BY <1>1, <2>1, <2>2, <2>3, <2>4, <2>5, <2>6 DEF TypeOK
<1>3. Shape /\ Told /\ HeldBack
  BY BackendAssumption DEF Init, Shape, Told, HeldBack, WriterFor, NoEnd, Idle, CommandKind
<1>4. AtRest(client)
  BY BackendAssumption DEF Init, AtRest, RowsWritten, WriterFor, NoEnd, CursorEnd, Idle, CommandKind
<1>5. Reaches(client, outgoing, client, submitted)
  BY <1>1, ReachesItself DEF Init
<1>6. Arrives
  BY <1>1, <1>4, <1>5 DEF Arrives
<1> QED
  BY <1>2, <1>3, <1>6 DEF Inv, Init

LEMMA SetStatusFlagsStep ==
  ASSUME Inv, Quiet, NEW status \in BackendStatus, SetStatusFlags(status)
  PROVE  Inv'
<1>1. PICK w \in {"query", "rows", "execute_cursor"} : Holds(w)
  BY DEF SetStatusFlags
<1>2. /\ ~torn /\ ~completion /\ call.op = "idle" /\ outgoing = <<>>
      /\ client \in Decoder /\ AtRest(client)
  BY <1>1, Resting
<1>3. TypeOK'
  BY DEF Inv, TypeOK, SetStatusFlags, ReportedFlag, outside, fixed, CursorEnd
<1>4. Shape' /\ Told' /\ HeldBack'
  BY DEF Inv, Shape, Told, HeldBack, Final, SetStatusFlags, outside, fixed, SessionStatusFlags
<1>5. AtRest(client)'
  BY <1>2 DEF AtRest, RowsWritten, SetStatusFlags, outside, fixed, CursorEnd
<1>6. Arrives'
  BY <1>2, <1>5, StaysAtRest DEF SetStatusFlags, outside
<1> QED
  BY <1>2, <1>3, <1>4, <1>6 DEF Inv, SetStatusFlags, outside

LEMMA WriteColStep ==
  ASSUME Inv, Quiet, WriteCol
  PROVE  Inv'
<1>2. /\ ~torn /\ ~completion /\ call.op = "idle" /\ outgoing = <<>>
      /\ client \in Decoder /\ AtRest(client)
  BY Resting DEF WriteCol
<1>3. TypeOK'
  BY DEF Inv, TypeOK, WriteCol, outside, fixed, CursorEnd
<1>4. Shape' /\ Told' /\ HeldBack'
  BY DEF Inv, Shape, Told, HeldBack, Final, WriteCol, outside, fixed, SessionStatusFlags
<1>5. AtRest(client)'
  BY <1>2 DEF AtRest, RowsWritten, WriteCol, outside, fixed, CursorEnd
<1>6. Arrives'
  BY <1>2, <1>5, StaysAtRest DEF WriteCol, outside
<1> QED
  BY <1>2, <1>3, <1>4, <1>6 DEF Inv, WriteCol, outside

LEMMA CallFailsStep ==
  ASSUME Inv, Quiet, CallFails
  PROVE  Inv'
<1>1. PICK w \in {"query", "rows", "execute_cursor", "prepare", "init"} : Holds(w)
  BY DEF CallFails
<1>2. /\ ~torn /\ ~completion /\ call.op = "idle" /\ outgoing = <<>>
      /\ client \in Decoder /\ AtRest(client) /\ writer = w
  BY <1>1, Resting
<1>3. TypeOK'
  BY DEF Inv, TypeOK, CallFails, outside, fixed, CursorEnd
<1>4. Shape' /\ Told' /\ HeldBack'
  BY <1>2 DEF Inv, Shape, Told, HeldBack, Final, CallFails, outside, fixed, SessionStatusFlags
<1>5. client.phase # "done"
  BY <1>2, AtRestPhase
<1>6. AtRest(client)'
  BY <1>2, <1>5 DEF AtRest, CallFails, outside, fixed
<1>7. Arrives'
  BY <1>2, <1>6, StaysAtRest DEF CallFails, outside
<1> QED
  BY <1>2, <1>3, <1>4, <1>7 DEF Inv, CallFails, outside

LEMMA HandlerReturnsStep ==
  ASSUME Inv, Quiet, HandlerReturns
  PROVE  Inv'
<1>3. TypeOK'
  BY DEF Inv, TypeOK, HandlerReturns, fixed, CursorEnd
<1>4. Shape' /\ Told' /\ HeldBack'
  BY DEF Inv, Shape, Told, HeldBack, Final, HandlerReturns, fixed, SessionStatusFlags
<1>5. ASSUME ~torn PROVE Arrives'
  <2>1. PICK d \in Decoder : Reaches(client, outgoing, d, submitted) /\ AtRest(d)
    BY <1>5 DEF Inv, Arrives
  <2>2. AtRest(d)'
    BY <2>1 DEF AtRest, RowsWritten, HandlerReturns, fixed, CursorEnd
  <2>3. Reaches(client', outgoing', d, submitted')
    BY <2>1 DEF HandlerReturns
  <2>4. UNCHANGED <<fixed, torn>>
    BY DEF HandlerReturns
  <2> QED
    BY <2>2, <2>3, <2>4, ArrivesNext
<1> QED
  BY <1>3, <1>4, <1>5 DEF Inv, Stopped, HandlerReturns

-----------------------------------------------------------------------------
(* The operations of QueryResultWriter.                                    *)

Begins(s, t) == Len(s) <= Len(t) /\ \A i \in 1 .. Len(s) : t[i] = s[i]

LEMMA BeginsAppend ==
  ASSUME NEW s \in Seq(ClientResult), NEW r
  PROVE  Begins(s, s) /\ Begins(s, Append(s, r))
BY DEF Begins

LEMMA GotTaken ==
  ASSUME NEW c \in Decoder, c.phase \in {"head", "rows"}, NEW p, NEW more \in BOOLEAN,
         NEW result \in ClientResult, Decode(c, p) = Got(c, result, more),
         NEW results, Begins(Append(c.results, result), results)
  PROVE  Takes(c, p, Got(c, result, more), results) /\ Got(c, result, more) \in Decoder
<1> DEFINE d == Got(c, result, more)
<1>1. d \in Decoder /\ d.results = Append(c.results, result)
  BY GotType
<1>2. c.results \in Seq(ClientResult)
  BY DEF Decoder
<1>3. Len(c.results) < Len(results) /\ results[Len(c.results) + 1] = result
  BY <1>2 DEF Begins
<1> HIDE DEF d
<1>4. Delivers(c, d, results)
  BY <1>1, <1>3 DEF Delivers
<1> QED
  BY <1>1, <1>4 DEF Takes, d

(* The terminator held back tells the client of the last result.           *)
LEMMA HeldRead ==
  ASSUME Inv, ~torn, AtRest(client), writer = "query", last_end # NoEnd,
         NEW more \in BOOLEAN, more => MultiResults
  PROVE  /\ Terminator(last_end, more) \in Packet
         /\ \E result \in ClientResult :
              /\ Decode(client, Terminator(last_end, more)) = Got(client, result, more)
              /\ submitted = Append(client.results, result)
<1>1. /\ client \in Decoder /\ client.results \in Seq(ClientResult) /\ client.due = <<>>
      /\ submitted \in Seq(ClientResult)
  BY DEF Inv, TypeOK, Decoder, AtRest
<1>2. last_end \in [type : {"OK", CursorEnd}, status : SUBSET ReportedFlag]
  BY DEF Inv, TypeOK
<1>3. last_end \in End /\ last_end.type \in {"OK", CursorEnd}
  <2>1. ReportedFlag \subseteq Flag
    BY DEF ReportedFlag, Flag
  <2> QED
    BY <1>2, <2>1 DEF End, CursorEnd
<1>4. ASSUME NEW result, submitted = Append(client.results, result)
      PROVE  result \in ClientResult
  <2>1. result = submitted[Len(submitted)] /\ Len(submitted) \in 1 .. Len(submitted)
    BY <1>1, <1>4
  <2> QED
    BY <1>1, <2>1
<1>5. CASE last_end.type = "OK"
  <2>1. client.phase = "head" /\ submitted = Append(client.results, Ok(last_end.status))
    BY <1>5 DEF AtRest
  <2>2. Ok(last_end.status) \in ClientResult
    BY <1>4, <2>1
  <2>3. Decode(client, Terminator(last_end, more)) = Got(client, Ok(last_end.status), more)
    BY <1>1, <1>3, <1>5, <2>1, <2>2, TerminatorRead
  <2> QED
    BY <1>3, <2>1, <2>2, <2>3, TerminatorType
<1>6. CASE last_end.type = CursorEnd
  <2> DEFINE result == RowSet(client.rows, last_end.status)
  <2>1. client.phase = "rows" /\ submitted = Append(client.results, result)
    BY <1>6 DEF AtRest
  <2>2. result \in ClientResult
    BY <1>4, <2>1
  <2>3. Decode(client, Terminator(last_end, more)) = Got(client, result, more)
    BY <1>1, <1>3, <1>6, <2>1, <2>2, TerminatorRead
  <2> QED
    BY <1>3, <2>1, <2>2, <2>3, TerminatorType
<1> QED
  BY <1>3, <1>5, <1>6

(* Where finalize takes the client.                                        *)
Flushed == [client EXCEPT !.phase = "head", !.rows = 0, !.results = submitted]

LEMMA FlushedType ==
  ASSUME Inv, AtRest(client), writer # "none"
  PROVE  /\ Flushed \in Decoder /\ Flushed.phase = "head" /\ Flushed.rows = 0
         /\ Flushed.due = <<>> /\ Flushed.results = submitted
BY DEF Inv, TypeOK, AtRest, Flushed, Decoder, Phase

LEMMA FinalizedRead ==
  ASSUME Inv, ~torn, AtRest(client), writer # "none", ~(writer = "rows" /\ columns > 0),
         MayFinalize, NEW rest, rest \in Seq(Packet), NEW results, Begins(submitted, results),
         NEW e, Reaches(Flushed, rest, e, results)
  PROVE  /\ Reaches(client, Finalized(last_end, TRUE) \o rest, e, results)
         /\ Finalized(last_end, TRUE) \o rest \in Seq(Packet)
<1>1. client \in Decoder /\ Flushed \in Decoder
  BY FlushedType DEF Inv, TypeOK
<1>2. CASE last_end = NoEnd
  <2>1. client.phase = "head" /\ client.rows = 0 /\ submitted = client.results
    BY <1>2 DEF AtRest
  <2>2. Flushed = client
    BY <1>1, <2>1 DEF Flushed, Decoder
  <2>3. Finalized(last_end, TRUE) \o rest = rest
    BY <1>2 DEF Finalized
  <2> QED
    BY <2>2, <2>3
<1>3. CASE last_end # NoEnd
  <2>1. writer = "query"
    BY <1>3 DEF Inv, Shape
  <2>2. MultiResults
    BY <1>3 DEF MayFinalize
  <2> DEFINE p == Terminator(last_end, TRUE)
  <2>3. PICK result \in ClientResult : /\ Decode(client, p) = Got(client, result, TRUE)
                                       /\ submitted = Append(client.results, result)
    BY <1>3, <2>1, <2>2, HeldRead
  <2>4. p \in Packet
    BY <1>3, <2>1, <2>2, HeldRead
  <2>5. client.phase \in {"head", "rows"}
    BY AtRestPhase
  <2>6. Finalized(last_end, TRUE) = <<p>>
    BY <1>3 DEF Finalized
  <2> HIDE DEF p
  <2>7. Takes(client, p, Got(client, result, TRUE), results)
    BY <1>1, <2>3, <2>5, GotTaken
  <2>8. Got(client, result, TRUE) = Flushed
    BY <1>1, <2>3 DEF Got, Flushed, Decoder
  <2> QED
    BY <1>1, <2>4, <2>6, <2>7, <2>8, ReachesCons
<1> QED
  BY <1>2, <1>3

LEMMA StartStep ==
  ASSUME Inv, Quiet, NEW n \in ColumnCount, Start(n)
  PROVE  Inv'
<1>1. /\ ~torn /\ ~completion /\ call.op = "idle" /\ outgoing = <<>> /\ handler = "running"
      /\ client \in Decoder /\ AtRest(client) /\ writer = "query"
  BY Resting DEF Start
<1>2. n \in Nat /\ default_status \in SUBSET Flag /\ "CURSOR_EXISTS" \notin default_status
  <2>1. \A f \in CursorFlags : f \notin ReportedFlag
    BY BackendAssumption DEF ReportedFlag
  <2> QED
    BY <2>1, BackendAssumption DEF Inv, TypeOK, ReportedFlag, Flag, CursorFlags
<1>3. /\ Flushed \in Decoder /\ Flushed.phase = "head" /\ Flushed.rows = 0
      /\ Flushed.due = <<>> /\ Flushed.results = submitted
  BY <1>1, FlushedType
<1>4. PICK d \in Decoder :
        /\ Reaches(Flushed, Header(n, default_status), d, submitted)
        /\ Header(n, default_status) \in Seq(Packet)
        /\ d.due = <<>> /\ d.rows = 0 /\ d.results = submitted
        /\ IF n = 0 THEN d.phase = "head" ELSE d.phase = "rows" /\ d.n = n
  <2>1. CASE n = 0
    <3>1. Header(n, default_status) = <<>>
      BY <2>1 DEF Header
    <3>2. Reaches(Flushed, <<>>, Flushed, submitted) /\ <<>> \in Seq(Packet)
      BY <1>3, ReachesItself
    <3> QED
      BY <1>3, <2>1, <3>1, <3>2
  <2>2. CASE n # 0
    <3>1. /\ Reaches(Flushed, Header(n, default_status), Headed(Flushed, n), submitted)
          /\ Header(n, default_status) \in Seq(Packet)
      BY <1>1, <1>2, <1>3, <2>2, HeaderRead
    <3> QED
      BY <1>2, <1>3, <2>2, <3>1, HeadedType
  <2> QED
    BY <2>1, <2>2
<1> DEFINE packets == Finalized(last_end, TRUE) \o Header(n, default_status)
<1>5. Reaches(client, packets, d, submitted) /\ packets \in Seq(Packet)
  <2>1. Begins(submitted, submitted)
    BY BeginsAppend DEF Inv, TypeOK
  <2> QED
    BY <1>1, <1>4, <2>1, FinalizedRead DEF Start
<1>6. /\ outgoing' = packets
      /\ call' = [Idle EXCEPT !.op = IF packets = <<>> THEN "idle" ELSE "consume"]
  BY DEF Start, Emits
<1> HIDE DEF packets
<1>7. /\ call' \in [op : {"idle", "consume", "row", "complete"}, exhausted : BOOLEAN, cursor : BOOLEAN]
      /\ call'.op = IF outgoing' = <<>> THEN "idle" ELSE "consume"
  BY <1>6 DEF Idle
<1>8. session_status' \in SUBSET DurableFlag
  BY DEF Start, StatusAfterFinalize, SessionStatusFlags, Inv, TypeOK
<1>9. TypeOK'
  <2>1. outgoing' \in Seq(Packet)
    BY <1>5, <1>6
  <2> QED
    BY <1>2, <1>7, <1>8, <2>1, BoundAssumption DEF Inv, TypeOK, Start, outside, fixed, CursorEnd
<1>10. Shape'
  BY <1>1, <1>7 DEF Inv, Shape, TypeOK, Start, outside, fixed
<1>11. Told' /\ HeldBack'
  BY <1>1, <1>7 DEF Told, HeldBack, Start, outside
<1>12. AtRest(d)'
  <2>1. /\ writer' = "rows" /\ columns' = n /\ rows' = 0 /\ last_end' = NoEnd
        /\ submitted' = submitted /\ completion' = completion
    BY DEF Start, outside
  <2>2. RowsWritten' = 0
    BY <1>7, <2>1 DEF RowsWritten
  <2> QED
    BY <1>2, <1>4, <2>1, <2>2 DEF AtRest
<1>13. Arrives'
  <2>1. UNCHANGED <<fixed, torn>> /\ Reaches(client', outgoing', d, submitted')
    BY <1>5, <1>6 DEF Start, outside
  <2> QED
    BY <1>12, <2>1, ArrivesNext
<1> QED
  BY <1>1, <1>9, <1>10, <1>11, <1>13 DEF Inv, Start, outside

LEMMA CompleteOneStep ==
  ASSUME Inv, Quiet, NEW given \in BackendStatus \cup {{}}, NEW literal \in BOOLEAN,
         CompleteOne(given, literal)
  PROVE  Inv'
<1> DEFINE status == IF given = {} /\ ~literal THEN default_status ELSE given
           packets == Finalized(last_end, TRUE)
<1>1. /\ ~torn /\ ~completion /\ call.op = "idle" /\ outgoing = <<>> /\ handler = "running"
      /\ client \in Decoder /\ AtRest(client) /\ writer = "query"
  BY Resting DEF CompleteOne
<1>2. status \in SUBSET ReportedFlag
  BY DEF Inv, TypeOK, ReportedFlag
<1>3. /\ Flushed \in Decoder /\ Flushed.phase = "head" /\ Flushed.rows = 0
      /\ Flushed.due = <<>> /\ Flushed.results = submitted
  BY <1>1, FlushedType
<1>4. submitted \in Seq(ClientResult) /\ Ok(status) \in ClientResult
  BY <1>2, BoundAssumption DEF Inv, TypeOK, Ok, ClientResult, ReportedFlag
<1>5. /\ outgoing' = packets
      /\ call' = [Idle EXCEPT !.op = IF packets = <<>> THEN "idle" ELSE "consume"]
      /\ submitted' = Append(submitted, Ok(status))
      /\ last_end' = [type |-> "OK", status |-> status]
      /\ default_status' = SessionStatusFlags(status)
      /\ session_status' = StatusAfterFinalize(last_end)
      /\ MayFinalize /\ writer' = writer
      /\ UNCHANGED <<outside, columns, col, remaining, exhausted, cursor_open, rows>>
  BY <1>1 DEF CompleteOne, Emits, Submits
<1> HIDE DEF status
<1>6. PICK d \in Decoder : d = Flushed
  BY <1>3
<1>7. Reaches(client, packets, d, submitted') /\ packets \in Seq(Packet)
  <2>1. Begins(submitted, submitted')
    BY <1>4, <1>5, BeginsAppend
  <2>2. Reaches(Flushed, <<>>, d, submitted') /\ <<>> \in Seq(Packet)
    BY <1>3, <1>6, ReachesItself
  <2>3. /\ Reaches(client, packets \o <<>>, d, submitted')
        /\ packets \o <<>> \in Seq(Packet)
    BY <1>1, <1>5, <2>1, <2>2, FinalizedRead
  <2>4. packets \o <<>> = packets
    BY DEF Finalized
  <2> QED
    BY <2>3, <2>4
<1> HIDE DEF packets
<1>8. /\ call' \in [op : {"idle", "consume", "row", "complete"}, exhausted : BOOLEAN, cursor : BOOLEAN]
      /\ call'.op = IF outgoing' = <<>> THEN "idle" ELSE "consume"
  BY <1>5 DEF Idle
<1>9. TypeOK'
  <2>1. outgoing' \in Seq(Packet) /\ submitted' \in Seq(ClientResult)
    BY <1>4, <1>5, <1>7
  <2>2. /\ session_status' \in SUBSET DurableFlag /\ default_status' \in SUBSET ReportedFlag
    BY <1>5 DEF StatusAfterFinalize, SessionStatusFlags, Inv, TypeOK, ReportedFlag
  <2>3. last_end' \in [type : {"OK", CursorEnd'}, status : SUBSET ReportedFlag]
    BY <1>2, <1>5
  <2> QED
    BY <1>5, <1>8, <2>1, <2>2, <2>3 DEF Inv, TypeOK, outside, fixed
<1>10. Shape'
  BY <1>1, <1>5, <1>8 DEF Inv, Shape, TypeOK, outside, fixed
<1>11. Told' /\ HeldBack'
  <2>1. submitted' # <<>> /\ submitted'[Len(submitted')] = Ok(status)
    BY <1>4, <1>5
  <2> QED
    BY <1>1, <1>5, <1>8, <2>1 DEF Told, HeldBack, Final, Ok, outside
<1>12. AtRest(d)'
  <2>1. last_end' # NoEnd /\ last_end'.type = "OK" /\ last_end'.status = status
    BY <1>5 DEF NoEnd
  <2>2. "OK" # CursorEnd'
    BY DEF CursorEnd
  <2> QED
    BY <1>1, <1>3, <1>5, <1>6, <2>1, <2>2 DEF AtRest
<1>13. Arrives'
  <2>1. UNCHANGED <<fixed, torn>> /\ Reaches(client', outgoing', d, submitted')
    BY <1>5, <1>7 DEF outside
  <2> QED
    BY <1>12, <2>1, ArrivesNext
<1> QED
  BY <1>1, <1>5, <1>9, <1>10, <1>11, <1>13 DEF Inv, outside

-----------------------------------------------------------------------------
(* The operations that end the command.                                    *)

CallType == [op : {"idle", "consume", "row", "complete"}, exhausted : BOOLEAN, cursor : BOOLEAN]

LEMMA LastCall ==
  ASSUME Inv, Quiet, NEW w, w # "none", Holds(w),
         UNCHANGED <<outside, default_status, columns, rows, cursor_open>>,
         writer' = "none", call' \in CallType, call'.op = "complete",
         last_end' = NoEnd, session_status' \in SUBSET DurableFlag,
         col' \in Nat, exhausted' \in BOOLEAN,
         outgoing' \in Seq(Packet), outgoing' # <<>>, submitted' \in Seq(ClientResult),
         NEW d \in Decoder, Reaches(client, outgoing', d, submitted'),
         d.phase = "done", d.results = submitted',
         Told'
  PROVE  Inv'
<1>1. /\ ~torn /\ ~completion /\ handler = "running" /\ outgoing = <<>> /\ writer = w
  BY Resting
<1>2. TypeOK'
  BY DEF Inv, TypeOK, outside, fixed, CallType
<1>3. Shape'
  BY <1>1 DEF Inv, Shape, outside, fixed
<1>4. HeldBack'
  BY DEF HeldBack
<1>5. AtRest(d)'
  BY DEF AtRest
<1>6. Arrives'
  BY <1>5, ArrivesNext DEF outside
<1> QED
  BY <1>1, <1>2, <1>3, <1>4, <1>6 DEF Inv, outside

LEMMA NoMoreResultsStep ==
  ASSUME Inv, Quiet, NoMoreResults
  PROVE  Inv'
<1> DEFINE p == Terminator(last_end, FALSE)
<1>1. /\ ~torn /\ ~completion /\ client \in Decoder /\ AtRest(client) /\ writer = "query"
      /\ Holds("query") /\ last_end # NoEnd
  BY Resting DEF NoMoreResults, HasResult
<1>2. p \in Packet /\ outgoing' = <<p>>
  BY <1>1, HeldRead DEF NoMoreResults, Finalized
<1>3. PICK result \in ClientResult : /\ Decode(client, p) = Got(client, result, FALSE)
                                     /\ submitted = Append(client.results, result)
  BY <1>1, HeldRead
<1> HIDE DEF p
<1>4. client.phase \in {"head", "rows"}
  BY <1>1, AtRestPhase
<1>5. submitted \in Seq(ClientResult) /\ submitted' = submitted
  BY DEF Inv, TypeOK, NoMoreResults
<1>6. PICK d \in Decoder : d = Got(client, result, FALSE)
  BY <1>1, GotType
<1>7. Takes(client, p, d, submitted)
  <2>1. Begins(submitted, submitted)
    BY <1>5, BeginsAppend
  <2> QED
    BY <1>1, <1>3, <1>4, <1>6, <2>1, GotTaken
<1>8. /\ Reaches(client, outgoing', d, submitted')
      /\ outgoing' \in Seq(Packet) /\ outgoing' # <<>>
  BY <1>1, <1>2, <1>5, <1>7, ReachesOne
<1>9. d.phase = "done" /\ d.results = submitted'
  BY <1>1, <1>3, <1>5, <1>6, GotType
<1>10. /\ call' \in CallType /\ call'.op = "complete" /\ call'.cursor = FALSE
  BY DEF NoMoreResults, CallType, Idle
<1>11. Told'
  <2>1. submitted # <<>> /\ Final.status = last_end.status \ {"MORE_RESULTS"}
    BY <1>1 DEF Inv, HeldBack
  <2>2. session_status' = SessionStatusFlags(last_end.status)
    BY <1>1 DEF NoMoreResults, StatusAfterFinalize
  <2>3. SessionStatusFlags(last_end.status) = SessionStatusFlags(Final.status)
    BY <2>1, BackendAssumption DEF SessionStatusFlags
  <2>4. command' \in {"query", "execute"}
    BY <1>1 DEF Inv, Shape, NoMoreResults, outside, fixed
  <2>5. Final' = Final
    BY <1>5 DEF Final
  <2> QED
    BY <1>5, <2>1, <2>2, <2>3, <2>4, <2>5 DEF Told, SessionStatusFlags
<1>12. session_status' \in SUBSET DurableFlag
  BY <1>1 DEF NoMoreResults, StatusAfterFinalize, SessionStatusFlags
<1>13. /\ UNCHANGED <<outside, default_status, columns, rows, cursor_open, col, exhausted>>
       /\ writer' = "none" /\ last_end' = NoEnd
       /\ col \in Nat /\ exhausted \in BOOLEAN
  BY DEF NoMoreResults, Inv, TypeOK
<1> QED
  BY <1>1, <1>5, <1>8, <1>9, <1>10, <1>11, <1>12, <1>13, LastCall

LEMMA ErrorEndsRead ==
  ASSUME Inv, ~torn, AtRest(client), writer # "none", MayFinalize
  PROVE  \E d \in Decoder :
           /\ Reaches(client, Finalized(last_end, TRUE) \o <<ERR>>, d, Append(submitted, Error))
           /\ Finalized(last_end, TRUE) \o <<ERR>> \in Seq(Packet)
           /\ d.phase = "done" /\ d.results = Append(submitted, Error)
<1> DEFINE results == Append(submitted, Error)
<1>1. /\ Error \in ClientResult /\ ERR \in Packet
      /\ submitted \in Seq(ClientResult) /\ results \in Seq(ClientResult)
  BY ErrorType DEF Inv, TypeOK
<1>2. Begins(submitted, results)
  BY <1>1, BeginsAppend
<1>3. ASSUME NEW c \in Decoder, c.phase \in {"head", "rows"}, c.due = <<>>, c.results = submitted
      PROVE  \E d \in Decoder :
               /\ Reaches(c, <<ERR>>, d, results) /\ <<ERR>> \in Seq(Packet)
               /\ d.phase = "done" /\ d.results = results
  <2>1. Decode(c, ERR) = Got(c, Error, FALSE)
    BY <1>3, ErrorRead
  <2>2. Begins(Append(c.results, Error), results)
    BY <1>1, <1>3, BeginsAppend
  <2>3. Takes(c, ERR, Got(c, Error, FALSE), results)
    BY <1>1, <1>3, <2>1, <2>2, GotTaken
  <2>4. /\ Got(c, Error, FALSE) \in Decoder /\ Got(c, Error, FALSE).phase = "done"
        /\ Got(c, Error, FALSE).results = results
    BY <1>1, <1>3, GotType
  <2> QED
    BY <1>1, <2>3, <2>4, ReachesOne
<1> HIDE DEF results
<1>4. CASE writer = "rows" /\ columns > 0
  <2>1. /\ client \in Decoder /\ client.phase = "rows" /\ client.due = <<>>
        /\ client.results = submitted
    BY <1>4 DEF AtRest, Inv, TypeOK
  <2>2. Finalized(last_end, TRUE) = <<>>
    BY <1>4 DEF Finalized, Inv, Shape
  <2>3. <<ERR>> \in Seq(Packet) /\ <<>> \o <<ERR>> = <<ERR>>
    BY <1>1
  <2> QED
    BY <1>3, <2>1, <2>2, <2>3 DEF results
<1>5. CASE ~(writer = "rows" /\ columns > 0)
  <2>1. /\ Flushed \in Decoder /\ Flushed.phase = "head" /\ Flushed.due = <<>>
        /\ Flushed.results = submitted
    BY FlushedType
  <2>2. PICK d \in Decoder :
          /\ Reaches(Flushed, <<ERR>>, d, results) /\ <<ERR>> \in Seq(Packet)
          /\ d.phase = "done" /\ d.results = results
    BY <1>3, <2>1
  <2>3. /\ Reaches(client, Finalized(last_end, TRUE) \o <<ERR>>, d, results)
        /\ Finalized(last_end, TRUE) \o <<ERR>> \in Seq(Packet)
    BY <1>2, <1>5, <2>2, FinalizedRead
  <2> QED
    BY <2>2, <2>3 DEF results
<1> QED
  BY <1>4, <1>5

LEMMA ErrorEndsStep ==
  ASSUME Inv, Quiet, NEW w, w # "none", Holds(w), ErrorEnds,
         col' \in Nat, exhausted' \in BOOLEAN
  PROVE  Inv'
<1> DEFINE packets == Finalized(last_end, TRUE) \o <<ERR>>
           results == Append(submitted, Error)
<1>1. ~torn /\ ~completion /\ AtRest(client) /\ writer # "none"
  BY Resting
<1>2. PICK d \in Decoder :
        /\ Reaches(client, packets, d, results) /\ packets \in Seq(Packet)
        /\ d.phase = "done" /\ d.results = results
  BY <1>1, ErrorEndsRead DEF ErrorEnds
<1>3. packets # <<>>
  <2>1. Finalized(last_end, TRUE) = <<>> \/ Finalized(last_end, TRUE) = <<Terminator(last_end, TRUE)>>
    BY DEF Finalized
  <2>2. /\ <<>> \o <<ERR>> # <<>>
        /\ <<Terminator(last_end, TRUE)>> \o <<ERR>> # <<>>
    <3> DEFINE t == Terminator(last_end, TRUE)
    <3>1. <<t>> \o <<ERR>> = <<t, ERR>>
      BY Two
    <3> HIDE DEF t
    <3> QED
      BY <3>1 DEF t
  <2> QED
    BY <2>1, <2>2
<1>4. /\ outgoing' = packets /\ submitted' = results
      /\ call' \in CallType /\ call'.op = "complete" /\ call'.cursor = FALSE
      /\ call'.exhausted = (command = "fetch")
      /\ session_status' \in SUBSET DurableFlag
      /\ writer' = "none" /\ last_end' = NoEnd
      /\ UNCHANGED <<outside, default_status, columns, rows, cursor_open>>
  BY DEF ErrorEnds, Submits, CallType, Idle, SessionStatusFlags, outside
<1> HIDE DEF packets
<1>5. results \in Seq(ClientResult) /\ results # <<>> /\ results[Len(results)] = Error
  BY SMTT(60), ErrorType DEF Inv, TypeOK
<1> HIDE DEF results
<1>6. Told'
  <2>1. Final' = Error
    BY <1>4, <1>5 DEF Final
  <2> QED
    BY <1>1, <1>4, <1>5, <2>1 DEF Told, Error, outside, fixed
<1> QED
  BY <1>2, <1>3, <1>4, <1>5, <1>6, LastCall

LEMMA ErrorStep ==
  ASSUME Inv, Quiet, QueryError \/ FinishError
  PROVE  Inv'
<1>1. CASE QueryError
  <2>1. PICK w \in {"query", "execute_cursor"} : Holds(w)
    BY <1>1 DEF QueryError
  <2>2. col' \in Nat /\ exhausted' \in BOOLEAN
    BY <1>1 DEF QueryError, Inv, TypeOK
  <2> QED
    BY <1>1, <2>1, <2>2, ErrorEndsStep DEF QueryError
<1>2. CASE FinishError
  <2>1. Holds("rows") /\ col' \in Nat /\ exhausted' \in BOOLEAN
    BY <1>2 DEF FinishError
  <2> QED
    BY <1>2, <2>1, ErrorEndsStep DEF FinishError
<1> QED
  BY <1>1, <1>2

LEMMA AppendFinal ==
  ASSUME NEW S, NEW s \in Seq(S), NEW r \in S, NEW t, t = Append(s, r)
  PROVE  t \in Seq(S) /\ t # <<>> /\ t[Len(t)] = r
OBVIOUS

LEMMA FlagKinds ==
  DurableFlag \subseteq Flag /\ CursorFlags \subseteq Flag /\ ReportedFlag \subseteq Flag
BY DEF Flag, ReportedFlag

LEMMA ResultType ==
  ASSUME NEW n \in 0 .. MaxRows, NEW status, status \in SUBSET Flag
  PROVE  RowSet(n, status) \in ClientResult /\ Ok(status) \in ClientResult
<1> DEFINE told == status \ {"MORE_RESULTS"}
<1>1. told \in SUBSET UNION (BackendStatus \cup {DurableFlag, CursorFlags})
  BY DEF Flag
<1>2. RowSet(n, status) = [kind |-> "set", rows |-> n, status |-> told]
  BY DEF RowSet
<1>3. Ok(status) = [kind |-> "ok", rows |-> 0, status |-> told]
  BY DEF Ok
<1> HIDE DEF told
<1> QED
  BY <1>1, <1>2, <1>3, BoundAssumption DEF ClientResult

LEMMA OpenStep ==
  ASSUME Inv, Quiet, NEW n \in ColumnCount, Open(n)
  PROVE  Inv'
<1> DEFINE status == CursorStatus("CURSOR_EXISTS")
           result == RowSet(0, status)
           packets == CursorHeader(n, status)
                        \o <<Terminator([type |-> CursorEnd, status |-> status], FALSE)>>
<1>1. /\ ~torn /\ ~completion /\ client \in Decoder /\ client.due = <<>> /\ AtRest(client)
      /\ writer = "execute_cursor" /\ Holds("execute_cursor")
  BY Resting DEF Open
<1>2. n \in Nat /\ n # 0
  BY BackendAssumption DEF Open
<1>3. /\ status \in SUBSET Flag /\ "CURSOR_EXISTS" \in status /\ result \in ClientResult
      /\ result.kind = "set" /\ result.status = status \ {"MORE_RESULTS"}
  <2>1. status \in SUBSET Flag /\ "CURSOR_EXISTS" \in status
    BY FlagKinds DEF CursorStatus, SessionStatusFlags, CursorFlags
  <2> HIDE DEF status
  <2>2. result \in ClientResult
    BY <2>1, BoundAssumption, ResultType
  <2> QED
    BY <2>1, <2>2 DEF RowSet
<1>4. last_end = NoEnd /\ command = "execute_cursor"
  BY <1>1 DEF Inv, Shape
<1>5. client.phase = "head" /\ client.rows = 0 /\ submitted = client.results
  BY <1>1, <1>4 DEF AtRest
<1>6. /\ outgoing' = packets /\ submitted' = Append(submitted, result)
      /\ call' \in CallType /\ call'.op = "complete" /\ call'.cursor = TRUE
      /\ session_status' = SessionStatusFlags(status)
      /\ writer' = "none"
      /\ UNCHANGED <<outside, last_end, default_status, columns, col, rows, exhausted, cursor_open>>
  BY DEF Open, Submits, CallType, Idle, outside
<1> HIDE DEF status
<1>7. /\ Reaches(client, packets, Got(Headed(client, n), result, FALSE), submitted')
      /\ packets \in Seq(Packet) /\ packets # <<>>
  BY <1>1, <1>2, <1>3, <1>5, <1>6, OpenRead
<1> HIDE DEF packets, result
<1>8. PICK d \in Decoder : /\ Reaches(client, packets, d, submitted')
                           /\ d.phase = "done" /\ d.results = submitted'
  <2>1. Headed(client, n) \in Decoder /\ Headed(client, n).results = submitted
    BY <1>1, <1>2, <1>5, HeadedType
  <2> QED
    BY <1>3, <1>6, <1>7, <2>1, GotType
<1>9. submitted' \in Seq(ClientResult) /\ submitted' # <<>> /\ submitted'[Len(submitted')] = result
  BY SMTT(60), <1>3, <1>6, AppendFinal DEF Inv, TypeOK
<1>10. Told'
  <2>1. Final' = result
    BY <1>9 DEF Final
  <2>2. SessionStatusFlags(status) = SessionStatusFlags(result.status)
    BY <1>3, BackendAssumption DEF SessionStatusFlags
  <2> QED
    BY <1>1, <1>3, <1>4, <1>6, <1>9, <2>1, <2>2 DEF Told, SessionStatusFlags, outside, fixed
<1>11. /\ session_status' \in SUBSET DurableFlag /\ col' \in Nat /\ exhausted' \in BOOLEAN
       /\ last_end' = NoEnd
  BY <1>4, <1>6 DEF SessionStatusFlags, Inv, TypeOK
<1> QED
  BY <1>1, <1>6, <1>7, <1>8, <1>9, <1>10, <1>11, LastCall

(* A terminator, an OK or an ERR alone ends the response.                  *)
LEMMA OneEnds ==
  ASSUME NEW c \in Decoder, c.phase \in {"head", "rows"}, NEW p, p \in Packet,
         NEW result, result \in ClientResult, Decode(c, p) = Got(c, result, FALSE)
  PROVE  /\ <<p>> \in Seq(Packet) /\ <<p>> # <<>>
         /\ \E d \in Decoder : /\ Reaches(c, <<p>>, d, Append(c.results, result))
                               /\ d.phase = "done" /\ d.results = Append(c.results, result)
<1> DEFINE results == Append(c.results, result)
<1>1. results \in Seq(ClientResult)
  BY DEF Decoder
<1> HIDE DEF results
<1>2. Begins(results, results)
  BY <1>1, BeginsAppend
<1>3. Takes(c, p, Got(c, result, FALSE), results) /\ Got(c, result, FALSE) \in Decoder
  BY <1>2, GotTaken DEF results
<1>4. Got(c, result, FALSE).phase = "done" /\ Got(c, result, FALSE).results = results
  BY GotType DEF results
<1>5. Reaches(c, <<p>>, Got(c, result, FALSE), results) /\ <<p>> \in Seq(Packet) /\ <<p>> # <<>>
  BY <1>3, ReachesOne
<1> QED
  BY <1>3, <1>4, <1>5 DEF results

LEMMA FinishFetchStep ==
  ASSUME Inv, Quiet, NEW last \in BOOLEAN, FinishFetch(last)
  PROVE  Inv'
<1> DEFINE status == CursorStatus(BatchFlag(last))
           result == RowSet(rows, status)
           end == [type |-> CursorEnd, status |-> status]
           p == Terminator(end, FALSE)
<1>1. /\ ~torn /\ ~completion /\ client \in Decoder /\ client.due = <<>> /\ AtRest(client)
      /\ writer = "rows" /\ Holds("rows") /\ call.op = "idle"
  BY Resting DEF FinishFetch
<1>2. command = "fetch" /\ columns > 0 /\ last_end = NoEnd /\ rows \in 0 .. MaxRows
  BY <1>1 DEF FinishFetch, Inv, Shape, TypeOK
<1>3. client.phase = "rows" /\ client.rows = rows /\ submitted = client.results
  BY <1>1, <1>2 DEF AtRest, RowsWritten
<1>4. /\ status \in SUBSET Flag /\ (last <=> "CURSOR_EXISTS" \notin status)
      /\ result \in ClientResult /\ result.kind = "set"
      /\ result.status = status \ {"MORE_RESULTS"}
  <2>1. "CURSOR_EXISTS" \notin DurableFlag
    BY BackendAssumption DEF CursorFlags
  <2>2. status \in SUBSET Flag /\ (last <=> "CURSOR_EXISTS" \notin status)
    BY <2>1, FlagKinds DEF CursorStatus, BatchFlag, SessionStatusFlags, CursorFlags
  <2> HIDE DEF status
  <2>3. result \in ClientResult
    BY <1>2, <2>2, ResultType
  <2> QED
    BY <2>2, <2>3 DEF RowSet
<1>5. /\ outgoing' = <<p>> /\ submitted' = Append(submitted, result)
      /\ call' \in CallType /\ call'.op = "complete" /\ call'.exhausted = last
      /\ session_status' = SessionStatusFlags(status)
      /\ writer' = "none"
      /\ UNCHANGED <<outside, last_end, default_status, columns, col, rows, exhausted, cursor_open>>
  BY DEF FinishFetch, Submits, CallType, Idle, outside
<1> HIDE DEF status
<1>6. end \in End /\ end.type = CursorEnd /\ end.status = status
  BY <1>4 DEF End, CursorEnd
<1>7. result = RowSet(client.rows, end.status)
  BY <1>3, <1>6
<1> HIDE DEF end, result
<1>8. p \in Packet /\ Decode(client, p) = Got(client, result, FALSE)
  <2>1. p \in Packet
    BY <1>6, TerminatorType
  <2>2. Decode(client, p) = Got(client, result, FALSE)
    BY <1>1, <1>3, <1>4, <1>6, <1>7, TerminatorRead
  <2> QED
    BY <2>1, <2>2
<1> HIDE DEF p
<1>9. /\ outgoing' \in Seq(Packet) /\ outgoing' # <<>>
      /\ \E d \in Decoder : /\ Reaches(client, outgoing', d, submitted')
                            /\ d.phase = "done" /\ d.results = submitted'
  <2>1. /\ <<p>> \in Seq(Packet) /\ <<p>> # <<>>
        /\ \E d \in Decoder : /\ Reaches(client, <<p>>, d, Append(client.results, result))
                              /\ d.phase = "done" /\ d.results = Append(client.results, result)
    BY <1>1, <1>3, <1>4, <1>8, OneEnds
  <2> QED
    BY <1>3, <1>5, <2>1
<1>10. submitted' \in Seq(ClientResult) /\ submitted' # <<>> /\ submitted'[Len(submitted')] = result
  BY SMTT(60), <1>4, <1>5, AppendFinal DEF Inv, TypeOK
<1>11. Told'
  <2>1. Final' = result
    BY <1>10 DEF Final
  <2>2. SessionStatusFlags(status) = SessionStatusFlags(result.status)
    BY <1>4, BackendAssumption DEF SessionStatusFlags
  <2> QED
    BY <1>1, <1>2, <1>4, <1>5, <1>10, <2>1, <2>2 DEF Told, SessionStatusFlags, outside, fixed
<1>12. /\ session_status' \in SUBSET DurableFlag /\ col' \in Nat /\ exhausted' \in BOOLEAN
       /\ last_end' = NoEnd
  BY <1>2, <1>5 DEF SessionStatusFlags, Inv, TypeOK
<1> QED
  BY <1>1, <1>5, <1>9, <1>10, <1>11, <1>12, LastCall

LEMMA InitOkStep ==
  ASSUME Inv, Quiet, NEW status \in BackendStatus \cup {session_status}, InitOk(status)
  PROVE  Inv'
<1> DEFINE result == Ok(status)
           end == [type |-> "OK", status |-> status]
<1>1. /\ ~torn /\ ~completion /\ client \in Decoder /\ client.due = <<>> /\ AtRest(client)
      /\ writer = "init" /\ Holds("init")
  BY Resting DEF InitOk
<1>2. command = "init" /\ last_end = NoEnd
  BY <1>1 DEF Inv, Shape
<1>3. client.phase = "head" /\ submitted = client.results
  BY <1>1, <1>2 DEF AtRest
<1>4. status \in SUBSET ReportedFlag /\ "MORE_RESULTS" \notin status
  BY DEF InitOk, Inv, TypeOK, ReportedFlag
<1>5. result \in ClientResult /\ result.kind = "ok" /\ result.status = status
  BY <1>4, BoundAssumption DEF Ok, ClientResult, ReportedFlag
<1>6. /\ outgoing' = <<OK(status)>> /\ submitted' = Append(submitted, result)
      /\ call' \in CallType /\ call'.op = "complete"
      /\ session_status' = SessionStatusFlags(status)
      /\ writer' = "none"
      /\ UNCHANGED <<outside, last_end, default_status, columns, col, rows, exhausted, cursor_open>>
  BY DEF InitOk, Submits, CallType, Idle, outside
<1>7. end \in End /\ end.type = "OK" /\ end.status = status
  BY <1>4 DEF End, ReportedFlag, Flag
<1>8. OK(status) = Terminator(end, FALSE)
  BY <1>4 DEF OK, Terminator, MoreResults
<1>9. result = Ok(end.status)
  BY <1>7
<1> HIDE DEF end, result
<1>10. OK(status) \in Packet /\ Decode(client, OK(status)) = Got(client, result, FALSE)
  <2>1. Terminator(end, FALSE) \in Packet
    BY <1>7, TerminatorType
  <2>2. Decode(client, Terminator(end, FALSE)) = Got(client, result, FALSE)
    BY <1>1, <1>3, <1>5, <1>7, <1>9, TerminatorRead
  <2> QED
    BY <1>8, <2>1, <2>2
<1>11. /\ outgoing' \in Seq(Packet) /\ outgoing' # <<>>
       /\ \E d \in Decoder : /\ Reaches(client, outgoing', d, submitted')
                             /\ d.phase = "done" /\ d.results = submitted'
  <2> DEFINE p == OK(status)
  <2>1. p \in Packet /\ Decode(client, p) = Got(client, result, FALSE) /\ outgoing' = <<p>>
    BY <1>6, <1>10
  <2> HIDE DEF p
  <2>2. /\ <<p>> \in Seq(Packet) /\ <<p>> # <<>>
        /\ \E d \in Decoder : /\ Reaches(client, <<p>>, d, Append(client.results, result))
                              /\ d.phase = "done" /\ d.results = Append(client.results, result)
    BY <1>1, <1>3, <1>5, <2>1, OneEnds
  <2> QED
    BY <1>3, <1>6, <2>1, <2>2
<1>12. submitted' \in Seq(ClientResult) /\ submitted' # <<>> /\ submitted'[Len(submitted')] = result
  BY SMTT(60), <1>5, <1>6, AppendFinal DEF Inv, TypeOK
<1>13. Told'
  <2>1. Final' = result
    BY <1>12 DEF Final
  <2> QED
    BY <1>2, <1>5, <1>6, <1>12, <2>1 DEF Told, SessionStatusFlags, outside, fixed
<1>14. /\ session_status' \in SUBSET DurableFlag /\ col' \in Nat /\ exhausted' \in BOOLEAN
       /\ last_end' = NoEnd
  BY <1>2, <1>6 DEF SessionStatusFlags, Inv, TypeOK
<1> QED
  BY <1>1, <1>6, <1>11, <1>12, <1>13, <1>14, LastCall

LEMMA PlainErrorStep ==
  ASSUME Inv, Quiet, PlainError
  PROVE  Inv'
<1>1. PICK w \in {"init", "prepare"} : Holds(w)
  BY DEF PlainError
<1>2. /\ ~torn /\ ~completion /\ client \in Decoder /\ client.due = <<>> /\ AtRest(client)
      /\ writer = w
  BY <1>1, Resting
<1>3. command \in {"init", "prepare"} /\ last_end = NoEnd
  BY <1>2 DEF Inv, Shape
<1>4. client.phase = "head" /\ submitted = client.results
  BY <1>2, <1>3 DEF AtRest
<1>5. /\ outgoing' = <<ERR>> /\ submitted' = Append(submitted, Error)
      /\ call' \in CallType /\ call'.op = "complete"
      /\ writer' = "none"
      /\ UNCHANGED <<outside, last_end, default_status, session_status, columns, col, rows,
                     exhausted, cursor_open>>
  BY DEF PlainError, Submits, CallType, Idle, outside
<1>6. ERR \in Packet /\ Error \in ClientResult /\ Decode(client, ERR) = Got(client, Error, FALSE)
  BY <1>2, <1>4, ErrorRead, ErrorType
<1>7. /\ outgoing' \in Seq(Packet) /\ outgoing' # <<>>
      /\ \E d \in Decoder : /\ Reaches(client, outgoing', d, submitted')
                            /\ d.phase = "done" /\ d.results = submitted'
  BY <1>2, <1>4, <1>5, <1>6, OneEnds
<1>8. submitted' \in Seq(ClientResult) /\ submitted' # <<>> /\ submitted'[Len(submitted')] = Error
  BY <1>5, <1>6, AppendFinal DEF Inv, TypeOK
<1>9. Told'
  <2>1. Final' = Error
    BY <1>8 DEF Final
  <2> QED
    BY <1>3, <1>5, <1>8, <2>1 DEF Told, Error, outside, fixed
<1>10. /\ session_status' \in SUBSET DurableFlag /\ col' \in Nat /\ exhausted' \in BOOLEAN
       /\ last_end' = NoEnd
  BY <1>3, <1>5 DEF Inv, TypeOK
<1> QED
  BY <1>1, <1>5, <1>7, <1>8, <1>9, <1>10, LastCall

LEMMA PrepareReplyStep ==
  ASSUME Inv, Quiet, NEW params \in ColumnCount, NEW n \in ColumnCount, PrepareReply(params, n)
  PROVE  Inv'
<1> DEFINE result == Prepared(params, n)
           packets == ReplyPackets(params, n)
<1>1. /\ ~torn /\ ~completion /\ client \in Decoder /\ client.due = <<>> /\ AtRest(client)
      /\ writer = "prepare" /\ Holds("prepare")
  BY Resting DEF PrepareReply
<1>2. command = "prepare" /\ last_end = NoEnd
  BY <1>1 DEF Inv, Shape
<1>3. client.phase = "head" /\ submitted = client.results
  BY <1>1, <1>2 DEF AtRest
<1>4. /\ params \in Nat /\ n \in Nat
      /\ result \in ClientResult /\ result.kind = "prepared" /\ session_status \in SUBSET DurableFlag
  BY BackendAssumption DEF Prepared, ClientResult, Inv, TypeOK
<1>5. /\ outgoing' = packets /\ submitted' = Append(submitted, result)
      /\ call' \in CallType /\ call'.op = "complete"
      /\ writer' = "none"
      /\ UNCHANGED <<outside, last_end, default_status, session_status, columns, col, rows,
                     exhausted, cursor_open>>
  BY DEF PrepareReply, ReplyPackets, Submits, CallType, Idle, outside
<1>6. \E d \in Decoder :
        /\ Reaches(client, packets, d, submitted') /\ packets \in Seq(Packet) /\ packets # <<>>
        /\ d.phase = "done" /\ d.results = submitted'
  <2> DEFINE results == Append(client.results, Prepared(params, n))
  <2>1. results = submitted' /\ results = Append(client.results, Prepared(params, n))
    BY <1>3, <1>5
  <2> HIDE DEF results
  <2>2. \E d \in Decoder :
          /\ Reaches(client, packets, d, results)
          /\ packets \in Seq(Packet) /\ packets # <<>>
          /\ d.phase = "done" /\ d.results = results
    <3>1. Prepared(params, n) \in ClientResult
      BY <1>4
    <3> QED
      BY <1>1, <1>3, <1>4, <2>1, <3>1, PrepareRead
  <2> QED
    BY <2>1, <2>2
<1> HIDE DEF packets, result
<1>7. submitted' \in Seq(ClientResult) /\ submitted' # <<>> /\ submitted'[Len(submitted')] = result
  BY <1>4, <1>5, AppendFinal DEF Inv, TypeOK
<1>8. Told'
  <2>1. Final' = result
    BY <1>7 DEF Final
  <2> QED
    BY <1>2, <1>4, <1>5, <1>7, <2>1 DEF Told, outside, fixed
<1>9. /\ session_status' \in SUBSET DurableFlag /\ col' \in Nat /\ exhausted' \in BOOLEAN
       /\ last_end' = NoEnd
  BY <1>2, <1>4, <1>5 DEF Inv, TypeOK
<1> QED
  BY <1>1, <1>5, <1>6, <1>7, <1>8, <1>9, LastCall

-----------------------------------------------------------------------------
(* The operations of RowWriter and CursorFetchWriter.                      *)

LEMMA OneRow ==
  ASSUME Inv, ~torn, AtRest(client), call.op = "idle", writer = "rows", columns > 0,
         NEW n \in Nat, n = columns, NEW results
  PROVE  /\ <<ROW(n)>> \in Seq(Packet) /\ <<ROW(n)>> # <<>> /\ Len(<<ROW(n)>>) = 1
         /\ \E d \in Decoder :
              /\ Reaches(client, <<ROW(n)>>, d, results)
              /\ d.phase = "rows" /\ d.due = <<>> /\ d.n = columns /\ d.rows = rows + 1
              /\ d.results = submitted
<1>1. /\ client \in Decoder /\ client.due = <<>> /\ client.phase = "rows" /\ client.n = columns
      /\ client.rows = rows /\ client.results = submitted
  BY DEF Inv, TypeOK, AtRest, RowsWritten
<1> DEFINE d == [client EXCEPT !.rows = @ + 1]
           p == ROW(n)
<1>2. p \in Packet /\ Decode(client, p) = d /\ d \in Decoder
  BY <1>1, RowRead
<1>3. /\ d.phase = "rows" /\ d.due = <<>> /\ d.n = columns /\ d.rows = rows + 1
      /\ d.results = submitted
  BY <1>1 DEF Decoder
<1> HIDE DEF d, p
<1>4. Takes(client, p, d, results)
  BY <1>1, <1>2, <1>3 DEF Takes, Delivers
<1>5. Reaches(client, <<p>>, d, results) /\ <<p>> \in Seq(Packet) /\ <<p>> # <<>>
  BY <1>1, <1>2, <1>4, ReachesOne
<1>6. Len(<<p>>) = 1
  OBVIOUS
<1> QED
  BY <1>2, <1>3, <1>5, <1>6 DEF p

LEMMA RowSent ==
  ASSUME Inv, Quiet, Holds("rows"), columns > 0, NEW n \in Nat, n = columns, rows < MaxRows,
         Emits("row", <<ROW(n)>>), col' \in Nat,
         UNCHANGED <<outside, writer, last_end, default_status, session_status, columns,
                     exhausted, cursor_open, rows, submitted>>
  PROVE  Inv'
<1>1. /\ ~torn /\ ~completion /\ handler = "running" /\ AtRest(client) /\ writer = "rows"
      /\ call.op = "idle"
  BY Resting
<1>2. PICK d \in Decoder :
        /\ Reaches(client, <<ROW(n)>>, d, submitted')
        /\ d.phase = "rows" /\ d.due = <<>> /\ d.n = columns /\ d.rows = rows + 1
        /\ d.results = submitted
  BY <1>1, OneRow
<1>3. <<ROW(n)>> \in Seq(Packet) /\ <<ROW(n)>> # <<>> /\ Len(<<ROW(n)>>) = 1
  BY <1>1, OneRow
<1>4. outgoing' = <<ROW(n)>> /\ call' \in CallType /\ call'.op = "row"
  BY <1>3 DEF Emits, Idle, CallType
<1>5. TypeOK'
  BY <1>3, <1>4 DEF Inv, TypeOK, CallType, outside, fixed, CursorEnd
<1>6. Shape'
  BY <1>1, <1>3, <1>4 DEF Inv, Shape, outside, fixed
<1>7. Told' /\ HeldBack'
  BY <1>1, <1>4 DEF Inv, Shape, Told, HeldBack, outside
<1>8. AtRest(d)'
  BY <1>1, <1>2, <1>4 DEF Inv, Shape, AtRest, RowsWritten, outside
<1>9. Arrives'
  BY <1>2, <1>4, <1>8, ArrivesNext DEF outside
<1> QED
  BY <1>1, <1>5, <1>6, <1>7, <1>9 DEF Inv, outside

(* Columns and rows the client is not told of.                             *)
LEMMA NothingSent ==
  ASSUME Inv, Quiet, Holds("rows"), col' \in Nat,
         rows' \in 0 .. MaxRows, columns > 0 => rows' = rows,
         UNCHANGED <<outside, writer, last_end, default_status, session_status, columns,
                     exhausted, cursor_open, outgoing, call, submitted>>
  PROVE  Inv'
<1>1. /\ ~torn /\ ~completion /\ AtRest(client) /\ writer = "rows" /\ call.op = "idle"
      /\ outgoing = <<>>
  BY Resting
<1>2. TypeOK'
  BY DEF Inv, TypeOK, outside, fixed, CursorEnd
<1>3. Shape' /\ Told' /\ HeldBack'
  BY <1>1 DEF Inv, Shape, Told, HeldBack, Final, outside, fixed
<1>4. AtRest(client)'
  BY <1>1 DEF Inv, Shape, TypeOK, AtRest, RowsWritten, outside
<1>5. Arrives'
  BY <1>1, <1>4, StaysAtRest DEF outside
<1> QED
  BY <1>1, <1>2, <1>3, <1>5 DEF Inv, outside

LEMMA EndRowStep ==
  ASSUME Inv, Quiet, EndRow
  PROVE  Inv'
<1>1. Holds("rows") /\ rows < MaxRows /\ rows \in 0 .. MaxRows /\ col \in Nat /\ columns \in Nat
  BY DEF EndRow, Inv, TypeOK
<1>2. CASE columns = 0
  <2>1. col' \in Nat /\ rows' \in 0 .. MaxRows
    BY <1>1, <1>2, BoundAssumption DEF EndRow
  <2> QED
    BY <1>1, <1>2, <2>1, NothingSent DEF EndRow
<1>3. CASE columns # 0
  <2>1. columns > 0 /\ col = columns /\ col' = col /\ rows' = rows
    BY <1>1, <1>3 DEF EndRow, RowIsWhole
  <2>2. Emits("row", <<ROW(col)>>)
    BY <1>3 DEF EndRow
  <2> QED
    BY <1>1, <2>1, <2>2, RowSent DEF EndRow
<1> QED
  BY <1>2, <1>3

LEMMA FinishOneStep ==
  ASSUME Inv, Quiet, FinishOne
  PROVE  Inv'
<1> DEFINE pending == columns > 0 /\ col # 0
           count == IF columns = 0 THEN 0 ELSE IF pending THEN rows + 1 ELSE rows
           end == IF columns = 0 THEN "OK" ELSE CursorEnd
           result == IF columns = 0 THEN Ok(default_status) ELSE RowSet(count, default_status)
           packets == IF pending THEN <<ROW(col)>> ELSE <<>>
<1>1. /\ ~torn /\ ~completion /\ handler = "running" /\ AtRest(client) /\ client.due = <<>>
      /\ writer = "rows" /\ call.op = "idle" /\ client \in Decoder
  BY Resting DEF FinishOne
<1>2. /\ columns \in Nat /\ col \in Nat /\ rows \in 0 .. MaxRows
      /\ default_status \in SUBSET ReportedFlag /\ submitted \in Seq(ClientResult)
      /\ last_end = NoEnd /\ command # "fetch" /\ command \in {"query", "execute", "fetch"}
  BY <1>1 DEF Inv, TypeOK, Shape, FinishOne
<1>3. /\ pending => col = columns /\ rows < MaxRows
      /\ outgoing' = packets
      /\ call' = [Idle EXCEPT !.op = IF packets = <<>> THEN "idle" ELSE "consume"]
      /\ last_end' = [type |-> end, status |-> default_status]
      /\ default_status' = SessionStatusFlags(default_status)
      /\ submitted' = Append(submitted, result)
      /\ writer' = "query" /\ col' = 0 /\ rows' = 0
      /\ UNCHANGED <<outside, session_status, columns, remaining, exhausted, cursor_open>>
  BY DEF FinishOne, RowIsWhole, Emits, Submits, CursorEnd
<1>4. result \in ClientResult /\ result.status = default_status \ {"MORE_RESULTS"}
  <2>1. count \in 0 .. MaxRows
    BY <1>2, <1>3, BoundAssumption
  <2>2. default_status \in SUBSET Flag
    BY <1>2, FlagKinds
  <2> HIDE DEF count
  <2>3. RowSet(count, default_status) \in ClientResult /\ Ok(default_status) \in ClientResult
    BY <2>1, <2>2, ResultType
  <2> QED
    BY <2>3 DEF RowSet, Ok
<1>5. packets \in Seq(Packet) /\ \E d \in Decoder :
        /\ Reaches(client, packets, d, submitted')
        /\ d.due = <<>> /\ d.results = submitted
        /\ IF columns = 0 THEN d.phase = "head" /\ d.rows = 0
                          ELSE d.phase = "rows" /\ d.rows = count
  <2>1. CASE pending
    <3>1. columns > 0 /\ col = columns /\ columns # 0 /\ packets = <<ROW(col)>> /\ count = rows + 1
      BY <1>2, <1>3, <2>1
    <3>2. /\ <<ROW(col)>> \in Seq(Packet)
          /\ \E d \in Decoder :
               /\ Reaches(client, <<ROW(col)>>, d, submitted')
               /\ d.phase = "rows" /\ d.due = <<>> /\ d.n = columns /\ d.rows = rows + 1
               /\ d.results = submitted
      BY <1>1, <1>2, <3>1, OneRow
    <3> HIDE DEF packets, count
    <3> QED
      BY <3>1, <3>2
  <2>2. CASE ~pending
    <3>1. packets = <<>> /\ Reaches(client, <<>>, client, submitted') /\ <<>> \in Seq(Packet)
      BY <1>1, <2>2, ReachesItself
    <3>2. client.results = submitted
      BY <1>1, <1>2 DEF AtRest
    <3>3. IF columns = 0 THEN client.phase = "head" /\ client.rows = 0
                         ELSE client.phase = "rows" /\ client.rows = count
      BY <1>1, <1>2, <2>2 DEF AtRest, RowsWritten
    <3> HIDE DEF packets, count
    <3> QED
      BY <1>1, <3>1, <3>2, <3>3
  <2> QED
    BY <2>1, <2>2
<1>6. PICK d \in Decoder :
        /\ Reaches(client, packets, d, submitted')
        /\ d.due = <<>> /\ d.results = submitted
        /\ IF columns = 0 THEN d.phase = "head" /\ d.rows = 0
                          ELSE d.phase = "rows" /\ d.rows = count
  BY <1>5
<1> HIDE DEF packets, count
<1>7. result = IF columns = 0 THEN Ok(default_status) ELSE RowSet(count, default_status)
  OBVIOUS
<1> HIDE DEF result
<1>8. /\ call' \in CallType /\ call'.op = IF outgoing' = <<>> THEN "idle" ELSE "consume"
  BY <1>3 DEF Idle, CallType
<1>9. /\ submitted' \in Seq(ClientResult) /\ submitted' # <<>> /\ submitted'[Len(submitted')] = result
  BY <1>2, <1>3, <1>4, AppendFinal
<1>10. /\ last_end'.type = end /\ last_end'.status = default_status /\ last_end' # NoEnd
       /\ end # "none" /\ CursorEnd # "OK" /\ CursorEnd' = CursorEnd
       /\ last_end' \in [type : {"OK", CursorEnd'}, status : SUBSET ReportedFlag]
  BY <1>2, <1>3 DEF NoEnd, CursorEnd, outside, fixed
<1>11. TypeOK'
  <2>1. default_status' \in SUBSET ReportedFlag
    BY <1>3 DEF SessionStatusFlags, ReportedFlag
  <2>2. outgoing' \in Seq(Packet) /\ rows' \in 0 .. MaxRows /\ col' \in Nat
    BY <1>3, <1>5, BoundAssumption
  <2> QED
    BY <1>3, <1>8, <1>9, <1>10, <2>1, <2>2 DEF Inv, TypeOK, CallType, outside, fixed
<1>12. Shape'
  BY <1>1, <1>2, <1>3, <1>8 DEF Inv, Shape, outside, fixed
<1>13. Told' /\ HeldBack'
  BY <1>1, <1>3, <1>4, <1>8, <1>9, <1>10 DEF Told, HeldBack, Final, outside
<1>14. AtRest(d)'
  <2>1. completion' = completion /\ writer' = "query" /\ submitted' = Append(d.results, result)
    BY <1>3, <1>6 DEF outside
  <2> QED
    BY <1>6, <1>7, <1>10, <2>1 DEF AtRest
<1>15. Arrives'
  <2>1. UNCHANGED <<fixed, torn>> /\ Reaches(client', outgoing', d, submitted')
    BY <1>3, <1>6 DEF outside
  <2> QED
    BY <1>14, <2>1, ArrivesNext
<1> QED
  BY <1>1, <1>3, <1>11, <1>12, <1>13, <1>15 DEF Inv, outside

LEMMA WriteRowWithStep ==
  ASSUME Inv, Quiet, WriteRowWith, rows < MaxRows
  PROVE  Inv'
<1>1. PICK n \in col .. columns, encoded \in BOOLEAN :
        /\ col' = n
        /\ IF encoded /\ n = columns
             THEN Emits("row", <<ROW(n)>>)
             ELSE UNCHANGED <<outgoing, call>>
  BY DEF WriteRowWith
<1>2. /\ Holds("rows") /\ command = "fetch" /\ col \in Nat /\ columns \in Nat /\ columns > 0
      /\ rows \in 0 .. MaxRows
  BY DEF WriteRowWith, Inv, TypeOK, Shape
<1>3. n \in Nat /\ col' \in Nat
  BY <1>1, <1>2
<1>4. UNCHANGED <<outside, writer, last_end, default_status, session_status, columns, remaining,
                  exhausted, cursor_open, rows, submitted>>
  BY DEF WriteRowWith
<1>5. CASE encoded /\ n = columns
  BY <1>1, <1>2, <1>3, <1>4, <1>5, RowSent
<1>6. CASE ~(encoded /\ n = columns)
  BY <1>1, <1>2, <1>3, <1>4, <1>6, NothingSent
<1> QED
  BY <1>5, <1>6

-----------------------------------------------------------------------------
(* Packets go out, or fail to.                                             *)

LEMMA Sending ==
  ASSUME Inv, outgoing # <<>>
  PROVE  /\ ~torn /\ ~completion /\ handler = "running" /\ outgoing \in Seq(Packet)
         /\ client.phase \notin {"done", "confused"}
         /\ Takes(client, Head(outgoing), Decode(client, Head(outgoing)), submitted)
         /\ Decode(client, Head(outgoing)) \in Decoder
         /\ \E d \in Decoder :
              /\ AtRest(d)
              /\ Reaches(Decode(client, Head(outgoing)), Tail(outgoing), d, submitted)
<1>1. ~torn /\ ~completion /\ handler = "running" /\ outgoing \in Seq(Packet)
  BY DEF Inv, TypeOK, Shape, Stopped
<1>2. PICK d \in Decoder : Reaches(client, outgoing, d, submitted) /\ AtRest(d)
  BY <1>1 DEF Inv, Arrives
<1>3. /\ Takes(client, Head(outgoing), Decode(client, Head(outgoing)), submitted)
      /\ Reaches(Decode(client, Head(outgoing)), Tail(outgoing), d, submitted)
  BY <1>1, <1>2, ReachesRest
<1>4. Len(Tail(outgoing)) \in Nat
  BY <1>1
<1> DEFINE e == Decode(client, Head(outgoing))
           later == Tail(outgoing)
<1>5. Reaches(e, later, d, submitted) /\ Len(later) \in Nat
  BY <1>3, <1>4
<1> HIDE DEF e, later
<1>6. e \in Decoder
  BY <1>5 DEF Reaches
<1>7. client.phase \notin {"done", "confused"}
  BY <1>3 DEF Takes
<1> QED
  BY <1>1, <1>2, <1>3, <1>6, <1>7 DEF e

LEMMA WritePacketStep ==
  ASSUME Inv, WritePacket
  PROVE  Inv'
<1> DEFINE last == Len(outgoing) = 1
<1>1. outgoing # <<>> /\ client' = Decode(client, Head(outgoing)) /\ outgoing' = Tail(outgoing)
  BY DEF WritePacket
<1>2. /\ ~torn /\ ~completion /\ handler = "running" /\ outgoing \in Seq(Packet)
      /\ client' \in Decoder
  BY <1>1, Sending
<1>3. PICK d \in Decoder : AtRest(d) /\ Reaches(client', outgoing', d, submitted)
  BY <1>1, Sending
<1>4. outgoing' \in Seq(Packet) /\ (last <=> outgoing' = <<>>)
  <2>1. Len(outgoing) \in Nat \ {0}
    BY <1>1, <1>2
  <2> DEFINE k == Len(outgoing) - 1
  <2>2. k \in Nat /\ Len(outgoing) = k + 1 /\ (last <=> k = 0)
    BY <2>1
  <2> HIDE DEF k
  <2>3. Tail(outgoing) \in Seq(Packet) /\ Len(Tail(outgoing)) = k
    BY <1>2, <2>2, TailOf
  <2>4. Tail(outgoing) = <<>> <=> k = 0
    BY <2>3, EmptySeq
  <2> QED
    BY <1>1, <2>2, <2>3, <2>4
<1>5. /\ call' = (IF last THEN Idle ELSE call)
      /\ completion' = (last /\ call.op = "complete")
      /\ exhausted' = IF last /\ call.op = "complete" THEN call.exhausted ELSE exhausted
      /\ cursor_open' = IF last /\ call.op = "complete" THEN call.cursor ELSE cursor_open
      /\ IF last /\ call.op = "row" THEN col' = 0 /\ rows' = rows + 1
                                    ELSE UNCHANGED <<col, rows>>
      /\ UNCHANGED <<fixed, writer, last_end, default_status, session_status, columns, torn,
                     handler, submitted>>
  BY <1>2 DEF WritePacket
<1> HIDE DEF last
<1>6. /\ call \in CallType /\ call.op # "idle" /\ (call.op = "row" => last)
      /\ call.op = "complete" => writer = "none"
      /\ call.op = "row" => writer = "rows" /\ columns > 0 /\ rows < MaxRows
  BY <1>1 DEF Inv, TypeOK, Shape, CallType, last
<1>7. call' \in CallType /\ (last => call'.op = "idle") /\ (~last => call' = call)
  BY <1>5, <1>6 DEF Idle, CallType
<1>8. TypeOK'
  <2>1. rows' \in 0 .. MaxRows /\ col' \in Nat
    BY <1>5, <1>6, BoundAssumption DEF Inv, TypeOK
  <2>2. exhausted' \in BOOLEAN /\ cursor_open' \in BOOLEAN /\ completion' \in BOOLEAN
    BY <1>5, <1>6 DEF Inv, TypeOK, CallType
  <2> QED
    BY <1>2, <1>4, <1>5, <1>7, <2>1, <2>2 DEF Inv, TypeOK, CallType, fixed, CursorEnd
<1>9. Shape'
  BY <1>2, <1>4, <1>5, <1>6, <1>7 DEF Inv, Shape, fixed
<1>10. Told'
  <2>1. Final' = Final
    BY <1>5 DEF Final
  <2>2. CASE call.op = "complete"
    BY <1>2, <1>5, <1>7, <2>1, <2>2 DEF Inv, Told, SessionStatusFlags, fixed
  <2>3. CASE call.op # "complete"
    BY <1>5, <1>7, <2>3 DEF Told
  <2> QED
    BY <2>2, <2>3
<1>11. HeldBack'
  BY <1>5 DEF Inv, HeldBack, Final
<1>12. AtRest(d)'
  <2>1. writer = "rows" => RowsWritten' = RowsWritten
    BY <1>5, <1>6, <1>7 DEF RowsWritten
  <2>2. writer = "none" => ((completion' \/ call'.op = "complete") <=> call.op = "complete")
    BY <1>5, <1>6, <1>7
  <2>3. CursorEnd' = CursorEnd
    BY <1>5 DEF CursorEnd, fixed
  <2> QED
    BY <1>2, <1>3, <1>5, <2>1, <2>2, <2>3 DEF AtRest
<1>13. Arrives'
  <2>1. UNCHANGED <<fixed, torn>> /\ Reaches(client', outgoing', d, submitted')
    BY <1>3, <1>5
  <2> QED
    BY <1>12, <2>1, ArrivesNext
<1> QED
  BY <1>2, <1>5, <1>8, <1>9, <1>10, <1>11, <1>13 DEF Inv

LEMMA PacketFailsStep ==
  ASSUME Inv, PacketFails
  PROVE  Inv'
<1>1. /\ ~torn /\ ~completion /\ handler = "running"
      /\ client.phase \notin {"done", "confused"} /\ client \in Decoder
  BY Sending DEF PacketFails, Inv, TypeOK
<1>2. /\ outgoing' = <<>> /\ call' = Idle
      /\ torn' \in BOOLEAN
      /\ ~torn' => call.op # "row" /\ torn' = torn
      /\ writer' = IF call.op = "row" THEN writer ELSE "none"
      /\ UNCHANGED <<fixed, last_end, default_status, session_status, columns, col, rows,
                     exhausted, cursor_open, completion, handler, client, submitted>>
  <2>1. torn' = TRUE \/ (call.op # "row" /\ torn' = torn)
    BY DEF PacketFails
  <2>2. torn' \in BOOLEAN
    BY <2>1 DEF Inv, TypeOK
  <2> QED
    BY <2>1, <2>2 DEF PacketFails
<1>3. call' \in CallType /\ call'.op = "idle"
  BY <1>2 DEF Idle, CallType
<1>4. TypeOK'
  BY <1>2, <1>3 DEF Inv, TypeOK, CallType, fixed, CursorEnd
<1>5. Shape'
  BY <1>1, <1>2, <1>3 DEF Inv, Shape, TypeOK, fixed
<1>6. Told' /\ HeldBack'
  BY <1>1, <1>2, <1>3 DEF Inv, Told, HeldBack, Final
<1>7. ASSUME ~torn' PROVE Arrives'
  <2>1. writer' = "none" /\ UNCHANGED <<fixed, torn, client>>
    BY <1>2, <1>7
  <2>2. AtRest(client)'
    BY <1>1, <1>2, <1>3, <2>1 DEF AtRest
  <2> QED
    BY <1>2, <2>1, <2>2, StaysAtRest
<1>8. Stopped'
  BY <1>1, <1>2 DEF Stopped
<1> QED
  BY <1>4, <1>5, <1>6, <1>7, <1>8 DEF Inv

LEMMA StutterStep ==
  ASSUME Inv, UNCHANGED vars
  PROVE  Inv'
<1>1. TypeOK' /\ Shape' /\ Told' /\ HeldBack'
  BY DEF Inv, TypeOK, Shape, Told, HeldBack, Final, SessionStatusFlags, CursorEnd, vars
<1>2. ASSUME ~torn PROVE Arrives'
  <2>1. PICK d \in Decoder : Reaches(client, outgoing, d, submitted) /\ AtRest(d)
    BY <1>2 DEF Inv, Arrives
  <2>2. AtRest(d)'
    BY <2>1 DEF AtRest, RowsWritten, CursorEnd, vars
  <2>3. UNCHANGED <<fixed, torn>> /\ Reaches(client', outgoing', d, submitted')
    BY <2>1 DEF vars, fixed
  <2> QED
    BY <2>2, <2>3, ArrivesNext
<1> QED
  BY <1>1, <1>2 DEF Inv, Stopped, vars

-----------------------------------------------------------------------------
(* A FETCH, whatever fails and whatever the backend does after it: rows    *)
(* written and rows still allowed add up to what the client asked for.     *)

FetchPacket == {p \in Packet : p.type \in {"ROW", "ERR", "EOF", "OK_FE"}}

BatchResults(results, k) == \A i \in DOMAIN results : results[i].rows <= k

Batch ==
  command = "fetch" =>
    /\ writer \in {"rows", "none"} /\ last_end = NoEnd /\ columns \in Nat /\ col \in Nat
    /\ limit \in 0 .. MaxRows /\ remaining \in Nat /\ rows \in Nat /\ remaining + rows = limit
    /\ call.op = "row" => remaining > 0
    /\ outgoing # <<>> =>
         \E p \in FetchPacket : outgoing = <<p>> /\ (p.type = "ROW" => call.op = "row")
    /\ client \in Decoder /\ client.due = <<>> /\ client.rows <= rows
    /\ BatchResults(client.results, limit)

LEMMA FetchRead ==
  ASSUME NEW c \in Decoder, c.due = <<>>, NEW p \in FetchPacket,
         NEW k \in 0 .. MaxRows, c.rows <= k, BatchResults(c.results, k)
  PROVE  /\ Decode(c, p) \in Decoder /\ Decode(c, p).due = <<>>
         /\ Decode(c, p).rows <= c.rows + 1
         /\ p.type # "ROW" => Decode(c, p).rows <= c.rows
         /\ BatchResults(Decode(c, p).results, k)
<1> DEFINE Fits(d) == /\ d \in Decoder /\ d.due = <<>>
                      /\ d.rows <= c.rows + 1
                      /\ p.type # "ROW" => d.rows <= c.rows
                      /\ BatchResults(d.results, k)
<1>1. Fits(Confused(c))
  BY DEF Confused, Decoder, Phase
<1>2. ASSUME p.type = "ROW" PROVE Fits([c EXCEPT !.rows = @ + 1])
  BY SMTT(60), <1>2 DEF Decoder
<1>3. ASSUME NEW result \in ClientResult, result.rows <= k, NEW more \in BOOLEAN
      PROVE  Fits(Got(c, result, more))
  <2> DEFINE d == Got(c, result, more)
  <2>1. d \in Decoder /\ d.due = <<>> /\ d.rows = 0 /\ d.results = Append(c.results, result)
    BY GotType
  <2>2. c.results \in Seq(ClientResult) /\ c.rows \in Nat
    BY DEF Decoder
  <2> HIDE DEF d
  <2>3. BatchResults(d.results, k)
    BY <1>3, <2>1, <2>2 DEF BatchResults
  <2> QED
    BY <2>1, <2>2, <2>3 DEF d
<1>4. ASSUME NEW result \in ClientResult, result.rows <= k, NEW status
      PROVE  Fits(Gets(c, result, status))
  <2>1. \/ Gets(c, result, status) = Got(c, result, FALSE)
        \/ Gets(c, result, status) = Got(c, result, TRUE)
        \/ Gets(c, result, status) = Confused(c)
    BY DEF Gets, Got, Decoder
  <2> HIDE DEF Fits
  <2> QED
    BY <1>1, <1>3, <1>4, <2>1
<1> HIDE DEF Fits
<1>5. Fits(Gets(c, Error, {}))
  <2>1. Error \in ClientResult /\ Error.rows <= k
    BY ErrorType DEF Error
  <2> QED
    BY <1>4, <2>1
<1>6. Fits(Gets(c, RowSet(c.rows, p.status), p.status))
  <2>1. c.rows \in 0 .. MaxRows /\ p.status \in SUBSET Flag
    <3>1. p \in [type : {"COUNT", "DEFS", "ROW", "EOF", "OK", "OK_FE", "ERR"},
                n : Nat, status : SUBSET Flag]
      BY DEF FetchPacket, Packet, Flag
    <3>2. c.rows \in 0 .. MaxRows
      BY BoundAssumption DEF Decoder
    <3> QED
      BY <3>1, <3>2
  <2>2. RowSet(c.rows, p.status) \in ClientResult
    BY <2>1, ResultType
  <2>3. RowSet(c.rows, p.status).rows <= k
    BY DEF RowSet
  <2> QED
    BY <1>4, <2>2, <2>3
<1>7. p.type \in {"ROW", "ERR", "EOF", "OK_FE"}
  BY DEF FetchPacket
<1>8. DecodeHead(c, p) = Confused(c)
  BY <1>7 DEF DecodeHead
<1>9. Fits(DecodeRow(c, p))
  <2>1. \/ p.type = "ROW" /\ DecodeRow(c, p) = [c EXCEPT !.rows = @ + 1]
        \/ DecodeRow(c, p) = Gets(c, RowSet(c.rows, p.status), p.status)
        \/ DecodeRow(c, p) = Confused(c)
    BY <1>7 DEF DecodeRow
  <2> QED
    BY <1>1, <1>2, <1>6, <2>1
<1>10. \/ Decode(c, p) = Confused(c)
       \/ Decode(c, p) = Gets(c, Error, {})
       \/ Decode(c, p) = DecodeHead(c, p)
       \/ Decode(c, p) = DecodeRow(c, p)
  BY DEF Decode
<1>11. Fits(Decode(c, p))
  BY <1>1, <1>5, <1>8, <1>9, <1>10
<1> QED
  BY <1>11 DEF Fits

LEMMA BatchInit == Init => Batch
<1> SUFFICES ASSUME Init, command = "fetch" PROVE Batch
  BY DEF Batch
<1>1. client \in Decoder /\ client.due = <<>> /\ client.rows = 0 /\ client.results = <<>>
  BY BackendAssumption DEF Init, Decoder, Phase
<1>2. columns \in Nat /\ limit \in 0 .. MaxRows
  BY BackendAssumption, BoundAssumption DEF Init
<1>3. BatchResults(<<>>, limit)
  BY DEF BatchResults
<1> QED
  BY <1>1, <1>2, <1>3 DEF Init, Batch, Idle, WriterFor

LEMMA BatchStep == Batch /\ [Next]_vars => Batch'
<1> SUFFICES ASSUME Batch, [Next]_vars, command' = "fetch" PROVE Batch'
  BY DEF Batch
<1>1. command = "fetch" /\ limit' = limit
  BY DEF Next, vars, fixed, outside, SetStatusFlags, Start, Open, CompleteOne, NoMoreResults,
     QueryError, FinishError, ErrorEnds, WriteCol, EndRow, FinishOne, WriteRowWith, FinishFetch,
     PrepareReply, InitOk, PlainError, CallFails, WritePacket, PacketFails, HandlerReturns
<1>2. /\ writer \in {"rows", "none"} /\ last_end = NoEnd /\ columns \in Nat /\ col \in Nat
      /\ limit \in 0 .. MaxRows /\ remaining \in Nat /\ rows \in Nat /\ remaining + rows = limit
      /\ call.op = "row" => remaining > 0
      /\ outgoing # <<>> =>
           \E p \in FetchPacket : outgoing = <<p>> /\ (p.type = "ROW" => call.op = "row")
      /\ client \in Decoder /\ client.due = <<>> /\ client.rows <= rows
      /\ BatchResults(client.results, limit)
  BY <1>1 DEF Batch
<1>3. \A w : w \notin {"rows", "none"} => ~Holds(w)
  BY <1>2 DEF Holds
<1>4. CASE \/ \E status \in BackendStatus : SetStatusFlags(status)
           \/ CallFails \/ HandlerReturns \/ UNCHANGED vars
  <2>1. writer' \in {"rows", "none"}
    BY <1>2, <1>4 DEF SetStatusFlags, CallFails, HandlerReturns, vars
  <2>2. UNCHANGED <<last_end, columns, col, remaining, rows, call, outgoing, client>>
    BY <1>4 DEF SetStatusFlags, CallFails, HandlerReturns, vars, outside
  <2> QED
    BY <1>1, <1>2, <2>1, <2>2 DEF Batch
<1>5. CASE FinishError
  <2>1. Finalized(last_end, TRUE) \o <<ERR>> = <<ERR>>
    BY <1>2, ErrorType DEF Finalized
  <2>2. ERR \in FetchPacket /\ ERR.type = "ERR"
    BY ErrorType DEF FetchPacket, ERR
  <2>3. /\ outgoing' = <<ERR>> /\ writer' = "none" /\ last_end' = NoEnd /\ col' = 0
        /\ call'.op = "complete"
        /\ UNCHANGED <<columns, remaining, rows, client>>
    BY <1>5, <2>1 DEF FinishError, ErrorEnds, outside, Idle
  <2> QED
    BY <1>1, <1>2, <2>2, <2>3 DEF Batch
<1>6. CASE WriteRowWith
  <2>1. PICK n \in col .. columns, encoded \in BOOLEAN :
          /\ col' = n
          /\ IF encoded /\ n = columns
               THEN Emits("row", <<ROW(n)>>)
               ELSE UNCHANGED <<outgoing, call>>
    BY <1>6 DEF WriteRowWith
  <2>2. /\ n \in Nat /\ remaining > 0 /\ outgoing = <<>>
        /\ UNCHANGED <<writer, last_end, columns, remaining, rows, client>>
    BY <1>2, <1>6 DEF WriteRowWith, BatchHasRoom, Holds, outside
  <2>3. CASE encoded /\ n = columns
    <3>1. ROW(n) \in FetchPacket
      BY <2>2 DEF FetchPacket, ROW, Packet
    <3>2. outgoing' = <<ROW(n)>> /\ call'.op = "row"
      BY <2>1, <2>3 DEF Emits, Idle
    <3> QED
      BY <1>1, <1>2, <2>1, <2>2, <3>1, <3>2 DEF Batch
  <2>4. CASE ~(encoded /\ n = columns)
    BY <1>1, <1>2, <2>1, <2>2, <2>4 DEF Batch
  <2> QED
    BY <2>3, <2>4
<1>7. ASSUME NEW last \in BOOLEAN, FinishFetch(last) PROVE Batch'
  <2> DEFINE status == CursorStatus(BatchFlag(last))
             end == [type |-> CursorEnd, status |-> status]
             p == Terminator(end, FALSE)
  <2>1. status \in SUBSET Flag
    BY FlagKinds DEF CursorStatus, BatchFlag, SessionStatusFlags, CursorFlags
  <2>2. /\ outgoing' = <<p>> /\ writer' = "none" /\ call'.op = "complete"
        /\ UNCHANGED <<last_end, columns, col, remaining, rows, client>>
    BY <1>7 DEF FinishFetch, outside, Idle
  <2> HIDE DEF status
  <2>3. end \in End /\ end.type \in {"EOF", "OK_FE"}
    BY <2>1 DEF End, CursorEnd
  <2> HIDE DEF end
  <2>4. p \in FetchPacket /\ p.type # "ROW"
    BY <2>3, TerminatorType DEF FetchPacket
  <2> HIDE DEF p
  <2> QED
    BY <1>1, <1>2, <2>2, <2>4 DEF Batch
<1>8. CASE WritePacket
  <2>1. outgoing # <<>>
    BY <1>8 DEF WritePacket
  <2>2. PICK p \in FetchPacket : outgoing = <<p>> /\ (p.type = "ROW" => call.op = "row")
    BY <1>2, <2>1
  <2>3. Len(outgoing) = 1 /\ Head(outgoing) = p /\ Tail(outgoing) = <<>>
    BY <2>2
  <2>4. /\ outgoing' = <<>> /\ client' = Decode(client, p) /\ call' = Idle
        /\ IF call.op = "row" THEN col' = 0 /\ rows' = rows + 1 /\ remaining' = remaining - 1
                              ELSE UNCHANGED <<col, rows, remaining>>
        /\ UNCHANGED <<writer, last_end, columns>>
    BY <1>1, <1>8, <2>3 DEF WritePacket
  <2>5. client.rows <= limit
    BY <1>2 DEF Decoder
  <2>6. /\ client' \in Decoder /\ client'.due = <<>> /\ client'.rows <= client.rows + 1
        /\ p.type # "ROW" => client'.rows <= client.rows
        /\ BatchResults(client'.results, limit)
    BY <1>2, <2>4, <2>5, FetchRead
  <2>7. client'.rows <= rows' /\ rows' \in Nat /\ remaining' \in Nat /\ remaining' + rows' = limit
    <3>1. client.rows \in Nat /\ client'.rows \in Nat
      BY <1>2, <2>6 DEF Decoder
    <3>2. CASE call.op = "row"
      BY <1>2, <2>4, <2>6, <3>1, <3>2
    <3>3. CASE call.op # "row"
      BY <1>2, <2>2, <2>4, <2>6, <3>1, <3>3
    <3> QED
      BY <3>2, <3>3
  <2>8. col' \in Nat /\ call'.op = "idle"
    BY <1>2, <2>4 DEF Idle
  <2> QED
    BY <1>1, <1>2, <2>4, <2>6, <2>7, <2>8 DEF Batch
<1>9. CASE PacketFails
  <2>1. /\ outgoing' = <<>> /\ call'.op = "idle" /\ writer' \in {"rows", "none"}
        /\ UNCHANGED <<last_end, columns, col, remaining, rows, client>>
    BY <1>2, <1>9 DEF PacketFails, Idle
  <2> QED
    BY <1>1, <1>2, <2>1 DEF Batch
<1>10. ~(\E n \in ColumnCount : Start(n) \/ Open(n)) /\ ~NoMoreResults /\ ~QueryError
       /\ ~(\E given \in BackendStatus \cup {{}}, literal \in BOOLEAN : CompleteOne(given, literal))
       /\ ~(\E params, n \in ColumnCount : PrepareReply(params, n))
       /\ ~(\E status \in BackendStatus \cup {session_status} : InitOk(status)) /\ ~PlainError
  BY <1>3 DEF Start, Open, NoMoreResults, QueryError, CompleteOne, PrepareReply, InitOk, PlainError
<1>11. ~WriteCol /\ ~EndRow /\ ~FinishOne
  BY <1>1 DEF WriteCol, EndRow, FinishOne
<1> QED
  BY <1>4, <1>5, <1>6, <1>7, <1>8, <1>9, <1>10, <1>11 DEF Next

(* A FETCH never delivers more rows than the client asked for, whatever    *)
(* packet fails and even if the backend goes on after it                   *)
(* (CursorFetchWriter::write_row_with).                                    *)
THEOREM FetchesAreBounded == Spec => []FetchBounded
<1>1. Batch => FetchBounded
  <2> SUFFICES ASSUME Batch, command = "fetch" PROVE FetchBounded
    BY DEF FetchBounded
  <2>1. client.rows \in Nat /\ limit \in Nat /\ remaining \in Nat /\ rows \in Nat
    BY DEF Batch, Decoder
  <2> QED
    BY <2>1 DEF Batch, FetchBounded, BatchResults
<1> QED
  BY <1>1, BatchInit, BatchStep, PTL DEF Spec

-----------------------------------------------------------------------------
(* The invariant of the specification.                                     *)

LEMMA NextInv ==
  ASSUME Inv, Quiet, Batch, [Next]_vars
  PROVE  Inv'
<1>1. ASSUME WriteRowWith PROVE rows < MaxRows
  <2>1. command = "fetch" /\ remaining > 0
    BY <1>1 DEF WriteRowWith, BatchHasRoom
  <2>2. /\ limit \in 0 .. MaxRows /\ remaining \in Nat /\ rows \in Nat
        /\ remaining + rows = limit
    BY <2>1 DEF Batch
  <2> QED
    BY <2>1, <2>2, BoundAssumption
<1>2. CASE UNCHANGED vars
  BY <1>2, StutterStep
<1>3. CASE \E status \in BackendStatus : SetStatusFlags(status)
  BY <1>3, SetStatusFlagsStep
<1>4. CASE \E n \in ColumnCount : Start(n) \/ Open(n)
  BY <1>4, StartStep, OpenStep
<1>5. CASE \E given \in BackendStatus \cup {{}}, literal \in BOOLEAN : CompleteOne(given, literal)
  BY <1>5, CompleteOneStep
<1>6. CASE NoMoreResults
  BY <1>6, NoMoreResultsStep
<1>7. CASE QueryError \/ FinishError
  BY <1>7, ErrorStep
<1>8. CASE WriteCol
  BY <1>8, WriteColStep
<1>9. CASE EndRow
  BY <1>9, EndRowStep
<1>10. CASE FinishOne
  BY <1>10, FinishOneStep
<1>11. CASE WriteRowWith
  BY <1>1, <1>11, WriteRowWithStep
<1>12. CASE \E last \in BOOLEAN : FinishFetch(last)
  BY <1>12, FinishFetchStep
<1>13. CASE \E params, n \in ColumnCount : PrepareReply(params, n)
  BY <1>13, PrepareReplyStep
<1>14. CASE \E status \in BackendStatus \cup {session_status} : InitOk(status)
  BY <1>14, InitOkStep
<1>15. CASE PlainError
  BY <1>15, PlainErrorStep
<1>16. CASE CallFails
  BY <1>16, CallFailsStep
<1>17. CASE WritePacket
  BY <1>17, WritePacketStep
<1>18. CASE PacketFails
  BY <1>18, PacketFailsStep
<1>19. CASE HandlerReturns
  BY <1>19, HandlerReturnsStep
<1> QED
  BY <1>2, <1>3, <1>4, <1>5, <1>6, <1>7, <1>8, <1>9, <1>10, <1>11, <1>12, <1>13, <1>14, <1>15,
     <1>16, <1>17, <1>18, <1>19 DEF Next

(* A transport once torn stays torn.                                       *)
LEMMA StaysTorn == ASSUME [Next]_vars PROVE torn' = torn \/ torn' = TRUE
BY DEF Next, vars, outside, SetStatusFlags, Start, Open, CompleteOne, NoMoreResults,
   QueryError, FinishError, ErrorEnds, WriteCol, EndRow, FinishOne, WriteRowWith, FinishFetch,
   PrepareReply, InitOk, PlainError, CallFails, WritePacket, PacketFails, HandlerReturns

(* Through every call, packet and failure, the client and the packets on   *)
(* their way to it match the writer's state.                               *)
THEOREM WritersInvariant == Spec => [](Quiet => Inv)
<1>1. Init => (Quiet => Inv)
  BY InitInv
<1>2. (Quiet => Inv) /\ Batch /\ [Next]_vars => (Quiet => Inv)'
  <2> SUFFICES ASSUME Quiet => Inv, Batch, [Next]_vars, Quiet' PROVE Inv'
    OBVIOUS
  <2>1. Quiet
    BY StaysTorn DEF Quiet
  <2> QED
    BY <2>1, NextInv
<1>3. Spec => []Batch
  BY BatchInit, BatchStep, PTL DEF Spec
<1> QED
  BY <1>1, <1>2, <1>3, PTL DEF Spec

LEMMA Here ==
  ASSUME Inv, ~torn, outgoing = <<>>
  PROVE  AtRest(client)
BY ReachesNothing DEF Inv, Arrives

LEMMA Understands == Inv => ClientUnderstands
<1> SUFFICES ASSUME Inv PROVE ClientUnderstands
  OBVIOUS
<1>1. CASE torn
  BY <1>1 DEF Inv, Stopped, ClientUnderstands
<1>2. CASE ~torn /\ outgoing = <<>>
  BY <1>2, Here DEF AtRest, ClientUnderstands
<1>3. CASE outgoing # <<>>
  BY <1>3, Sending DEF ClientUnderstands
<1> QED
  BY <1>1, <1>2, <1>3

LEMMA Completed ==
  ASSUME Inv, completion
  PROVE  /\ ~torn /\ outgoing = <<>> /\ writer = "none" /\ AtRest(client)
         /\ client.phase = "done" /\ client.results = submitted
<1>1. ~torn /\ outgoing = <<>> /\ writer = "none"
  BY DEF Inv, Stopped, Shape
<1>2. AtRest(client)
  BY <1>1, Here
<1> QED
  BY <1>1, <1>2 DEF AtRest

LEMMA Delivered == Inv => CompletionIsDelivery
<1> SUFFICES ASSUME Inv PROVE CompletionIsDelivery
  OBVIOUS
<1>1. ASSUME ~completion PROVE client.phase # "done"
  <2>1. CASE torn
    BY <2>1 DEF Inv, Stopped
  <2>2. CASE ~torn /\ outgoing = <<>>
    <3>1. AtRest(client) /\ call.op = "idle"
      BY <2>2, Here DEF Inv, Shape
    <3>2. CASE writer = "none"
      BY <1>1, <3>1, <3>2 DEF AtRest
    <3>3. CASE writer # "none"
      BY <3>1, <3>3, AtRestPhase
    <3> QED
      BY <3>2, <3>3
  <2>3. CASE outgoing # <<>>
    BY <2>3, Sending
  <2> QED
    BY <2>1, <2>2, <2>3
<1> QED
  BY <1>1, Completed DEF CompletionIsDelivery

(* Every packet is one the client's grammar allows where it stands: what   *)
(* the backend calls and which packet fails does not matter, as long as it *)
(* does not write on a torn transport (the methods of resultset.rs and     *)
(* writers.rs).                                                            *)
THEOREM ClientsUnderstand == Spec => [](Quiet => ClientUnderstands)
BY WritersInvariant, Understands, PTL

(* The completion flag run() trusts is set exactly when the client has the *)
(* whole response (CompletionGuard::complete).                             *)
THEOREM CompletionsAreDeliveries == Spec => [](Quiet => CompletionIsDelivery)
BY WritersInvariant, Delivered, PTL

(* The session status the next command starts from is the durable part of  *)
(* what the client was last told (session_status_flags).                   *)
THEOREM SessionStatusesAreTold == Spec => [](Quiet => SessionStatusTold)
<1>1. Inv => SessionStatusTold
  <2> SUFFICES ASSUME Inv, completion PROVE SessionStatusTold
    BY DEF SessionStatusTold
  <2>1. client.results = submitted
    BY Completed
  <2> QED
    BY <2>1 DEF SessionStatusTold, LastResult, Final, Inv, Told
<1> QED
  BY <1>1, WritersInvariant, PTL

(* run() keeps a cursor exactly when the client was told it may fetch      *)
(* (CursorExecuteWriter::open, CursorFetchWriter::finish).                 *)
THEOREM CursorStatesAreTold == Spec => [](Quiet => CursorStateTold)
<1>1. Inv => CursorStateTold
  <2> SUFFICES ASSUME Inv, handler = "answered" PROVE CursorStateTold
    BY DEF CursorStateTold
  <2>1. completion
    BY DEF Inv, Shape
  <2>2. LastResult = Final
    BY <2>1, Completed DEF LastResult, Final
  <2> QED
    BY <2>1, <2>2 DEF CursorStateTold, Inv, Told
<1> QED
  BY <1>1, WritersInvariant, PTL

-----------------------------------------------------------------------------
(* The responses implement the abstract exchange of results.               *)

LEMMA ExchangeInit == Init => Exchange!Init
BY DEF Init, Exchange!Init

(* A method submits a result at most.                                      *)
LEMMA MethodsSubmit ==
  ASSUME Inv, Inv', Next
  PROVE  \/ WritePacket \/ PacketFails \/ HandlerReturns
         \/ UNCHANGED <<submitted, client, handler>>
         \/ /\ \E r \in ClientResult : submitted' = Append(submitted, r)
            /\ handler = "running" /\ UNCHANGED <<client, handler>>
<1>1. submitted \in Seq(ClientResult) /\ submitted' \in Seq(ClientResult)
  BY DEF Inv, TypeOK
<1>2. ASSUME NEW r, submitted' = Append(submitted, r) PROVE r \in ClientResult
  <2>1. r = submitted'[Len(submitted')] /\ Len(submitted') \in 1 .. Len(submitted')
    BY <1>1, <1>2
  <2> QED
    BY <1>1, <2>1
<1>3. \/ WritePacket \/ PacketFails \/ HandlerReturns
      \/ UNCHANGED <<submitted, client, handler>>
      \/ /\ \E r : submitted' = Append(submitted, r)
         /\ handler = "running" /\ UNCHANGED <<client, handler>>
  <2>1. CASE \/ \E status \in BackendStatus : SetStatusFlags(status)
             \/ \E n \in ColumnCount : Start(n)
             \/ NoMoreResults \/ WriteCol \/ EndRow \/ WriteRowWith \/ CallFails
    BY <2>1 DEF SetStatusFlags, Start, NoMoreResults, WriteCol, EndRow, WriteRowWith, CallFails, outside
  <2>2. CASE \E n \in ColumnCount : Open(n)
    BY <2>2 DEF Open, Holds, Submits, outside
  <2>3. CASE \E given \in BackendStatus \cup {{}}, literal \in BOOLEAN : CompleteOne(given, literal)
    BY <2>3 DEF CompleteOne, Holds, Submits, outside
  <2>4. CASE QueryError \/ FinishError
    BY <2>4 DEF QueryError, FinishError, ErrorEnds, Holds, Submits, outside
  <2>5. CASE FinishOne
    BY <2>5 DEF FinishOne, Holds, Submits, outside
  <2>6. CASE \E last \in BOOLEAN : FinishFetch(last)
    BY <2>6 DEF FinishFetch, Holds, Submits, outside
  <2>7. CASE \E params, n \in ColumnCount : PrepareReply(params, n)
    BY <2>7 DEF PrepareReply, Holds, Submits, outside
  <2>8. CASE \E status \in BackendStatus \cup {session_status} : InitOk(status)
    BY <2>8 DEF InitOk, Holds, Submits, outside
  <2>9. CASE PlainError
    BY <2>9 DEF PlainError, Holds, Submits, outside
  <2> QED
    BY <2>1, <2>2, <2>3, <2>4, <2>5, <2>6, <2>7, <2>8, <2>9 DEF Next
<1> QED
  BY <1>2, <1>3

LEMMA ExchangeStep ==
  ASSUME Inv, Inv', [Next]_vars
  PROVE  [Exchange!Next]_<<submitted, client.results, handler>>
<1>1. CASE UNCHANGED vars \/ UNCHANGED <<submitted, client, handler>>
  BY <1>1 DEF vars
<1>2. CASE /\ \E r \in ClientResult : submitted' = Append(submitted, r)
           /\ handler = "running" /\ UNCHANGED <<client, handler>>
  <2>1. PICK r \in ClientResult : submitted' = Append(submitted, r)
    BY <1>2
  <2>2. Exchange!Submit(r)
    BY <1>2, <2>1 DEF Exchange!Submit
  <2> QED
    BY <2>2 DEF Exchange!Next
<1>3. CASE WritePacket
  <2>1. /\ outgoing # <<>> /\ client' = Decode(client, Head(outgoing))
        /\ UNCHANGED <<handler, submitted>>
    BY <1>3 DEF WritePacket
  <2>2. handler = "running" /\ Takes(client, Head(outgoing), client', submitted)
    BY <2>1, Sending
  <2>3. CASE client'.results = client.results
    BY <2>1, <2>3
  <2>4. CASE /\ Len(client.results) < Len(submitted)
             /\ client'.results = Append(client.results, submitted[Len(client.results) + 1])
    <3>1. Exchange!Deliver
      BY <2>1, <2>2, <2>4 DEF Exchange!Deliver
    <3> QED
      BY <3>1 DEF Exchange!Next
  <2> QED
    BY <2>2, <2>3, <2>4 DEF Takes, Delivers
<1>4. CASE PacketFails
  BY <1>4 DEF PacketFails
<1>5. CASE HandlerReturns
  <2>1. handler = "running" /\ UNCHANGED <<client, submitted>>
    BY <1>5 DEF HandlerReturns
  <2>2. CASE handler' = "failed"
    <3>1. Exchange!Fail
      BY <2>1, <2>2 DEF Exchange!Fail
    <3> QED
      BY <3>1 DEF Exchange!Next
  <2>3. CASE handler' = "answered"
    <3>1. completion
      BY <1>5, <2>3 DEF HandlerReturns
    <3>2. client.results = submitted /\ submitted # <<>>
      BY <3>1, Completed DEF Inv, Told
    <3>3. Exchange!Answer
      BY <2>1, <2>3, <3>2 DEF Exchange!Answer
    <3> QED
      BY <3>3 DEF Exchange!Next
  <2> QED
    BY <1>5, <2>2, <2>3 DEF HandlerReturns
<1> QED
  BY <1>1, <1>2, <1>3, <1>4, <1>5, MethodsSubmit

(* The client receives exactly the results the backend submitted, in       *)
(* order, and a command answered is one wholly received: every response of *)
(* resultset.rs implements ResultExchange.                                 *)
THEOREM ResponsesDeliver == ASSUME GivesUpWhenTorn PROVE Spec => DeliversResults
<1>1. Quiet
  BY DEF Quiet
<1>2. Inv /\ Inv' /\ [Next]_vars => [Exchange!Next]_(Exchange!vars)
  BY ExchangeStep DEF Exchange!vars
<1>3. Quiet /\ (Quiet => Inv) => Inv
  OBVIOUS
<1> QED
  BY <1>1, <1>2, ExchangeInit, WritersInvariant, PTL DEF Spec, DeliversResults, Exchange!Spec

(* Nothing follows a torn packet on the wire (packet_writer.rs), provided  *)
(* the backend stops at the error: the code itself does not stop it.       *)
THEOREM BrokenWireStaysSilent == ASSUME GivesUpWhenTorn PROVE Spec => BrokenWireSilent
<1>1. Quiet
  BY DEF Quiet
<1>2. Inv /\ [Next]_vars => [torn => UNCHANGED client]_vars
  <2> SUFFICES ASSUME Inv, Next, torn PROVE UNCHANGED client
    BY DEF vars
  <2>1. outgoing = <<>>
    BY DEF Inv, Stopped
  <2> QED
    BY <2>1 DEF Next, outside, SetStatusFlags, Start, Open, CompleteOne, NoMoreResults,
       QueryError, FinishError, ErrorEnds, WriteCol, EndRow, FinishOne, WriteRowWith, FinishFetch,
       PrepareReply, InitOk, PlainError, CallFails, WritePacket, PacketFails, HandlerReturns
<1> QED
  BY <1>1, <1>2, WritersInvariant, PTL DEF Spec, BrokenWireSilent

=============================================================================
