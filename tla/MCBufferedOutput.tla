--------------------------- MODULE MCBufferedOutput ---------------------------
(* Instances of BufferedOutput for TLC: replies of no packet, of a small   *)
(* one, of a fragmented one behind a small one, of an exact multiple.      *)
EXTENDS BufferedOutput

MCReplies == {<<>>, <<1>>, <<1, 3>>, <<2>>}
=============================================================================
