--------------------------- MODULE ResultExchange ---------------------------
(***************************************************************************)
(* What a response writer promises, whatever the protocol dialect: the     *)
(* results a backend submits for one command reach the client unaltered    *)
(* and in order, and a command counts as answered only when the client has *)
(* all of them.  When anything fails the command is abandoned, and the     *)
(* client is left with a prefix.                                           *)
(***************************************************************************)
EXTENDS Naturals, Sequences

CONSTANTS Result

VARIABLES submitted, delivered, outcome

vars == <<submitted, delivered, outcome>>

Init ==
  /\ submitted = <<>>
  /\ delivered = <<>>
  /\ outcome = "running"

Submit(r) ==
  /\ outcome = "running"
  /\ submitted' = Append(submitted, r)
  /\ UNCHANGED <<delivered, outcome>>

Deliver ==
  /\ outcome = "running"
  /\ Len(delivered) < Len(submitted)
  /\ delivered' = Append(delivered, submitted[Len(delivered) + 1])
  /\ UNCHANGED <<submitted, outcome>>

Answer ==
  /\ outcome = "running"
  /\ submitted # <<>> /\ delivered = submitted
  /\ outcome' = "answered"
  /\ UNCHANGED <<submitted, delivered>>

Fail ==
  /\ outcome = "running"
  /\ outcome' = "failed"
  /\ UNCHANGED <<submitted, delivered>>

Next == (\E r \in Result : Submit(r)) \/ Deliver \/ Answer \/ Fail

Spec == Init /\ [][Next]_vars
=============================================================================
