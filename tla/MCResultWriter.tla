--------------------------- MODULE MCResultWriter ---------------------------
(* Instances of ResultWriter for TLC.  IN_TRANS stands for the flags that  *)
(* outlive a command, NO_INDEX for those that do not; MORE_RESULTS is one   *)
(* a backend should not report and the writer overrides.                   *)
EXTENDS ResultWriter

Durable == {"IN_TRANS"}
Reported == {{"IN_TRANS"}, {"NO_INDEX", "MORE_RESULTS"}}

AllDialects == {d \in SUBSET Capability : d # {"PS_MULTI_RESULTS"}}
EofDialects == SUBSET {"DEPRECATE_EOF"}
QueryCall == {"query"}
=============================================================================
