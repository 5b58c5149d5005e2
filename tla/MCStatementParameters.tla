------------------------ MODULE MCStatementParameters ------------------------
(* Instances of StatementParameters for TLC: three columns over two bitmap *)
(* bytes.                                                                  *)
EXTENDS StatementParameters

MCUsedType == {"tiny", "blob"}
=============================================================================
