--------------------------- MODULE MCCommandLoop ---------------------------
(***************************************************************************)
(* Instances of CommandLoop for TLC: two statements, two durable flags,    *)
(* and client workloads that each exercise one concern, so that the states *)
(* of one do not multiply those of another.                                *)
(***************************************************************************)
EXTENDS CommandLoop, TLC

MCDurable == {"IN_TRANS", "AUTOCOMMIT"}
MCFlags == MCDurable \cup {"CURSOR_EXISTS", "LAST_ROW_SENT", "MORE_RESULTS"}
MCInitial == {"AUTOCOMMIT"}
MCOneStatus == {MCInitial}
MCStatuses == {{}, {"IN_TRANS", "MORE_RESULTS", "CURSOR_EXISTS"}}

(* Statement ids are interchangeable (safety runs only).                   *)
MCSymmetry == Permutations(StmtId)

Simple(ops) == [op : ops]
OnStmt(ops) == [op : ops, stmt : StmtId]
Execute(modes) == [op : {"execute"}, stmt : StmtId, mode : modes]
LongData(sizes) == [op : {"long_data"}, stmt : StmtId, param : Param, size : sizes]

(* Cursors: everything that opens, reads, replaces or ends one.            *)
MCCursorCommands ==
  Simple({"prepare", "reset_connection"}) \cup OnStmt({"fetch", "close", "reset"})
    \cup Execute({"plain", "cursor", "unsupported"})

(* Long data: everything that adds, consumes or drops it.                  *)
MCLongDataCommands ==
  Simple({"prepare", "reset_connection"}) \cup OnStmt({"close", "reset"})
    \cup Execute({"plain"}) \cup LongData({0, 1, 2})

(* Session: everything that is not addressed to a statement, and one that  *)
(* is.                                                                     *)
MCSessionCommands ==
  Simple({"query", "use", "badutf8", "prepare", "prepare_badutf8", "init_db", "ping",
          "list_fields", "reset_connection", "quit", "bad", "badseq"})
    \cup Execute({"plain", "cursor"}) \cup OnStmt({"fetch", "reset", "close"})
=============================================================================
