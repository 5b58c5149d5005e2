---------------------------- MODULE CommandLoop ----------------------------
(***************************************************************************)
(* The command phase of one connection: AsyncMysqlIntermediary::run in     *)
(* src/mysql/src/lib.rs.  The task reads one command at a time from the    *)
(* client's pipeline, works on its statement table, lets the backend (the  *)
(* AsyncMysqlShim) answer through a writer object, and flushes the reply.  *)
(*                                                                         *)
(* Three parties hold state that must stay in step: the server (stmts,     *)
(* total_long_data_size, status_flags), the backend (the cursors it has    *)
(* open) and the client (what it has learned from the replies it read).    *)
(* What a writer object puts on the wire, packet by packet, is module      *)
(* ResultWriter; here a callback is its outcome.                           *)
(***************************************************************************)
EXTENDS Integers, Sequences, FiniteSets

CONSTANTS
  StmtId,                      \* statement ids a backend allots and a client names
  NoStmt,                      \* the reply allots no statement
  Param,                       \* parameter numbers a client names
  StatusFlag,                  \* every flag of StatusFlags
  DurableFlag,                 \* those session_status_flags keeps
  InitialStatus,               \* opts.initial_status_flags
  BackendStatus,               \* the flag sets a backend reports
  ParamCount,                  \* the parameter counts of prepared statements
  ClientCommand,               \* the commands this client uses
  MaxPreparedStatements,       \* max_prepared_statements
  MaxLongDataSize,             \* max_long_data_size
  MaxConnectionLongDataSize,   \* max_connection_long_data_size
  ReadTimeoutSet,              \* read_timeout is Some
  MaxOutstanding               \* bound: commands and replies in flight

NoError == "none"
PendingError == {NoError, "ER_WRONG_ARGUMENTS", "ER_NET_PACKET_TOO_LARGE"}

CursorFlags == {"CURSOR_EXISTS", "LAST_ROW_SENT"}

(* A command as commands::parse yields it.  "bad" stands for a payload the *)
(* parser rejects, "badseq" for a packet whose first sequence id is not 0, *)
(* "badutf8" for a text that is not UTF-8; the flags and the iteration     *)
(* count of an EXECUTE are reduced to what run() tells apart.              *)
Command ==
  [op : {"query", "use", "badutf8", "prepare", "prepare_badutf8", "init_db", "ping",
         "list_fields", "reset_connection", "quit", "bad", "badseq"}]
  \cup [op : {"execute"}, stmt : StmtId, mode : {"plain", "cursor", "unsupported"}]
  \cup [op : {"fetch", "close", "reset"}, stmt : StmtId]
  \cup [op : {"long_data"}, stmt : StmtId, param : Param, size : Nat]

ASSUME FlagAssumption ==
  /\ CursorFlags \subseteq StatusFlag \ DurableFlag
  /\ DurableFlag \subseteq StatusFlag
  /\ InitialStatus \subseteq DurableFlag
  /\ BackendStatus \subseteq SUBSET StatusFlag

ASSUME LimitAssumption ==
  /\ MaxPreparedStatements \in Nat
  /\ MaxLongDataSize \in Nat
  /\ MaxConnectionLongDataSize \in Nat
  /\ ParamCount \subseteq Nat
  /\ MaxOutstanding \in Nat

ASSUME CommandAssumption ==
  /\ ClientCommand \subseteq Command
  /\ IsFiniteSet(StmtId) /\ IsFiniteSet(Param) /\ Param \subseteq Nat
  /\ ReadTimeoutSet \in BOOLEAN

VARIABLES
  conn,                  \* "open", "closed" (run returned Ok) or "failed" (Err)
  stmts,                 \* stmts: HashMap<u32, StatementData>
  total_long_data_size,
  status_flags,
  open_cursors,          \* backend: statements it holds a cursor for
  inbox,                 \* commands sent and not yet read by run()
  outbox,                \* replies written and not yet read by the client
  awaiting,              \* client: commands sent whose reply it has not read
  client_status,         \* client: durable flags of the last status it read
  status_known,          \* client: no ERR read since that status
  client_stmts,          \* client: statements it may use
  client_cursors         \* client: statements it may FETCH from

server == <<stmts, total_long_data_size, status_flags>>
client == <<awaiting, client_status, status_known, client_stmts, client_cursors>>
vars == <<conn, server, open_cursors, inbox, outbox, client>>

StatementData ==
  [params : Nat,
   cursor_columns : BOOLEAN,      \* Option::is_some
   long_data : [Param -> Nat],    \* the length of each buffer, 0 if there is none
   pending_error : PendingError]

Reply ==
  [to : Command, kind : {"OK", "ERR", "EOF"}, status : SUBSET StatusFlag, stmt : {NoStmt}]
  \cup [to : Command, kind : {"PREPARE_OK"}, status : SUBSET StatusFlag, stmt : StmtId]

SessionStatusFlags_unmasked(flags) == flags
SessionStatusFlags(flags) == flags \cap DurableFlag

NeedsReply(c) == c.op \notin {"close", "long_data", "quit"}

-----------------------------------------------------------------------------
(* Long data.  A buffer is its length; the bytes a statement holds are the *)
(* pairs <<parameter, offset>>, so that a size is a cardinality.           *)

HeldBytes(long_data) ==
  UNION {{p} \X (1 .. long_data[p]) : p \in Param}

Retained(long_data) == Cardinality(HeldBytes(long_data))

EmptyBuffers == [p \in Param |-> 0]

(* usize::saturating_sub                                                   *)
SaturatingSub(a, b) == IF a >= b THEN a - b ELSE 0

NewStatement(params) ==
  [params |-> params, cursor_columns |-> FALSE,
   long_data |-> EmptyBuffers, pending_error |-> NoError]

TableFull == Cardinality(DOMAIN stmts) >= MaxPreparedStatements

ServerCursors == {id \in DOMAIN stmts : stmts[id].cursor_columns}

-----------------------------------------------------------------------------
Init ==
  /\ conn = "open"
  /\ stmts = [id \in {} |-> NewStatement(0)]
  /\ total_long_data_size = 0
  /\ status_flags = InitialStatus
  /\ open_cursors = {}
  /\ inbox = <<>> /\ outbox = <<>>
  /\ awaiting = <<>>
  /\ client_status = InitialStatus
  /\ status_known = TRUE
  /\ client_stmts = {} /\ client_cursors = {}

(***************************************************************************)
(* The client.                                                             *)
(***************************************************************************)

Outstanding(op) == \E i \in DOMAIN awaiting : awaiting[i].op = op

(* Commands may be pipelined; COM_STMT_CLOSE takes effect at once in the   *)
(* client's own tables, it has no reply.  It may name an id it does not     *)
(* know, but does not guess the one an unanswered PREPARE will be given.   *)
ClientSends(c) ==
  /\ conn = "open"
  /\ c.op = "close" => \/ ~Outstanding("prepare")
                       \/ c.stmt \in client_stmts /\ ~Outstanding("reset_connection")
  /\ Len(inbox) + Len(outbox) < MaxOutstanding
  /\ inbox' = Append(inbox, c)
  /\ awaiting' = IF NeedsReply(c) THEN Append(awaiting, c) ELSE awaiting
  /\ client_stmts' = IF c.op = "close" THEN client_stmts \ {c.stmt} ELSE client_stmts
  /\ client_cursors' = IF c.op = "close" THEN client_cursors \ {c.stmt} ELSE client_cursors
  /\ UNCHANGED <<conn, server, open_cursors, outbox, client_status, status_known>>

ClientReads ==
  /\ outbox # <<>> /\ awaiting # <<>>
  /\ LET r == Head(outbox)
         c == Head(awaiting)
         hasStatus == r.kind \in {"OK", "EOF"}
     IN  /\ outbox' = Tail(outbox)
         /\ awaiting' = Tail(awaiting)
         /\ client_status' = IF hasStatus THEN SessionStatusFlags(r.status) ELSE client_status
         /\ status_known' = CASE hasStatus -> TRUE
                              [] r.kind = "ERR" -> FALSE
                              [] OTHER -> status_known
         /\ client_stmts' =
              CASE c.op = "prepare" /\ r.kind = "PREPARE_OK" -> client_stmts \cup {r.stmt}
                [] c.op = "reset_connection" /\ r.kind = "OK" -> {}
                [] OTHER -> client_stmts
         /\ client_cursors' =
              CASE c.op = "reset_connection" /\ r.kind = "OK" -> {}
                [] c.op = "execute" /\ c.stmt \in client_stmts /\ "CURSOR_EXISTS" \in r.status ->
                     client_cursors \cup {c.stmt}
                [] c.op = "execute" /\ "CURSOR_EXISTS" \notin r.status ->
                     client_cursors \ {c.stmt}
                [] c.op = "reset" -> client_cursors \ {c.stmt}
                [] c.op = "fetch" /\ (r.kind = "ERR" \/ "LAST_ROW_SENT" \in r.status) ->
                     client_cursors \ {c.stmt}
                [] OTHER -> client_cursors
  /\ UNCHANGED <<conn, server, open_cursors, inbox>>

(***************************************************************************)
(* The server.  Every handler reads the command at the head of the         *)
(* pipeline and ends with its reply flushed, or leaves run() with an error.*)
(***************************************************************************)

Receives(c) ==
  /\ conn = "open" /\ inbox # <<>>
  /\ c = Head(inbox)
  /\ inbox' = Tail(inbox)

Answer(c, kind, status, stmt) ==
  outbox' = Append(outbox, [to |-> c, kind |-> kind, status |-> status, stmt |-> stmt])

AnswerOK(c, status) == Answer(c, "OK", status, NoStmt)
AnswerERR(c) == Answer(c, "ERR", {}, NoStmt)

Refuse(c) ==
  /\ AnswerERR(c)
  /\ UNCHANGED <<conn, server, open_cursors, client>>

(* run() returns: its locals, the writer and the shim are dropped, and the *)
(* shim's cursors with it (on_close_cursor: backends must use RAII).       *)
Leave(outcome) ==
  /\ conn' = outcome
  /\ stmts' = [id \in {} |-> NewStatement(0)]
  /\ total_long_data_size' = 0
  /\ open_cursors' = {}
  /\ UNCHANGED <<status_flags, client>>

SetStatement(id, data) == stmts' = [stmts EXCEPT ![id] = data]

(* COM_QUERY answered through a QueryResultWriter, `SELECT @@` included:   *)
(* a completed response or an ERR, either way saving the durable part of   *)
(* the status the backend reported.  The cursor flags belong to the cursor *)
(* writers: a backend that follows the trait does not send them here.      *)
Query(c) ==
  /\ c.op = "query" /\ Receives(c)
  /\ \E status \in BackendStatus :
       /\ status_flags' = SessionStatusFlags(status)
       /\ AnswerOK(c, status \ CursorFlags) \/ AnswerERR(c)
  /\ UNCHANGED <<conn, stmts, total_long_data_size, open_cursors, client>>

(* `USE db` and COM_INIT_DB, answered through an InitWriter: ok() repeats  *)
(* the session status, ok_with_status replaces it, error() leaves it.      *)
InitDb(c) ==
  /\ c.op \in {"use", "init_db"} /\ Receives(c)
  /\ \/ \E status \in BackendStatus \cup {status_flags} :
          /\ AnswerOK(c, status \ CursorFlags)
          /\ status_flags' = SessionStatusFlags(status)
     \/ AnswerERR(c) /\ UNCHANGED status_flags
  /\ UNCHANGED <<conn, stmts, total_long_data_size, open_cursors, client>>

(* A payload that does not parse and a text that is not UTF-8 are answered *)
(* with ERR and the loop continues.  A PREPARE beyond the limit is refused *)
(* before its text is looked at; both refusals look alike here.            *)
RefuseCommand(c) ==
  /\ c.op \in {"bad", "badutf8", "prepare_badutf8"} /\ Receives(c)
  /\ Refuse(c)

RefusePrepare(c) ==
  /\ c.op = "prepare" /\ Receives(c)
  /\ TableFull
  /\ Refuse(c)

(* StatementMetaWriter: reply() refuses an id already in the table (that   *)
(* outcome is BackendFails), error() leaves the table alone.               *)
Prepare(c) ==
  /\ c.op = "prepare" /\ Receives(c)
  /\ ~TableFull
  /\ \/ \E id \in StmtId \ DOMAIN stmts, n \in ParamCount :
          /\ Answer(c, "PREPARE_OK", {}, id)
          /\ stmts' = [i \in DOMAIN stmts \cup {id} |->
                         IF i = id THEN NewStatement(n) ELSE stmts[i]]
     \/ AnswerERR(c) /\ UNCHANGED stmts
  /\ UNCHANGED <<conn, total_long_data_size, status_flags, open_cursors, client>>

UnsupportedExecute(c) ==
  /\ c.op = "execute" /\ Receives(c)
  /\ c.mode = "unsupported" \/ c.stmt \notin DOMAIN stmts
  /\ Refuse(c)

(* Every accepted EXECUTE first drops the statement's cursor.              *)
ExecuteReaches(c) ==
  /\ c.op = "execute" /\ Receives(c)
  /\ c.mode # "unsupported" /\ c.stmt \in DOMAIN stmts

AfterPending_clearing(data) ==
  [data EXCEPT !.cursor_columns = FALSE, !.pending_error = NoError]
AfterPending(data) == [data EXCEPT !.cursor_columns = FALSE]

(* A deferred SEND_LONG_DATA error is reported and stays, with the data.   *)
ExecutePending(c) ==
  /\ ExecuteReaches(c)
  /\ stmts[c.stmt].pending_error # NoError
  /\ AnswerERR(c)
  /\ SetStatement(c.stmt, AfterPending(stmts[c.stmt]))
  /\ open_cursors' = open_cursors \ {c.stmt}
  /\ UNCHANGED <<conn, total_long_data_size, status_flags, client>>

TotalWithout_unchanged(id) == total_long_data_size
TotalWithout(id) == SaturatingSub(total_long_data_size, Retained(stmts[id].long_data))

(* What an EXECUTE that got past the pending error leaves of the statement.*)
Consumed(id, cursor) ==
  /\ SetStatement(id, [stmts[id] EXCEPT !.cursor_columns = cursor, !.long_data = EmptyBuffers])
  /\ total_long_data_size' = TotalWithout(id)

ExecuteBadParams(c) ==
  /\ ExecuteReaches(c)
  /\ stmts[c.stmt].pending_error = NoError
  /\ AnswerERR(c)
  /\ Consumed(c.stmt, FALSE)
  /\ open_cursors' = open_cursors \ {c.stmt}
  /\ UNCHANGED <<conn, status_flags, client>>

ExecutePlain(c) ==
  /\ ExecuteReaches(c) /\ c.mode = "plain"
  /\ stmts[c.stmt].pending_error = NoError
  /\ \E status \in BackendStatus :
       /\ status_flags' = SessionStatusFlags(status)
       /\ AnswerOK(c, status \ CursorFlags) \/ AnswerERR(c)
  /\ Consumed(c.stmt, FALSE)
  /\ open_cursors' = open_cursors \ {c.stmt}
  /\ UNCHANGED <<conn, client>>

CursorsAfter_leaky(id, cursor) == open_cursors \cup {id}
CursorsAfter(id, cursor) ==
  IF cursor THEN open_cursors \cup {id} ELSE open_cursors \ {id}

(* CursorExecuteWriter: open() publishes the cursor; error() may come from *)
(* a backend that had already opened one, which run() closes again.        *)
ExecuteCursor(c) ==
  /\ ExecuteReaches(c) /\ c.mode = "cursor"
  /\ stmts[c.stmt].pending_error = NoError
  /\ \E status \in BackendStatus, cursor \in BOOLEAN :
       /\ status_flags' = SessionStatusFlags(status)
       /\ IF cursor THEN AnswerOK(c, SessionStatusFlags(status) \cup {"CURSOR_EXISTS"})
                    ELSE AnswerERR(c)
       /\ Consumed(c.stmt, cursor)
       /\ open_cursors' = CursorsAfter(c.stmt, cursor)
  /\ UNCHANGED <<conn, client>>

CursorEnds_always(outcome) == TRUE
CursorEnds(outcome) == outcome \in {"exhausted", "error"}

(* CursorFetchWriter: finish(exhausted) or error(), the latter ending the  *)
(* cursor.                                                                 *)
Fetch(c) ==
  /\ c.op = "fetch" /\ Receives(c)
  /\ c.stmt \in ServerCursors
  /\ \E status \in BackendStatus, outcome \in {"more", "exhausted", "error"} :
       /\ status_flags' = SessionStatusFlags(status)
       /\ CASE outcome = "more" ->
                 AnswerOK(c, SessionStatusFlags(status) \cup {"CURSOR_EXISTS"})
            [] outcome = "exhausted" ->
                 AnswerOK(c, SessionStatusFlags(status) \cup {"LAST_ROW_SENT"})
            [] OTHER -> AnswerERR(c)
       /\ IF CursorEnds(outcome)
            THEN /\ SetStatement(c.stmt, [stmts[c.stmt] EXCEPT !.cursor_columns = FALSE])
                 /\ open_cursors' = open_cursors \ {c.stmt}
            ELSE UNCHANGED <<stmts, open_cursors>>
  /\ UNCHANGED <<conn, total_long_data_size, client>>

FetchNoCursor(c) ==
  /\ c.op = "fetch" /\ Receives(c)
  /\ c.stmt \notin ServerCursors
  /\ Refuse(c)

(* COM_STMT_SEND_LONG_DATA: no reply; an unknown statement and a statement *)
(* with a pending error ignore it, and an error is deferred.               *)
LongDataFits_statementOnly(id, size) ==
  Retained(stmts[id].long_data) + size <= MaxLongDataSize
LongDataFits(id, size) ==
  /\ Retained(stmts[id].long_data) + size <= MaxLongDataSize
  /\ total_long_data_size + size <= MaxConnectionLongDataSize

HasParam_offByOne(id, param) == param <= stmts[id].params
HasParam(id, param) == param < stmts[id].params

IgnoreLongData(c) ==
  /\ c.op = "long_data" /\ Receives(c)
  /\ c.stmt \in DOMAIN stmts => stmts[c.stmt].pending_error # NoError
  /\ UNCHANGED <<conn, server, open_cursors, outbox, client>>

SendLongData(c) ==
  LET data == stmts[c.stmt]
      Defer(error) == /\ SetStatement(c.stmt, [data EXCEPT !.pending_error = error])
                      /\ UNCHANGED total_long_data_size
  IN  /\ c.op = "long_data" /\ Receives(c)
      /\ c.stmt \in DOMAIN stmts /\ data.pending_error = NoError
      /\ IF ~HasParam(c.stmt, c.param) THEN Defer("ER_WRONG_ARGUMENTS")
         ELSE IF ~LongDataFits(c.stmt, c.size) THEN Defer("ER_NET_PACKET_TOO_LARGE")
         ELSE /\ SetStatement(c.stmt, [data EXCEPT !.long_data[c.param] = @ + c.size])
              /\ total_long_data_size' = total_long_data_size + c.size
      /\ UNCHANGED <<conn, status_flags, open_cursors, outbox, client>>

TableWithout_kept(id) == stmts
TableWithout(id) == [i \in DOMAIN stmts \ {id} |-> stmts[i]]

(* COM_STMT_CLOSE: no reply, known statement or not.                       *)
Close(c) ==
  /\ c.op = "close" /\ Receives(c)
  /\ open_cursors' = open_cursors \ {c.stmt}
  /\ stmts' = TableWithout(c.stmt)
  /\ total_long_data_size' =
       IF c.stmt \in DOMAIN stmts
         THEN TotalWithout(c.stmt)
         ELSE total_long_data_size
  /\ UNCHANGED <<conn, status_flags, outbox, client>>

Reset(c) ==
  /\ c.op = "reset" /\ Receives(c)
  /\ c.stmt \in DOMAIN stmts
  /\ SetStatement(c.stmt, [stmts[c.stmt] EXCEPT
       !.cursor_columns = FALSE, !.long_data = EmptyBuffers, !.pending_error = NoError])
  /\ open_cursors' = open_cursors \ {c.stmt}
  /\ total_long_data_size' = TotalWithout(c.stmt)
  /\ AnswerOK(c, status_flags)
  /\ UNCHANGED <<conn, status_flags, client>>

ResetUnknown(c) ==
  /\ c.op = "reset" /\ Receives(c)
  /\ c.stmt \notin DOMAIN stmts
  /\ Refuse(c)

(* COM_PING and the deprecated COM_FIELD_LIST repeat the session status.   *)
ReportStatus(c) ==
  /\ c.op \in {"ping", "list_fields"} /\ Receives(c)
  /\ Answer(c, IF c.op = "ping" THEN "OK" ELSE "EOF", status_flags, NoStmt)
  /\ UNCHANGED <<conn, server, open_cursors, client>>

StatusAfterReset_kept == status_flags
StatusAfterReset == InitialStatus

ResetConnection(c) ==
  /\ c.op = "reset_connection" /\ Receives(c)
  /\ \/ /\ open_cursors' = open_cursors \ DOMAIN stmts
        /\ stmts' = [id \in {} |-> NewStatement(0)]
        /\ total_long_data_size' = 0
        /\ status_flags' = StatusAfterReset
        /\ AnswerOK(c, InitialStatus)
     \/ /\ AnswerERR(c)                      \* on_reset_connection returned false
        /\ UNCHANGED <<server, open_cursors>>
  /\ UNCHANGED <<conn, client>>

Quit(c) ==
  /\ c.op = "quit" /\ Receives(c)
  /\ Leave("closed")
  /\ UNCHANGED outbox

BadSequence(c) ==
  /\ c.op = "badseq" /\ Receives(c)
  /\ AnswerERR(c)
  /\ Leave("failed")

(* A callback that returns an error, or returns without completing its     *)
(* response, ends the connection; nothing more is written.                 *)
RunsCallback(c) ==
  \/ c.op \in {"query", "use", "init_db", "reset_connection"}
  \/ c.op = "prepare" /\ ~TableFull
  \/ c.op = "execute" /\ c.mode # "unsupported" /\ c.stmt \in DOMAIN stmts
                      /\ stmts[c.stmt].pending_error = NoError
  \/ c.op = "fetch" /\ c.stmt \in ServerCursors

BackendFails_unnoticed(c) ==           \* no ensure_response_completed
  /\ Receives(c) /\ RunsCallback(c)
  /\ UNCHANGED <<conn, server, open_cursors, outbox, client>>

BackendFails(c) ==
  /\ Receives(c) /\ RunsCallback(c)
  /\ Leave("failed")
  /\ UNCHANGED outbox

(* The peer closes its side between commands: next_async yields None.      *)
Disconnect ==
  /\ conn = "open" /\ inbox = <<>>
  /\ Leave("closed")
  /\ UNCHANGED <<inbox, outbox>>

(* read_timeout expires while the server waits for a packet.               *)
ReadTimeout_firstOnly ==               \* armed for the first command only
  /\ ReadTimeoutSet
  /\ conn = "open" /\ inbox = <<>> /\ stmts = [id \in {} |-> NewStatement(0)]
  /\ Leave("failed")
  /\ UNCHANGED <<inbox, outbox>>

ReadTimeout ==
  /\ ReadTimeoutSet
  /\ conn = "open" /\ inbox = <<>>
  /\ Leave("failed")
  /\ UNCHANGED <<inbox, outbox>>

(* A read or write error, or a write timeout, at any moment.               *)
TransportFails ==
  /\ conn = "open"
  /\ Leave("failed")
  /\ UNCHANGED <<inbox, outbox>>

Serve(c) ==
  \/ Query(c) \/ InitDb(c) \/ RefuseCommand(c)
  \/ RefusePrepare(c) \/ Prepare(c)
  \/ UnsupportedExecute(c) \/ ExecutePending(c) \/ ExecuteBadParams(c)
  \/ ExecutePlain(c) \/ ExecuteCursor(c)
  \/ Fetch(c) \/ FetchNoCursor(c)
  \/ IgnoreLongData(c) \/ SendLongData(c)
  \/ Close(c) \/ Reset(c) \/ ResetUnknown(c)
  \/ ReportStatus(c) \/ ResetConnection(c) \/ Quit(c)
  \/ BadSequence(c) \/ BackendFails(c)

Next ==
  \/ \E c \in ClientCommand : ClientSends(c) \/ Serve(c)
  \/ ClientReads \/ Disconnect \/ ReadTimeout \/ TransportFails

Spec == Init /\ [][Next]_vars

(* The runtime polls the task while there is input, a timer that stays     *)
(* armed fires, and the client reads what it is sent.                      *)
Fairness ==
  /\ WF_vars(\E c \in ClientCommand : Serve(c))
  /\ WF_vars(ReadTimeout)
  /\ WF_vars(ClientReads)

FairSpec == Spec /\ Fairness

-----------------------------------------------------------------------------
(* Types of every variable; the session status only ever holds durable     *)
(* flags (session_status_flags).                                           *)
TypeOK ==
  /\ conn \in {"open", "closed", "failed"}
  /\ DOMAIN stmts \in SUBSET StmtId
  /\ stmts \in [DOMAIN stmts -> StatementData]
  /\ total_long_data_size \in Nat
  /\ status_flags \in SUBSET DurableFlag
  /\ open_cursors \in SUBSET StmtId
  /\ inbox \in Seq(ClientCommand)
  /\ outbox \in Seq(Reply)
  /\ awaiting \in Seq(ClientCommand)
  /\ client_status \in SUBSET DurableFlag
  /\ status_known \in BOOLEAN
  /\ client_stmts \in SUBSET StmtId
  /\ client_cursors \in SUBSET StmtId

(* The bytes all statements of the connection hold.                        *)
ConnectionBytes ==
  UNION {{id} \X HeldBytes(stmts[id].long_data) : id \in DOMAIN stmts}

(* The running total run() keeps is the number of bytes the statements     *)
(* really hold, whatever sequence of long data, executes (failed, refused  *)
(* or successful), resets and closes led here.                             *)
LongDataAccounted == total_long_data_size = Cardinality(ConnectionBytes)

(* No statement and no connection holds more long data than configured.    *)
LongDataBounded ==
  /\ total_long_data_size <= MaxConnectionLongDataSize
  /\ \A id \in DOMAIN stmts : Retained(stmts[id].long_data) <= MaxLongDataSize

(* Long data is only ever held for parameters the statement has.           *)
LongDataAddressed ==
  \A id \in DOMAIN stmts, p \in Param : stmts[id].long_data[p] > 0 => p < stmts[id].params

(* A connection never retains more statements than max_prepared_statements.*)
StatementsBounded == Cardinality(DOMAIN stmts) <= MaxPreparedStatements

(* The backend holds a cursor for exactly the statements the server would  *)
(* let the client FETCH from: none is leaked by a failed or repeated       *)
(* EXECUTE, a reset or a close, and none is served after its release.      *)
CursorsAgree == open_cursors = ServerCursors

(* The replies written answer, in order, the first commands the client     *)
(* awaits a reply to; while the connection is open the others it awaits    *)
(* are, in order and all of them, the commands in the pipeline that expect *)
(* one: no command is answered twice, skipped, or answered although it has *)
(* no reply.                                                               *)
RepliesInOrder ==
  LET answered == Len(outbox)
      unread == {k \in DOMAIN inbox : NeedsReply(inbox[k])}
  IN  /\ answered <= Len(awaiting)
      /\ \A i \in 1 .. answered : outbox[i].to = awaiting[i]
      /\ conn = "open" =>
           \E place \in [answered + 1 .. Len(awaiting) -> unread] :
             /\ \A i \in answered + 1 .. Len(awaiting) : inbox[place[i]] = awaiting[i]
             /\ \A i, j \in answered + 1 .. Len(awaiting) : i < j => place[i] < place[j]
             /\ \A k \in unread : \E i \in answered + 1 .. Len(awaiting) : place[i] = k

Quiescent == conn = "open" /\ inbox = <<>> /\ outbox = <<>>

(* When every command sent has been answered, the client may use exactly   *)
(* the statements the server knows.                                        *)
StatementViewAgrees == Quiescent => client_stmts = DOMAIN stmts

(* ... every cursor it was told of can be fetched from ...                 *)
CursorViewAgrees == Quiescent => client_cursors \subseteq ServerCursors

(* ... and the session status it last read is the one the next reply will  *)
(* repeat, unless an ERR, which carries none, came after it.               *)
StatusViewAgrees == Quiescent /\ status_known => client_status = status_flags

(* A deferred long data error, and the data held with it, leave a          *)
(* statement only by its reset or with the statement.                      *)
PendingErrorSticks ==
  [][\A id \in DOMAIN stmts \cap DOMAIN stmts' :
       stmts[id].pending_error # NoError =>
         \/ /\ stmts'[id].pending_error = stmts[id].pending_error
            /\ stmts'[id].long_data = stmts[id].long_data
         \/ Head(inbox) = [op |-> "reset", stmt |-> id]]_vars

(* A client that keeps waiting for replies keeps reading them, or its      *)
(* connection has ended: no command leaves run() silently stuck.           *)
RepliesKeepComing ==
  []<>(awaiting # <<>>) => []<><<ClientReads>>_vars \/ <>(conn # "open")

(* With a read timeout, a client that falls silent is disconnected.        *)
SilentClientDropped == ReadTimeoutSet => (<>[](inbox = <<>>) => <>(conn # "open"))
=============================================================================
