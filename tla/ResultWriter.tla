---------------------------- MODULE ResultWriter ----------------------------
(***************************************************************************)
(* The writer objects a backend answers one command with (resultset.rs):   *)
(* QueryResultWriter and RowWriter for COM_QUERY and COM_STMT_EXECUTE,     *)
(* CursorExecuteWriter, CursorFetchWriter, StatementMetaWriter, InitWriter,*)
(* and the packets of writers.rs they emit.  The backend calls their       *)
(* methods in any order the types allow.  A method that takes `self` by    *)
(* value consumes the writer: if it fails, the backend has none left.      *)
(*                                                                         *)
(* A method puts the packets it will emit in `outgoing`; WritePacket writes*)
(* them one at a time, each an await point that may fail.  What the method *)
(* stores once they are written is done by the last WritePacket; state     *)
(* that dies with the connection if a write fails is updated at the call.  *)
(*                                                                         *)
(* n column definitions are one packet DEFS; a row is its number of        *)
(* columns; an OK packet is its header byte (OK: 0x00, OK_FE: 0xfe) and    *)
(* status flags.  The client decodes each packet as it is written.         *)
(***************************************************************************)
EXTENDS Integers, Sequences

CONSTANTS
  Call,                \* the commands served: subset of CommandKind
  ClientCapabilities,  \* sets of capabilities clients negotiate
  ColumnCount,         \* column counts a backend announces
  BackendStatus,       \* status flag sets a backend reports
  DurableFlag,         \* flags session_status_flags keeps
  FetchLimit,          \* row limits of COM_STMT_FETCH
  GivesUpWhenTorn,     \* the backend calls nothing after a transport error
  MaxResults,          \* bound: results of one command
  MaxRows              \* bound: rows of one result

CommandKind == {"query", "execute", "execute_cursor", "fetch", "prepare", "init"}
Capability == {"DEPRECATE_EOF", "MULTI_RESULTS", "PS_MULTI_RESULTS"}
CursorFlags == {"CURSOR_EXISTS", "LAST_ROW_SENT"}

(* The cursor flags belong to the protocol, not to the backend (the doc    *)
(* comment of CursorExecuteWriter::set_status_flags).                      *)
ASSUME BackendAssumption ==
  /\ \A s \in BackendStatus : s \cap CursorFlags = {}
  /\ DurableFlag \cap (CursorFlags \cup {"MORE_RESULTS"}) = {}
  /\ ColumnCount \subseteq Nat /\ FetchLimit \subseteq Nat
  /\ Call \subseteq CommandKind
  /\ ClientCapabilities \subseteq SUBSET Capability

(* The bounds leave room for the largest batch a client asks for.          *)
ASSUME BoundAssumption ==
  /\ MaxResults \in Nat /\ MaxRows \in Nat
  /\ FetchLimit \subseteq 0 .. MaxRows
  /\ GivesUpWhenTorn \in BOOLEAN

VARIABLES
  command,         \* the command being served, fixed
  caps,            \* client_capabilities, fixed
  limit,           \* the row limit of a FETCH, fixed
  writer,          \* the writer the backend holds, "none" once it is consumed
  last_end,        \* QueryResultWriter::last_end
  default_status,  \* QueryResultWriter::default_status_flags
  session_status,  \* the connection's status_flags
  columns,         \* RowWriter::columns, its length
  col,             \* RowWriter::col: next column, rows when there are none
  remaining,       \* CursorFetchWriter::remaining
  exhausted,       \* the `exhausted` a FETCH leaves for run()
  cursor_open,     \* the `columns` a cursor EXECUTE leaves for run(): is_some
  outgoing,        \* packets the current method has yet to write
  call,            \* what the current method does besides
  completion,      \* the completion flag run() checks
  torn,            \* the transport failed, perhaps inside a packet
  handler,         \* "running", "answered" or "failed"
  client,          \* the client's decoder
  rows,            \* history: rows ended in the current result
  submitted        \* history: results the backend has submitted

vars == <<command, caps, limit, writer, last_end, default_status, session_status, columns, col,
          remaining, exhausted, cursor_open, outgoing, call, completion, torn, handler,
          client, rows, submitted>>
fixed == <<command, caps, limit>>
outside == <<fixed, completion, torn, handler, client>>

NoEnd == [type |-> "none", status |-> {}]

SessionStatusFlags(flags) == flags \cap DurableFlag

(* Packets.                                                                *)
COUNT(n) == [type |-> "COUNT", n |-> n, status |-> {}]
COLUMNS(n) == [type |-> "DEFS", n |-> n, status |-> {}]
ROW(n) == [type |-> "ROW", n |-> n, status |-> {}]
EOF(status) == [type |-> "EOF", n |-> 0, status |-> status]
OK(status) == [type |-> "OK", n |-> 0, status |-> status]
ERR == [type |-> "ERR", n |-> 0, status |-> {}]
PREPARE_OK(params, n) == [type |-> "PREPARE_OK", n |-> n, status |-> {}, params |-> params]

Packet ==
  [type : {"COUNT", "DEFS", "ROW", "EOF", "OK", "OK_FE", "ERR"},
   n : Nat, status : SUBSET UNION (BackendStatus \cup {DurableFlag, CursorFlags, {"MORE_RESULTS"}})]
  \cup [type : {"PREPARE_OK"}, n : Nat, status : {{}}, params : Nat]

(* What a client makes of a response: one entry per result.                *)
Ok(status) == [kind |-> "ok", rows |-> 0, status |-> status \ {"MORE_RESULTS"}]
RowSet(n, status) == [kind |-> "set", rows |-> n, status |-> status \ {"MORE_RESULTS"}]
Error == [kind |-> "err", rows |-> 0, status |-> {}]
Prepared(params, n) == [kind |-> "prepared", rows |-> 0, status |-> {}, params |-> params, n |-> n]

-----------------------------------------------------------------------------
(* The client: a decoder of the grammar its capabilities select.           *)

EofAfterMetadata == IF "DEPRECATE_EOF" \in caps THEN <<>> ELSE <<[type |-> "EOF", n |-> 0]>>

Metadata(n) == IF n = 0 THEN <<>> ELSE <<[type |-> "DEFS", n |-> n]>> \o EofAfterMetadata

MultiResults ==
  IF command = "query" THEN "MULTI_RESULTS" \in caps ELSE "PS_MULTI_RESULTS" \in caps

Confused(c) == [c EXCEPT !.phase = "confused"]

(* A result ends with a status that may announce another one.              *)
Gets(c, result, status) ==
  LET got == [c EXCEPT !.results = Append(@, result), !.rows = 0]
  IN  IF "MORE_RESULTS" \notin status THEN [got EXCEPT !.phase = "done"]
      ELSE IF MultiResults THEN [got EXCEPT !.phase = "head"]
      ELSE Confused(c)

DecodeDue(c, p) ==
  LET rest == [c EXCEPT !.due = Tail(@)]
  IN  IF [type |-> p.type, n |-> p.n] # Head(c.due) THEN Confused(c)
      ELSE IF "CURSOR_EXISTS" \in p.status /\ c.phase = "rows"
             THEN Gets(rest, RowSet(0, p.status), p.status)
      ELSE IF rest.due = <<>> /\ c.phase = "prepared" THEN [rest EXCEPT !.phase = "done"]
      ELSE rest

DecodeHead(c, p) ==
  CASE p.type = "OK" -> Gets(c, Ok(p.status), p.status)
    [] p.type = "COUNT" -> [c EXCEPT !.phase = "rows", !.due = Metadata(p.n), !.n = p.n]
    [] p.type = "PREPARE_OK" ->
         LET due == Metadata(p.params) \o Metadata(p.n)
         IN  [c EXCEPT !.phase = IF due = <<>> THEN "done" ELSE "prepared", !.due = due,
                       !.results = Append(@, Prepared(p.params, p.n))]
    [] OTHER -> Confused(c)

DecodeRow(c, p) ==
  CASE p.type = "ROW" /\ p.n = c.n -> [c EXCEPT !.rows = @ + 1]
    [] p.type = (IF "DEPRECATE_EOF" \in caps THEN "OK_FE" ELSE "EOF") ->
         Gets(c, RowSet(c.rows, p.status), p.status)
    [] OTHER -> Confused(c)

Decode(c, p) ==
  CASE torn -> Confused(c)
    [] ~torn /\ c.due # <<>> -> DecodeDue(c, p)
    [] ~torn /\ c.due = <<>> /\ p.type = "ERR" /\ c.phase \in {"head", "rows"} -> Gets(c, Error, {})
    [] ~torn /\ c.due = <<>> /\ p.type # "ERR" /\ c.phase = "head" -> DecodeHead(c, p)
    [] ~torn /\ c.due = <<>> /\ p.type # "ERR" /\ c.phase = "rows" -> DecodeRow(c, p)
    [] OTHER -> Confused(c)

-----------------------------------------------------------------------------
WriterFor(c) ==
  CASE c \in {"query", "execute"} -> "query"
    [] c = "fetch" -> "rows"
    [] OTHER -> c

Idle == [op |-> "idle", exhausted |-> FALSE, cursor |-> FALSE]

Init ==
  /\ command \in Call
  /\ caps \in ClientCapabilities
  /\ writer = WriterFor(command)
  /\ last_end = NoEnd
  /\ session_status \in {SessionStatusFlags(s) : s \in BackendStatus}
  /\ default_status = session_status
  /\ columns \in IF command = "fetch" THEN ColumnCount \ {0} ELSE {0}
  /\ limit \in IF command = "fetch" THEN FetchLimit ELSE {0}
  /\ remaining = limit
  /\ col = 0 /\ rows = 0
  /\ exhausted = FALSE /\ cursor_open = FALSE
  /\ outgoing = <<>> /\ call = Idle
  /\ completion = FALSE /\ torn = FALSE /\ handler = "running"
  /\ client = [phase |-> IF command = "fetch" THEN "rows" ELSE "head",
               due |-> <<>>, n |-> columns, rows |-> 0, results |-> <<>>]
  /\ submitted = <<>>

(* The backend calls a method of the writer it holds.                      *)
Holds(w) ==
  /\ writer = w /\ outgoing = <<>> /\ handler = "running"
  /\ GivesUpWhenTorn => ~torn

Emits(op, packets) ==
  /\ outgoing' = packets
  /\ call' = [Idle EXCEPT !.op = IF packets = <<>> THEN "idle" ELSE op]

Submits(result) == submitted' = Append(submitted, result)

(* finalize: the end of the previous result, held back until it is known   *)
(* whether another follows, and refused if the client cannot take it.      *)
MayFinalize_anyway == TRUE
MayFinalize == last_end # NoEnd => MultiResults

MoreResults(more) == IF more THEN {"MORE_RESULTS"} ELSE {}

Terminator_stale(end, more) ==         \* sets MORE_RESULTS, never clears it
  [type |-> end.type, n |-> 0, status |-> end.status \cup MoreResults(more)]

Terminator(end, more) ==
  [type |-> end.type, n |-> 0, status |-> (end.status \ {"MORE_RESULTS"}) \cup MoreResults(more)]

Finalized(end, more) == IF end = NoEnd THEN <<>> ELSE <<Terminator(end, more)>>

StatusAfterFinalize_unsaved(end) == session_status
StatusAfterFinalize(end) ==
  IF end = NoEnd THEN session_status ELSE SessionStatusFlags(end.status)

Header(n, status) ==
  IF n = 0 THEN <<>>
  ELSE <<COUNT(n), COLUMNS(n)>> \o (IF "DEPRECATE_EOF" \in caps THEN <<>> ELSE <<EOF(status)>>)

SetStatusFlags(status) ==
  /\ Holds("query") \/ Holds("rows") \/ Holds("execute_cursor")
  /\ default_status' = status
  /\ UNCHANGED <<outside, writer, last_end, session_status, columns, col, remaining,
                 exhausted, cursor_open, outgoing, call, rows, submitted>>

(* start, start_with_metadata                                              *)
Start(n) ==
  /\ Holds("query") /\ MayFinalize
  /\ Len(submitted) < MaxResults
  /\ Emits("consume", Finalized(last_end, TRUE) \o Header(n, default_status))
  /\ session_status' = StatusAfterFinalize(last_end)
  /\ last_end' = NoEnd
  /\ writer' = "rows" /\ columns' = n /\ col' = 0 /\ rows' = 0
  /\ UNCHANGED <<outside, default_status, remaining, exhausted, cursor_open, submitted>>

(* complete_one (an empty status inherits) and complete_one_with_status.   *)
CompleteOne(given, literal) ==
  LET status == IF given = {} /\ ~literal THEN default_status ELSE given
  IN  /\ Holds("query") /\ MayFinalize
      /\ Len(submitted) < MaxResults
      /\ Emits("consume", Finalized(last_end, TRUE))
      /\ session_status' = StatusAfterFinalize(last_end)
      /\ default_status' = SessionStatusFlags(status)
      /\ last_end' = [type |-> "OK", status |-> status]
      /\ Submits(Ok(status))
      /\ UNCHANGED <<outside, writer, columns, col, remaining, exhausted, cursor_open, rows>>

HasResult == last_end # NoEnd

NoMoreResults ==
  /\ Holds("query") /\ HasResult
  /\ outgoing' = Finalized(last_end, FALSE)
  /\ call' = [Idle EXCEPT !.op = "complete"]
  /\ session_status' = StatusAfterFinalize(last_end)
  /\ last_end' = NoEnd
  /\ writer' = "none"
  /\ UNCHANGED <<outside, default_status, columns, col, remaining, exhausted, cursor_open,
                 rows, submitted>>

(* QueryResultWriter::error, which RowWriter::finish_error and the error   *)
(* methods of the cursor writers end in.                                   *)
ErrorEnds ==
  /\ MayFinalize
  /\ outgoing' = Finalized(last_end, TRUE) \o <<ERR>>
  /\ call' = [Idle EXCEPT !.op = "complete", !.exhausted = command = "fetch"]
  /\ session_status' = SessionStatusFlags(default_status)
  /\ last_end' = NoEnd
  /\ writer' = "none"
  /\ Submits(Error)
  /\ UNCHANGED <<outside, default_status, columns, remaining, cursor_open, rows>>

QueryError ==
  /\ Holds("query") \/ Holds("execute_cursor")
  /\ ErrorEnds
  /\ UNCHANGED <<col, exhausted>>

FinishError ==
  /\ Holds("rows")
  /\ ErrorEnds
  /\ col' = 0
  /\ exhausted' = (command = "fetch")

(* write_col, and write_row up to its end_row.  A value that does not      *)
(* encode, or that would outgrow the packet, leaves the row as it was.     *)
WriteCol ==
  /\ Holds("rows") /\ command # "fetch" /\ col < columns
  /\ col' = col + 1
  /\ UNCHANGED <<outside, writer, last_end, default_status, session_status, columns, remaining,
                 exhausted, cursor_open, outgoing, call, rows, submitted>>

RowIsWhole == col = columns

EndRow ==
  /\ Holds("rows") /\ command # "fetch"
  /\ rows < MaxRows
  /\ IF columns = 0
       THEN /\ col' = col + 1 /\ rows' = rows + 1
            /\ UNCHANGED <<outgoing, call>>
       ELSE /\ RowIsWhole
            /\ Emits("row", <<ROW(col)>>)
            /\ UNCHANGED <<col, rows>>
  /\ UNCHANGED <<outside, writer, last_end, default_status, session_status, columns, remaining,
                 exhausted, cursor_open, submitted>>

(* finish_one and finish_one_with_info: a whole row not yet ended is sent, *)
(* a partial one makes the call fail (CallFails).                          *)
FinishOne ==
  LET pending == columns > 0 /\ col # 0
      count == IF columns = 0 THEN 0 ELSE IF pending THEN rows + 1 ELSE rows
      end == IF columns = 0 THEN "OK"
             ELSE IF "DEPRECATE_EOF" \in caps THEN "OK_FE" ELSE "EOF"
  IN  /\ Holds("rows") /\ command # "fetch"
      /\ pending => RowIsWhole /\ rows < MaxRows
      /\ Emits("consume", IF pending THEN <<ROW(col)>> ELSE <<>>)
      /\ last_end' = [type |-> end, status |-> default_status]
      /\ default_status' = SessionStatusFlags(default_status)
      /\ Submits(IF columns = 0 THEN Ok(default_status) ELSE RowSet(count, default_status))
      /\ writer' = "query" /\ col' = 0 /\ rows' = 0
      /\ UNCHANGED <<outside, session_status, columns, remaining, exhausted, cursor_open>>

CursorEnd == IF "DEPRECATE_EOF" \in caps THEN "OK_FE" ELSE "EOF"

(* CursorExecuteWriter::open: metadata without its EOF, then the one       *)
(* terminator that says CURSOR_EXISTS.                                     *)
CursorHeader_withEof(n, status) == Header(n, status)
CursorHeader(n, status) == <<COUNT(n), COLUMNS(n)>>

CursorStatus(flag) == SessionStatusFlags(default_status) \cup {flag}

Open(n) ==
  LET status == CursorStatus("CURSOR_EXISTS")
  IN  /\ Holds("execute_cursor") /\ n > 0
      /\ outgoing' = CursorHeader(n, status)
                       \o <<Terminator([type |-> CursorEnd, status |-> status], FALSE)>>
      /\ call' = [Idle EXCEPT !.op = "complete", !.cursor = TRUE]
      /\ session_status' = SessionStatusFlags(status)
      /\ Submits(RowSet(0, status))
      /\ writer' = "none"
      /\ UNCHANGED <<outside, last_end, default_status, columns, col, remaining, exhausted,
                     cursor_open, rows>>

(* CursorFetchWriter::write_row_with.  `encode` writes the columns from    *)
(* col on and may stop anywhere; then end_row sends the row.               *)
BatchHasRoom_offByOne == remaining >= 0
BatchHasRoom == remaining > 0

WriteRowWith ==
  /\ Holds("rows") /\ command = "fetch"
  /\ BatchHasRoom
  /\ \E n \in col .. columns, encoded \in BOOLEAN :
       /\ col' = n
       /\ IF encoded /\ n = columns
            THEN Emits("row", <<ROW(n)>>)
            ELSE UNCHANGED <<outgoing, call>>
  /\ UNCHANGED <<outside, writer, last_end, default_status, session_status, columns, remaining,
                 exhausted, cursor_open, rows, submitted>>

BatchFlag_swapped(last) == IF last THEN "CURSOR_EXISTS" ELSE "LAST_ROW_SENT"
BatchFlag(last) == IF last THEN "LAST_ROW_SENT" ELSE "CURSOR_EXISTS"

FinishFetch(last) ==
  LET status == CursorStatus(BatchFlag(last))
  IN  /\ Holds("rows") /\ command = "fetch" /\ col = 0
      /\ outgoing' = <<Terminator([type |-> CursorEnd, status |-> status], FALSE)>>
      /\ call' = [Idle EXCEPT !.op = "complete", !.exhausted = last]
      /\ session_status' = SessionStatusFlags(status)
      /\ Submits(RowSet(rows, status))
      /\ writer' = "none"
      /\ UNCHANGED <<outside, last_end, default_status, columns, col, remaining, exhausted,
                     cursor_open, rows>>

(* StatementMetaWriter::reply, reply_with_metadata and error.              *)
Definitions(n) ==
  IF n = 0 THEN <<>>
  ELSE <<COLUMNS(n)>> \o (IF "DEPRECATE_EOF" \in caps THEN <<>> ELSE <<EOF(session_status)>>)

PrepareReply(params, n) ==
  /\ Holds("prepare")
  /\ outgoing' = <<PREPARE_OK(params, n)>> \o Definitions(params) \o Definitions(n)
  /\ call' = [Idle EXCEPT !.op = "complete"]
  /\ Submits(Prepared(params, n))
  /\ writer' = "none"
  /\ UNCHANGED <<outside, last_end, default_status, session_status, columns, col, remaining,
                 exhausted, cursor_open, rows>>

(* InitWriter::ok, which repeats the session status, and ok_with_status,   *)
(* which sends what it is given: a backend gives it session state only.    *)
InitOk(status) ==
  /\ Holds("init")
  /\ "MORE_RESULTS" \notin status
  /\ outgoing' = <<OK(status)>>
  /\ call' = [Idle EXCEPT !.op = "complete"]
  /\ session_status' = SessionStatusFlags(status)
  /\ Submits(Ok(status))
  /\ writer' = "none"
  /\ UNCHANGED <<outside, last_end, default_status, columns, col, remaining, exhausted,
                 cursor_open, rows>>

(* InitWriter::error and StatementMetaWriter::error keep the status.       *)
PlainError ==
  /\ Holds("init") \/ Holds("prepare")
  /\ outgoing' = <<ERR>>
  /\ call' = [Idle EXCEPT !.op = "complete"]
  /\ Submits(Error)
  /\ writer' = "none"
  /\ UNCHANGED <<outside, last_end, default_status, session_status, columns, col, remaining,
                 exhausted, cursor_open, rows>>

(* A method that takes `self` refuses before it writes anything: multiple  *)
(* results not negotiated, nothing to finish, a partial row, an unusable   *)
(* column count or metadata; or the backend simply drops the writer.       *)
CallFails ==
  /\ \E w \in {"query", "rows", "execute_cursor", "prepare", "init"} : Holds(w)
  /\ writer' = "none"
  /\ UNCHANGED <<outside, last_end, default_status, session_status, columns, col, remaining,
                 exhausted, cursor_open, outgoing, call, rows, submitted>>

(* One packet goes out, and the method returns after its last one.         *)
WritePacket ==
  LET last == Len(outgoing) = 1
      done(op) == last /\ call.op = op
  IN  /\ outgoing # <<>>
      /\ outgoing' = Tail(outgoing)
      /\ client' = Decode(client, Head(outgoing))
      /\ call' = IF last THEN Idle ELSE call
      /\ completion' = (completion \/ done("complete"))
      /\ exhausted' = IF done("complete") THEN call.exhausted ELSE exhausted
      /\ cursor_open' = IF done("complete") THEN call.cursor ELSE cursor_open
      /\ IF done("row")
           THEN /\ col' = 0 /\ rows' = rows + 1
                /\ remaining' = IF command = "fetch" THEN remaining - 1 ELSE remaining
           ELSE UNCHANGED <<col, rows, remaining>>
      /\ UNCHANGED <<fixed, writer, last_end, default_status, session_status, columns, torn,
                     handler, submitted>>

(* The packet being written fails: the transport breaks or times out, at   *)
(* any byte of it, or (not for a row, whose columns were checked) it is    *)
(* over the packet limit and nothing of it is written.  A row's writer     *)
(* survives the failure, a consumed one does not.                          *)
PacketFails ==
  /\ outgoing # <<>>
  /\ outgoing' = <<>> /\ call' = Idle
  /\ \/ torn' = TRUE
     \/ call.op # "row" /\ UNCHANGED torn
  /\ writer' = IF call.op = "row" THEN writer ELSE "none"
  /\ UNCHANGED <<fixed, last_end, default_status, session_status, columns, col, remaining,
                 exhausted, cursor_open, completion, handler, client, rows, submitted>>

(* The callback returns, with an error or not; run() checks the completion *)
(* (ensure_response_completed, init_response).                             *)
HandlerReturns_unchecked ==
  /\ handler = "running" /\ outgoing = <<>>
  /\ handler' \in {"answered", "failed"}
  /\ UNCHANGED <<fixed, writer, last_end, default_status, session_status, columns, col, remaining,
                 exhausted, cursor_open, outgoing, call, completion, torn, client, rows, submitted>>

HandlerReturns ==
  /\ handler = "running" /\ outgoing = <<>>
  /\ handler' \in (IF completion THEN {"answered"} ELSE {}) \cup {"failed"}
  /\ UNCHANGED <<fixed, writer, last_end, default_status, session_status, columns, col, remaining,
                 exhausted, cursor_open, outgoing, call, completion, torn, client, rows, submitted>>

Next ==
  \/ \E status \in BackendStatus : SetStatusFlags(status)
  \/ \E n \in ColumnCount : Start(n) \/ Open(n)
  \/ \E given \in BackendStatus \cup {{}}, literal \in BOOLEAN : CompleteOne(given, literal)
  \/ NoMoreResults \/ QueryError \/ FinishError
  \/ WriteCol \/ EndRow \/ FinishOne
  \/ WriteRowWith \/ (\E last \in BOOLEAN : FinishFetch(last))
  \/ \E params, n \in ColumnCount : PrepareReply(params, n)
  \/ \E status \in BackendStatus \cup {session_status} : InitOk(status)
  \/ PlainError \/ CallFails
  \/ WritePacket \/ PacketFails \/ HandlerReturns

Spec == Init /\ [][Next]_vars

-----------------------------------------------------------------------------
ClientResult ==
  [kind : {"ok", "set", "err"}, rows : 0 .. MaxRows,
   status : SUBSET UNION (BackendStatus \cup {DurableFlag, CursorFlags})]
  \cup [kind : {"prepared"}, rows : {0}, status : {{}}, params : ColumnCount, n : ColumnCount]

(* Whatever methods the backend calls, in whatever order, with whatever    *)
(* failures, every packet is one the grammar of the client's capabilities  *)
(* allows where it stands: metadata as long as its count, rows as wide as  *)
(* their metadata, the right terminator, no unnegotiated second result.    *)
ClientUnderstands == client.phase # "confused"

(* The completion flag run() trusts says exactly that the client has the   *)
(* end of the response: not before a held back terminator is out, and      *)
(* never while MORE_RESULTS still announces another result.                *)
CompletionIsDelivery == completion <=> client.phase = "done"

LastResult == client.results[Len(client.results)]

(* The session status the next command starts from is the durable part of  *)
(* the last status the client was told, through every chain of results.    *)
SessionStatusTold ==
  completion /\ LastResult.kind \in {"ok", "set"} =>
    session_status = SessionStatusFlags(LastResult.status)

(* A FETCH never delivers more rows than the client asked for, rows that   *)
(* failed to encode and were written again included.                       *)
FetchBounded ==
  command = "fetch" =>
    /\ client.rows <= limit
    /\ \A i \in DOMAIN client.results : client.results[i].rows <= limit

(* run() keeps the statement's cursor exactly when the client was told it  *)
(* may fetch from it.                                                      *)
CursorStateTold ==
  handler = "answered" =>
    /\ command = "execute_cursor" => (cursor_open <=> "CURSOR_EXISTS" \in LastResult.status)
    /\ command = "fetch" => (exhausted <=> "CURSOR_EXISTS" \notin LastResult.status)

(* The client receives exactly the results the backend submitted, in order *)
(* and unaltered, and a command answered is a command wholly received.     *)
Exchange ==
  INSTANCE ResultExchange
    WITH Result <- ClientResult, delivered <- client.results, outcome <- handler

DeliversResults == Exchange!Spec

(* "A failed transport is discarded, never retried as a new logical packet *)
(* or followed by an ERR on the broken wire" (packet_writer.rs).           *)
BrokenWireSilent == [][torn => UNCHANGED client]_vars
=============================================================================
