------------------------- MODULE CommandLoopProofs -------------------------
(***************************************************************************)
(* Proofs about CommandLoop, for every set of statements and parameters,   *)
(* every limit, every set of client commands and every backend status:     *)
(* first the server's table, then what the client knows of it.             *)
(*                                                                         *)
(* The accounting theorem needs a little counting: the bytes a table holds *)
(* split into those of one statement and those of the others.              *)
(*                                                                         *)
(* The client's views are stated for moments when nothing is in flight.    *)
(* What holds in between is that they will agree once the replies already  *)
(* written are read: the inductive invariants of the second part speak of  *)
(* the last reply in the outbox that bears on a statement, a cursor or the *)
(* status.                                                                 *)
(***************************************************************************)
EXTENDS CommandLoop, FiniteSetTheorems, SequenceTheorems, TLAPS

Buffers == [Param -> Nat]
Tables == UNION {[ids -> StatementData] : ids \in SUBSET StmtId}

(* The bytes of a table, and the table without one of its statements.      *)
BytesOf(table) ==
  UNION {{id} \X HeldBytes(table[id].long_data) : id \in DOMAIN table}
Without(table, id) == [i \in DOMAIN table \ {id} |-> table[i]]

-----------------------------------------------------------------------------
(* A finite union, indexed by a finite set, of finite sets is finite.      *)
LEMMA FiniteIndexedUnion ==
  ASSUME NEW I, IsFiniteSet(I), NEW f, f \in [I -> SUBSET UNION {f[i] : i \in I}],
         \A i \in I : IsFiniteSet(f[i])
  PROVE  IsFiniteSet(UNION {f[i] : i \in I})
<1> DEFINE T == {f[i] : i \in I}
<1>1. f \in Surjection(I, T)
  BY DEF Surjection
<1>2. IsFiniteSet(T)
  BY <1>1, FS_Surjection
<1>3. \A S \in T : IsFiniteSet(S)
  OBVIOUS
<1> QED
  BY <1>2, <1>3, FS_UNION

(* The size of a union of disjoint sets, and of an interval.               *)
LEMMA DisjointUnion ==
  ASSUME NEW S, NEW T, IsFiniteSet(S), IsFiniteSet(T), S \cap T = {}
  PROVE  Cardinality(S \cup T) = Cardinality(S) + Cardinality(T)
<1>1. Cardinality(S \cup T) = Cardinality(S) + Cardinality(T) - Cardinality(S \cap T)
  BY FS_Union
<1>2. Cardinality(S \cap T) = 0 /\ Cardinality(S) \in Nat /\ Cardinality(T) \in Nat
  BY FS_EmptySet, FS_CardinalityType
<1> QED
  BY <1>1, <1>2

LEMMA IntervalSize ==
  ASSUME NEW m \in Nat, NEW n \in Nat
  PROVE  IsFiniteSet(m + 1 .. m + n) /\ Cardinality(m + 1 .. m + n) = n
<1>1. m + 1 \in Int /\ m + n \in Int
  OBVIOUS
<1>2. /\ IsFiniteSet(m + 1 .. m + n)
      /\ Cardinality(m + 1 .. m + n) = IF m + 1 > m + n THEN 0 ELSE (m + n) - (m + 1) + 1
  BY <1>1, FS_Interval
<1> QED
  BY <1>2

(* Pairing a finite set with one element keeps its size.                   *)
LEMMA SingletonProduct ==
  ASSUME NEW x, NEW S, IsFiniteSet(S)
  PROVE  IsFiniteSet({x} \X S) /\ Cardinality({x} \X S) = Cardinality(S)
<1>1. IsFiniteSet({x}) /\ Cardinality({x}) = 1
  BY FS_Singleton
<1>2. IsFiniteSet({x} \X S) /\ Cardinality({x} \X S) = Cardinality({x}) * Cardinality(S)
  BY <1>1, FS_Product
<1>3. Cardinality(S) \in Nat
  BY FS_CardinalityType
<1> QED
  BY <1>1, <1>2, <1>3

(* The bytes of a statement's buffers are finitely many.                   *)
LEMMA HeldBytesFinite ==
  ASSUME NEW ld \in Buffers
  PROVE  IsFiniteSet(HeldBytes(ld)) /\ Cardinality(HeldBytes(ld)) \in Nat
<1> DEFINE f == [p \in Param |-> {p} \X (1 .. ld[p])]
<1>1. HeldBytes(ld) = UNION {f[p] : p \in Param}
  BY DEF HeldBytes
<1>2. ASSUME NEW p \in Param PROVE IsFiniteSet(f[p])
  <2>1. ld[p] \in Nat
    BY DEF Buffers
  <2>2. IsFiniteSet(1 .. ld[p])
    BY <2>1, FS_Interval
  <2> QED
    BY <2>2, SingletonProduct
<1>3. f \in [Param -> SUBSET UNION {f[p] : p \in Param}]
  OBVIOUS
<1>4. IsFiniteSet(HeldBytes(ld))
  <2> HIDE DEF f
  <2> QED BY <1>1, <1>2, <1>3, FiniteIndexedUnion, CommandAssumption
<1> QED
  BY <1>4, FS_CardinalityType

(* Statements without long data hold no byte.                              *)
LEMMA EmptyBuffersHoldNothing ==
  EmptyBuffers \in Buffers /\ HeldBytes(EmptyBuffers) = {} /\ Retained(EmptyBuffers) = 0
<1>1. HeldBytes(EmptyBuffers) = {}
  BY DEF HeldBytes, EmptyBuffers
<1> QED
  BY <1>1, FS_EmptySet DEF Retained, EmptyBuffers, Buffers

(* Appending n bytes to one buffer adds n bytes to the statement.          *)
LEMMA AppendAddsBytes ==
  ASSUME NEW ld \in Buffers, NEW p \in Param, NEW n \in Nat
  PROVE  /\ [ld EXCEPT ![p] = @ + n] \in Buffers
         /\ Retained([ld EXCEPT ![p] = @ + n]) = Retained(ld) + n
<1> DEFINE new == [ld EXCEPT ![p] = @ + n]
           added == {p} \X (ld[p] + 1 .. ld[p] + n)
<1>1. ld[p] \in Nat /\ new \in Buffers
  BY DEF Buffers
<1>2. HeldBytes(new) = HeldBytes(ld) \cup added
  <2>1. ASSUME NEW b PROVE b \in HeldBytes(new) <=> b \in HeldBytes(ld) \cup added
    <3>1. b \in HeldBytes(new) <=> \E q \in Param : \E i \in 1 .. new[q] : b = <<q, i>>
      BY DEF HeldBytes
    <3>2. b \in HeldBytes(ld) <=> \E q \in Param : \E i \in 1 .. ld[q] : b = <<q, i>>
      BY DEF HeldBytes
    <3>3. b \in added <=> \E i \in ld[p] + 1 .. ld[p] + n : b = <<p, i>>
      OBVIOUS
    <3>4. new[p] = ld[p] + n /\ \A q \in Param \ {p} : new[q] = ld[q]
      BY DEF Buffers
    <3>5. \A i : i \in 1 .. new[p] <=> i \in 1 .. ld[p] \/ i \in ld[p] + 1 .. ld[p] + n
      BY <1>1, <3>4
    <3> HIDE DEF new, added
    <3> QED
      BY <3>1, <3>2, <3>3, <3>4, <3>5
  <2> QED
    BY <2>1
<1>3. HeldBytes(ld) \cap added = {}
  BY <1>1 DEF HeldBytes
<1>4. IsFiniteSet(added) /\ Cardinality(added) = n
  <2>1. /\ IsFiniteSet(ld[p] + 1 .. ld[p] + n)
        /\ Cardinality(ld[p] + 1 .. ld[p] + n) = n
    BY <1>1, IntervalSize
  <2> QED
    BY <2>1, SingletonProduct
<1>5. Cardinality(HeldBytes(new)) = Cardinality(HeldBytes(ld)) + n
  <2> HIDE DEF new, added
  <2>1. IsFiniteSet(HeldBytes(ld)) /\ Cardinality(HeldBytes(ld)) \in Nat
    BY HeldBytesFinite
  <2> QED
    BY <1>2, <1>3, <1>4, <2>1, DisjointUnion
<1> QED
  BY <1>1, <1>5 DEF Retained

(* The bytes of a table are those of one statement and those of the rest.  *)
LEMMA TableBytesFinite ==
  ASSUME NEW table \in Tables
  PROVE  IsFiniteSet(BytesOf(table)) /\ Cardinality(BytesOf(table)) \in Nat
<1> DEFINE f == [id \in DOMAIN table |-> {id} \X HeldBytes(table[id].long_data)]
<1>1. BytesOf(table) = UNION {f[id] : id \in DOMAIN table}
  BY DEF BytesOf
<1>2. IsFiniteSet(DOMAIN table)
  BY CommandAssumption, FS_Subset DEF Tables
<1>3. ASSUME NEW id \in DOMAIN table PROVE IsFiniteSet(f[id])
  <2>1. table[id].long_data \in Buffers
    BY DEF Tables, StatementData, Buffers
  <2> QED
    BY <2>1, HeldBytesFinite, SingletonProduct
<1>4. f \in [DOMAIN table -> SUBSET UNION {f[id] : id \in DOMAIN table}]
  OBVIOUS
<1>5. IsFiniteSet(BytesOf(table))
  <2> HIDE DEF f
  <2> QED BY <1>1, <1>2, <1>3, <1>4, FiniteIndexedUnion
<1> QED
  BY <1>5, FS_CardinalityType

LEMMA TableBytesSplit ==
  ASSUME NEW table \in Tables, NEW id \in DOMAIN table
  PROVE  /\ Without(table, id) \in Tables
         /\ Cardinality(BytesOf(table)) =
              Retained(table[id].long_data) + Cardinality(BytesOf(Without(table, id)))
<1> DEFINE rest == Without(table, id)
           own == {id} \X HeldBytes(table[id].long_data)
<1>1. rest \in Tables
  <2>1. PICK ids \in SUBSET StmtId : table \in [ids -> StatementData]
    BY DEF Tables
  <2>2. rest \in [ids \ {id} -> StatementData]
    BY <2>1 DEF Without
  <2>3. ids \ {id} \in SUBSET StmtId
    OBVIOUS
  <2> QED
    BY <2>2, <2>3 DEF Tables
<1>2. BytesOf(table) = own \cup BytesOf(rest)
  BY DEF BytesOf, Without
<1>3. own \cap BytesOf(rest) = {}
  BY DEF BytesOf, Without
<1>4. table[id].long_data \in Buffers
  BY DEF Tables, StatementData, Buffers
<1>5. IsFiniteSet(own) /\ Cardinality(own) = Retained(table[id].long_data)
  BY <1>4, HeldBytesFinite, SingletonProduct DEF Retained
<1> HIDE DEF rest, own
<1>6. IsFiniteSet(BytesOf(rest))
  BY <1>1, TableBytesFinite
<1>7. Cardinality(BytesOf(table)) = Cardinality(own) + Cardinality(BytesOf(rest))
  BY <1>2, <1>3, <1>5, <1>6, DisjointUnion
<1> QED
  BY <1>1, <1>5, <1>7 DEF rest

-----------------------------------------------------------------------------
(* Facts the steps share: what a command carries, and what reading one,    *)
(* answering it, replacing a statement and leaving run() do to the types.  *)

LEMMA CommandFields ==
  ASSUME NEW c \in ClientCommand
  PROVE  /\ c \in Command
         /\ c.op \in {"execute", "fetch", "close", "reset", "long_data"} => c.stmt \in StmtId
         /\ c.op = "long_data" => c.param \in Param /\ c.size \in Nat
BY CommandAssumption DEF Command

LEMMA StatusTypes ==
  ASSUME NEW status \in BackendStatus
  PROVE  /\ status \in SUBSET StatusFlag
         /\ SessionStatusFlags(status) \in SUBSET DurableFlag
         /\ SessionStatusFlags(status) \cup {"CURSOR_EXISTS"} \in SUBSET StatusFlag
         /\ SessionStatusFlags(status) \cup {"LAST_ROW_SENT"} \in SUBSET StatusFlag
BY FlagAssumption DEF SessionStatusFlags, CursorFlags

LEMMA ReceivesTypes ==
  ASSUME TypeOK, NEW c \in ClientCommand, Receives(c)
  PROVE  inbox' \in Seq(ClientCommand)
BY DEF TypeOK, Receives

LEMMA AnswerTypes ==
  ASSUME TypeOK, NEW c \in ClientCommand, NEW kind \in {"OK", "ERR", "EOF"},
         NEW status \in SUBSET StatusFlag, Answer(c, kind, status, NoStmt)
  PROVE  outbox' \in Seq(Reply)
<1>1. [to |-> c, kind |-> kind, status |-> status, stmt |-> NoStmt] \in Reply
  BY CommandFields DEF Reply
<1> QED
  BY <1>1 DEF TypeOK, Answer

LEMMA AnswerOKTypes ==
  ASSUME TypeOK, NEW c \in ClientCommand, NEW status \in SUBSET StatusFlag,
         AnswerOK(c, status) \/ AnswerERR(c)
  PROVE  outbox' \in Seq(Reply)
BY AnswerTypes DEF AnswerOK, AnswerERR

LEMMA TableType == TypeOK => stmts \in Tables
BY DEF TypeOK, Tables

LEMMA TableTypePrimed ==
  stmts' \in Tables => DOMAIN stmts' \in SUBSET StmtId /\ stmts' \in [DOMAIN stmts' -> StatementData]
BY DEF Tables

LEMMA SetStatementTypes ==
  ASSUME TypeOK, NEW id \in DOMAIN stmts, NEW data \in StatementData, SetStatement(id, data)
  PROVE  /\ stmts' \in Tables
         /\ DOMAIN stmts' = DOMAIN stmts
         /\ stmts'[id] = data
         /\ \A i \in DOMAIN stmts \ {id} : stmts'[i] = stmts[i]
         /\ Without(stmts', id) = Without(stmts, id)
<1>1. stmts \in [DOMAIN stmts -> StatementData] /\ DOMAIN stmts \in SUBSET StmtId
  BY DEF TypeOK
<1>2. stmts' = [stmts EXCEPT ![id] = data]
  BY DEF SetStatement
<1>3. stmts' \in [DOMAIN stmts -> StatementData]
  BY <1>1, <1>2
<1>4. /\ DOMAIN stmts' = DOMAIN stmts
      /\ stmts'[id] = data
      /\ \A i \in DOMAIN stmts \ {id} : stmts'[i] = stmts[i]
  BY <1>1, <1>2
<1>5. stmts' \in Tables
  BY <1>1, <1>3 DEF Tables
<1> QED
  BY <1>4, <1>5 DEF Without

LEMMA StatementTypes ==
  ASSUME TypeOK, NEW id \in DOMAIN stmts
  PROVE  /\ stmts[id] \in StatementData
         /\ stmts[id].long_data \in Buffers
         /\ Retained(stmts[id].long_data) \in Nat
<1>1. stmts[id] \in StatementData
  BY DEF TypeOK
<1>2. stmts[id].long_data \in Buffers
  BY <1>1 DEF StatementData, Buffers
<1> QED
  BY <1>1, <1>2, HeldBytesFinite DEF Retained

(* A statement with its cursor, its buffers or its error replaced is still *)
(* a statement.                                                            *)
LEMMA StatementUpdates ==
  ASSUME NEW data \in StatementData
  PROVE  /\ AfterPending(data) \in StatementData
         /\ [data EXCEPT !.cursor_columns = FALSE] \in StatementData
         /\ \A cursor \in BOOLEAN :
              [data EXCEPT !.cursor_columns = cursor, !.long_data = EmptyBuffers] \in StatementData
         /\ [data EXCEPT !.cursor_columns = FALSE, !.long_data = EmptyBuffers,
                         !.pending_error = NoError] \in StatementData
         /\ \A error \in PendingError : [data EXCEPT !.pending_error = error] \in StatementData
<1>1. EmptyBuffers \in [Param -> Nat]
  BY DEF EmptyBuffers
<1> QED
  BY <1>1 DEF StatementData, AfterPending, PendingError, NoError

LEMMA StatementAppends ==
  ASSUME NEW data \in StatementData, NEW p \in Param, NEW n \in Nat
  PROVE  /\ [data EXCEPT !.long_data[p] = @ + n] \in StatementData
         /\ [data EXCEPT !.long_data[p] = @ + n].long_data = [data.long_data EXCEPT ![p] = @ + n]
<1>1. data.long_data \in [Param -> Nat]
  BY DEF StatementData
<1>2. [data.long_data EXCEPT ![p] = @ + n] \in [Param -> Nat]
  BY <1>1
<1> QED
  BY <1>2 DEF StatementData

LEMMA NewStatementType ==
  ASSUME NEW n \in Nat PROVE NewStatement(n) \in StatementData
BY DEF NewStatement, StatementData, EmptyBuffers, PendingError

LEMMA TotalWithoutType ==
  ASSUME TypeOK, NEW id \in DOMAIN stmts PROVE TotalWithout(id) \in Nat
BY StatementTypes DEF TypeOK, TotalWithout, SaturatingSub

LEMMA LeaveTypes ==
  ASSUME TypeOK, NEW outcome \in {"closed", "failed"}, Leave(outcome),
         inbox' \in Seq(ClientCommand), outbox' \in Seq(Reply)
  PROVE  TypeOK'
BY DEF TypeOK, Leave, client

(* A command that changes nothing but the pipeline and the replies.        *)
LEMMA RefuseTypes ==
  ASSUME TypeOK, NEW c \in ClientCommand, Receives(c), Refuse(c)
  PROVE  TypeOK'
<1>1. inbox' \in Seq(ClientCommand)
  BY ReceivesTypes
<1>2. outbox' \in Seq(Reply)
  BY AnswerOKTypes DEF Refuse
<1> QED
  BY <1>1, <1>2 DEF TypeOK, Refuse, client, server

(* What a served command must establish: the types of the state it changes.*)
LEMMA ServedTypes ==
  ASSUME TypeOK, conn' = conn, UNCHANGED client,
         inbox' \in Seq(ClientCommand), outbox' \in Seq(Reply),
         stmts' \in Tables, total_long_data_size' \in Nat,
         status_flags' \in SUBSET DurableFlag, open_cursors' \in SUBSET StmtId
  PROVE  TypeOK'
BY TableTypePrimed DEF TypeOK, client

-----------------------------------------------------------------------------
(* Every command run() serves keeps the types.                             *)
LEMMA ServeKeepsTypes ==
  ASSUME TypeOK, NEW c \in ClientCommand, Serve(c)
  PROVE  TypeOK'
<1> USE DEF TypeOK
<1>1. stmts \in Tables
  BY TableType
<1>2. Receives(c) => inbox' \in Seq(ClientCommand)
  BY ReceivesTypes
<1>3. outbox \in Seq(Reply)
  OBVIOUS
<1>4. CASE Query(c)
  <2>1. PICK status \in BackendStatus :
          /\ status_flags' = SessionStatusFlags(status)
          /\ AnswerOK(c, status \ CursorFlags) \/ AnswerERR(c)
    BY <1>4 DEF Query
  <2>2. status \ CursorFlags \in SUBSET StatusFlag
    BY StatusTypes
  <2>3. outbox' \in Seq(Reply)
    BY <2>1, <2>2, AnswerOKTypes
  <2> QED
    BY <1>1, <1>2, <1>4, <2>1, <2>3, StatusTypes, ServedTypes DEF Query
<1>5. CASE InitDb(c)
  <2>1. CASE \E status \in BackendStatus \cup {status_flags} :
               /\ AnswerOK(c, status \ CursorFlags)
               /\ status_flags' = SessionStatusFlags(status)
    <3>1. PICK status \in BackendStatus \cup {status_flags} :
               /\ AnswerOK(c, status \ CursorFlags)
               /\ status_flags' = SessionStatusFlags(status)
      BY <2>1
    <3>2. status \ CursorFlags \in SUBSET StatusFlag
      BY StatusTypes, FlagAssumption
    <3>3. outbox' \in Seq(Reply)
      BY <3>1, <3>2, AnswerOKTypes
    <3>4. status_flags' \in SUBSET DurableFlag
      BY <3>1 DEF SessionStatusFlags
    <3> QED
      BY <1>1, <1>2, <1>5, <3>3, <3>4, ServedTypes DEF InitDb
  <2>2. CASE AnswerERR(c) /\ UNCHANGED status_flags
    <3>1. outbox' \in Seq(Reply)
      BY <2>2, AnswerOKTypes
    <3> QED
      BY <1>1, <1>2, <1>5, <2>2, <3>1, ServedTypes DEF InitDb
  <2> QED
    BY <1>5, <2>1, <2>2 DEF InitDb
<1>6. CASE \/ RefuseCommand(c) \/ RefusePrepare(c) \/ UnsupportedExecute(c)
           \/ FetchNoCursor(c) \/ ResetUnknown(c)
  BY <1>6, RefuseTypes DEF RefuseCommand, RefusePrepare, UnsupportedExecute,
                           FetchNoCursor, ResetUnknown
<1>7. CASE Prepare(c)
  <2>1. CASE AnswerERR(c) /\ UNCHANGED stmts
    <3>1. outbox' \in Seq(Reply)
      BY <2>1, AnswerOKTypes
    <3> QED
      BY <1>1, <1>2, <1>7, <2>1, <3>1, ServedTypes DEF Prepare
  <2>2. CASE \E id \in StmtId \ DOMAIN stmts, n \in ParamCount :
               /\ Answer(c, "PREPARE_OK", {}, id)
               /\ stmts' = [i \in DOMAIN stmts \cup {id} |->
                              IF i = id THEN NewStatement(n) ELSE stmts[i]]
    <3>1. PICK id \in StmtId \ DOMAIN stmts, n \in ParamCount :
               /\ Answer(c, "PREPARE_OK", {}, id)
               /\ stmts' = [i \in DOMAIN stmts \cup {id} |->
                              IF i = id THEN NewStatement(n) ELSE stmts[i]]
      BY <2>2
    <3>2. [to |-> c, kind |-> "PREPARE_OK", status |-> {}, stmt |-> id] \in Reply
      BY CommandFields DEF Reply
    <3>3. outbox' \in Seq(Reply)
      BY <3>1, <3>2 DEF Answer
    <3>4. stmts' \in [DOMAIN stmts \cup {id} -> StatementData]
      BY <3>1, NewStatementType, LimitAssumption
    <3>5. DOMAIN stmts \cup {id} \in SUBSET StmtId
      OBVIOUS
    <3>6. stmts' \in Tables
      BY <3>4, <3>5 DEF Tables
    <3> QED
      BY <1>2, <1>7, <3>3, <3>6, ServedTypes DEF Prepare
  <2> QED
    BY <1>7, <2>1, <2>2 DEF Prepare
<1>8. CASE ExecutePending(c)
  <2>1. /\ c.stmt \in DOMAIN stmts /\ Receives(c) /\ AnswerERR(c)
        /\ SetStatement(c.stmt, AfterPending(stmts[c.stmt]))
    BY SMTT(60), <1>8 DEF ExecutePending, ExecuteReaches
  <2>2. AfterPending(stmts[c.stmt]) \in StatementData
    BY <2>1, StatementTypes, StatementUpdates
  <2>3. stmts' \in Tables
    BY <2>1, <2>2, SetStatementTypes
  <2>4. outbox' \in Seq(Reply)
    BY <2>1, AnswerOKTypes
  <2> QED
    BY <1>2, <1>8, <2>1, <2>3, <2>4, ServedTypes DEF ExecutePending
<1>9. ASSUME NEW cursor \in BOOLEAN, c.stmt \in DOMAIN stmts, Consumed(c.stmt, cursor)
      PROVE  stmts' \in Tables /\ total_long_data_size' \in Nat
  <2>1. [stmts[c.stmt] EXCEPT !.cursor_columns = cursor, !.long_data = EmptyBuffers]
          \in StatementData
    BY <1>9, StatementTypes, StatementUpdates
  <2> QED
    BY <1>9, <2>1, SetStatementTypes, TotalWithoutType DEF Consumed
<1>10. CASE ExecuteBadParams(c)
  <2>1. c.stmt \in DOMAIN stmts /\ Receives(c) /\ AnswerERR(c) /\ Consumed(c.stmt, FALSE)
    BY <1>10 DEF ExecuteBadParams, ExecuteReaches
  <2>2. outbox' \in Seq(Reply)
    BY <2>1, AnswerOKTypes
  <2> QED
    BY <1>2, <1>9, <1>10, <2>1, <2>2, ServedTypes DEF ExecuteBadParams
<1>11. CASE ExecutePlain(c)
  <2>1. c.stmt \in DOMAIN stmts /\ Receives(c) /\ Consumed(c.stmt, FALSE)
    BY <1>11 DEF ExecutePlain, ExecuteReaches
  <2>2. PICK status \in BackendStatus :
          /\ status_flags' = SessionStatusFlags(status)
          /\ AnswerOK(c, status \ CursorFlags) \/ AnswerERR(c)
    BY <1>11 DEF ExecutePlain
  <2>3. status \ CursorFlags \in SUBSET StatusFlag
    BY StatusTypes
  <2>4. outbox' \in Seq(Reply)
    BY <2>2, <2>3, AnswerOKTypes
  <2> QED
    BY <1>2, <1>9, <1>11, <2>1, <2>2, <2>4, StatusTypes, ServedTypes DEF ExecutePlain
<1>12. CASE ExecuteCursor(c)
  <2>1. c.stmt \in DOMAIN stmts /\ c.stmt \in StmtId /\ Receives(c)
    BY <1>12 DEF ExecuteCursor, ExecuteReaches
  <2>2. PICK status \in BackendStatus, cursor \in BOOLEAN :
          /\ status_flags' = SessionStatusFlags(status)
          /\ IF cursor THEN AnswerOK(c, SessionStatusFlags(status) \cup {"CURSOR_EXISTS"})
                       ELSE AnswerERR(c)
          /\ Consumed(c.stmt, cursor)
          /\ open_cursors' = CursorsAfter(c.stmt, cursor)
    BY <1>12 DEF ExecuteCursor
  <2>3. outbox' \in Seq(Reply)
    BY <2>2, StatusTypes, AnswerOKTypes
  <2>4. open_cursors' \in SUBSET StmtId
    BY <2>1, <2>2 DEF CursorsAfter
  <2> QED
    BY <1>2, <1>9, <1>12, <2>1, <2>2, <2>3, <2>4, StatusTypes, ServedTypes DEF ExecuteCursor
<1>13. CASE Fetch(c)
  <2>1. c.stmt \in DOMAIN stmts /\ Receives(c)
    BY <1>13 DEF Fetch, ServerCursors
  <2>2. PICK status \in BackendStatus, outcome \in {"more", "exhausted", "error"} :
       /\ status_flags' = SessionStatusFlags(status)
       /\ CASE outcome = "more" ->
                 AnswerOK(c, SessionStatusFlags(status) \cup {"CURSOR_EXISTS"})
            [] outcome = "exhausted" ->
                 AnswerOK(c, SessionStatusFlags(status) \cup {"LAST_ROW_SENT"})
            [] OTHER -> AnswerERR(c)
       /\ IF CursorEnds(outcome)
            THEN /\ SetStatement(c.stmt, [stmts[c.stmt] EXCEPT !.cursor_columns = FALSE])
                 /\ open_cursors' = open_cursors \ {c.stmt}
            ELSE UNCHANGED <<stmts, open_cursors>>
    BY <1>13 DEF Fetch
  <2>3. outbox' \in Seq(Reply)
    BY <2>2, StatusTypes, AnswerOKTypes
  <2>4. [stmts[c.stmt] EXCEPT !.cursor_columns = FALSE] \in StatementData
    BY <2>1, StatementTypes, StatementUpdates
  <2>5. stmts' \in Tables /\ open_cursors' \in SUBSET StmtId
    BY <1>1, <2>1, <2>2, <2>4, SetStatementTypes
  <2> QED
    BY <1>2, <1>13, <2>1, <2>2, <2>3, <2>5, StatusTypes, ServedTypes DEF Fetch
<1>14. CASE IgnoreLongData(c)
  BY <1>1, <1>2, <1>14, ServedTypes DEF IgnoreLongData, server
<1>15. CASE SendLongData(c)
  <2>1. /\ c.stmt \in DOMAIN stmts /\ Receives(c)
        /\ c.param \in Param /\ c.size \in Nat
    BY <1>15, CommandFields DEF SendLongData
  <2>2. \A error \in PendingError : [stmts[c.stmt] EXCEPT !.pending_error = error] \in StatementData
    BY <2>1, StatementTypes, StatementUpdates
  <2>3. [stmts[c.stmt] EXCEPT !.long_data[c.param] = @ + c.size] \in StatementData
    BY <2>1, StatementTypes, StatementAppends
  <2>4. "ER_WRONG_ARGUMENTS" \in PendingError /\ "ER_NET_PACKET_TOO_LARGE" \in PendingError
    BY DEF PendingError
  <2>5. stmts' \in Tables
    BY <1>15, <2>1, <2>2, <2>3, <2>4, SetStatementTypes DEF SendLongData
  <2>6. total_long_data_size' \in Nat
    BY <1>15, <2>1 DEF SendLongData
  <2>7. UNCHANGED <<conn, status_flags, open_cursors, outbox, client>>
    BY <1>15 DEF SendLongData
  <2> QED
    BY <1>2, <2>1, <2>5, <2>6, <2>7, ServedTypes
<1>16. CASE Close(c)
  <2>1. stmts' \in Tables
    <3>1. stmts' \in [DOMAIN stmts \ {c.stmt} -> StatementData]
      BY <1>16 DEF Close, TableWithout
    <3>2. DOMAIN stmts \ {c.stmt} \in SUBSET StmtId
      OBVIOUS
    <3> QED
      BY <3>1, <3>2 DEF Tables
  <2>2. total_long_data_size' \in Nat
    BY <1>16, TotalWithoutType DEF Close
  <2> QED
    BY <1>2, <1>16, <2>1, <2>2, ServedTypes DEF Close
<1>17. CASE Reset(c)
  <2>1. c.stmt \in DOMAIN stmts /\ Receives(c)
    BY <1>17 DEF Reset
  <2>2. [stmts[c.stmt] EXCEPT !.cursor_columns = FALSE, !.long_data = EmptyBuffers,
           !.pending_error = NoError] \in StatementData
    BY <2>1, StatementTypes, StatementUpdates
  <2>3. stmts' \in Tables
    BY <1>17, <2>1, <2>2, SetStatementTypes DEF Reset
  <2>4. outbox' \in Seq(Reply)
    BY <1>17, AnswerOKTypes, FlagAssumption DEF Reset
  <2> QED
    BY <1>2, <1>17, <2>1, <2>3, <2>4, TotalWithoutType, ServedTypes DEF Reset
<1>18. CASE ReportStatus(c)
  <2>1. outbox' \in Seq(Reply)
    BY <1>18, AnswerTypes, FlagAssumption DEF ReportStatus
  <2> QED
    BY <1>1, <1>2, <1>18, <2>1, ServedTypes DEF ReportStatus, server
<1>19. CASE ResetConnection(c)
  <2>1. outbox' \in Seq(Reply)
    BY <1>19, AnswerOKTypes, FlagAssumption DEF ResetConnection
  <2>2. [id \in {} |-> NewStatement(0)] \in [{} -> StatementData] /\ {} \in SUBSET StmtId
    OBVIOUS
  <2>3. [id \in {} |-> NewStatement(0)] \in Tables
    BY <2>2 DEF Tables
  <2> QED
    BY <1>1, <1>2, <1>19, <2>1, <2>3, FlagAssumption, ServedTypes
    DEF ResetConnection, StatusAfterReset, server
<1>20. CASE Quit(c) \/ BackendFails(c)
  BY <1>2, <1>3, <1>20, LeaveTypes DEF Quit, BackendFails
<1>21. CASE BadSequence(c)
  <2>1. outbox' \in Seq(Reply)
    BY <1>21, AnswerOKTypes DEF BadSequence
  <2> QED
    BY <1>2, <1>21, <2>1, LeaveTypes DEF BadSequence
<1> QED
  BY <1>4, <1>5, <1>6, <1>7, <1>8, <1>10, <1>11, <1>12, <1>13, <1>14, <1>15, <1>16,
     <1>17, <1>18, <1>19, <1>20, <1>21 DEF Serve

-----------------------------------------------------------------------------
(* The types hold in every reachable state; in particular no reply ever    *)
(* leaves MORE_RESULTS or a cursor flag in the session status.             *)
LEMMA InitTypes == Init => TypeOK
<1> SUFFICES ASSUME Init PROVE TypeOK
  OBVIOUS
<1>1. stmts \in [{} -> StatementData] /\ DOMAIN stmts = {}
  BY DEF Init
<1> QED
  BY <1>1, FlagAssumption DEF Init, TypeOK

LEMMA ClientSendsTypes ==
  ASSUME TypeOK, NEW c \in ClientCommand, ClientSends(c) PROVE TypeOK'
<1>1. inbox' \in Seq(ClientCommand) /\ awaiting' \in Seq(ClientCommand)
  BY DEF ClientSends, TypeOK
<1>2. client_stmts' \in SUBSET StmtId /\ client_cursors' \in SUBSET StmtId
  BY DEF ClientSends, TypeOK
<1>3. UNCHANGED <<conn, server, open_cursors, outbox, client_status, status_known>>
  BY DEF ClientSends
<1> QED
  BY <1>1, <1>2, <1>3 DEF TypeOK, server

LEMMA ClientReadsTypes ==
  ASSUME TypeOK, ClientReads PROVE TypeOK'
<1> DEFINE r == Head(outbox)
           c == Head(awaiting)
           hasStatus == r.kind \in {"OK", "EOF"}
<1>1. /\ r \in Reply /\ outbox' \in Seq(Reply)
      /\ c \in ClientCommand /\ awaiting' \in Seq(ClientCommand)
  BY DEF ClientReads, TypeOK
<1>2. r.status \in SUBSET StatusFlag /\ (r.kind = "PREPARE_OK" => r.stmt \in StmtId)
  BY <1>1 DEF Reply
<1>3. client_status' \in SUBSET DurableFlag
  BY <1>2 DEF ClientReads, TypeOK, SessionStatusFlags
<1>4. status_known' \in BOOLEAN
  BY DEF ClientReads, TypeOK
<1>5. client_stmts' \in SUBSET StmtId
  BY <1>2 DEF ClientReads, TypeOK
<1>6. client_cursors' \in SUBSET StmtId
  BY DEF ClientReads, TypeOK
<1>7. UNCHANGED <<conn, server, open_cursors, inbox>>
  BY DEF ClientReads
<1> QED
  BY <1>1, <1>3, <1>4, <1>5, <1>6, <1>7 DEF TypeOK, server

LEMMA StepKeepsTypes == TypeOK /\ [Next]_vars => TypeOK'
<1> SUFFICES ASSUME TypeOK, [Next]_vars PROVE TypeOK'
  OBVIOUS
<1>1. CASE \E c \in ClientCommand : ClientSends(c)
  BY <1>1, ClientSendsTypes
<1>2. CASE \E c \in ClientCommand : Serve(c)
  BY <1>2, ServeKeepsTypes
<1>3. CASE ClientReads
  BY <1>3, ClientReadsTypes
<1>4. CASE Disconnect \/ ReadTimeout \/ TransportFails
  <2>1. inbox \in Seq(ClientCommand) /\ outbox \in Seq(Reply)
    BY DEF TypeOK
  <2> QED
    BY <1>4, <2>1, LeaveTypes DEF Disconnect, ReadTimeout, TransportFails
<1>5. CASE UNCHANGED vars
  BY <1>5 DEF vars, server, client, TypeOK
<1> QED
  BY <1>1, <1>2, <1>3, <1>4, <1>5 DEF Next

THEOREM TypeInvariant == Spec => []TypeOK
BY InitTypes, StepKeepsTypes, PTL DEF Spec

-----------------------------------------------------------------------------
(* Long data.  What any step can do to the table and the running total:    *)
(* keep both, change a statement but not its buffers, drop the buffers of  *)
(* one statement, extend one, add a statement, remove one, or drop all.    *)

Kept == UNCHANGED <<stmts, total_long_data_size>>

DataKept(id, data) ==
  /\ id \in DOMAIN stmts /\ data \in StatementData /\ SetStatement(id, data)
  /\ data.long_data = stmts[id].long_data /\ data.params = stmts[id].params
  /\ UNCHANGED total_long_data_size

DataDropped(id, data) ==
  /\ id \in DOMAIN stmts /\ data \in StatementData /\ SetStatement(id, data)
  /\ data.long_data = EmptyBuffers
  /\ total_long_data_size' = TotalWithout(id)

DataAdded(id, data, p, n) ==
  /\ id \in DOMAIN stmts /\ data \in StatementData /\ SetStatement(id, data)
  /\ p \in Param /\ n \in Nat /\ LongDataFits(id, n) /\ HasParam(id, p)
  /\ data.long_data = [stmts[id].long_data EXCEPT ![p] = @ + n]
  /\ data.params = stmts[id].params
  /\ total_long_data_size' = total_long_data_size + n

Prepared(id, n) ==
  /\ id \in StmtId \ DOMAIN stmts /\ n \in Nat /\ ~TableFull
  /\ stmts' = [i \in DOMAIN stmts \cup {id} |-> IF i = id THEN NewStatement(n) ELSE stmts[i]]
  /\ UNCHANGED total_long_data_size

Removed(id) ==
  /\ stmts' = Without(stmts, id)
  /\ IF id \in DOMAIN stmts THEN total_long_data_size' = TotalWithout(id)
                            ELSE UNCHANGED total_long_data_size

Emptied ==
  stmts' = [id \in {} |-> NewStatement(0)] /\ total_long_data_size' = 0

TableEffect ==
  \/ Kept \/ Emptied
  \/ \E id, data : DataKept(id, data) \/ DataDropped(id, data)
  \/ \E id, data, p, n : DataAdded(id, data, p, n)
  \/ \E id, n : Prepared(id, n)
  \/ \E id : Removed(id)

LEMMA ServeEffect ==
  ASSUME TypeOK, NEW c \in ClientCommand, Serve(c)
  PROVE  TableEffect
<1>1. CASE \/ Query(c) \/ InitDb(c) \/ RefuseCommand(c) \/ RefusePrepare(c)
           \/ UnsupportedExecute(c) \/ FetchNoCursor(c) \/ IgnoreLongData(c)
           \/ ResetUnknown(c) \/ ReportStatus(c)
  <2>1. Kept
    BY <1>1 DEF Query, InitDb, RefuseCommand, RefusePrepare, UnsupportedExecute, FetchNoCursor,
                IgnoreLongData, ResetUnknown, ReportStatus, Refuse, server, Kept
  <2> QED
    BY <2>1 DEF TableEffect
<1>2. CASE Prepare(c)
  <2>1. CASE AnswerERR(c) /\ UNCHANGED stmts
    BY <1>2, <2>1 DEF Prepare, TableEffect, Kept
  <2>2. CASE \E id \in StmtId \ DOMAIN stmts, n \in ParamCount :
               /\ Answer(c, "PREPARE_OK", {}, id)
               /\ stmts' = [i \in DOMAIN stmts \cup {id} |->
                              IF i = id THEN NewStatement(n) ELSE stmts[i]]
    <3>1. PICK id \in StmtId \ DOMAIN stmts, n \in ParamCount :
               stmts' = [i \in DOMAIN stmts \cup {id} |->
                              IF i = id THEN NewStatement(n) ELSE stmts[i]]
      BY <2>2
    <3>2. Prepared(id, n)
      BY <1>2, <3>1, LimitAssumption DEF Prepare, Prepared
    <3> QED
      BY <3>2 DEF TableEffect
  <2> QED
    BY <1>2, <2>1, <2>2 DEF Prepare
<1>3. CASE ExecutePending(c)
  <2>1. c.stmt \in DOMAIN stmts /\ stmts[c.stmt] \in StatementData
    BY <1>3, StatementTypes DEF ExecutePending, ExecuteReaches
  <2>2. /\ AfterPending(stmts[c.stmt]) \in StatementData
        /\ AfterPending(stmts[c.stmt]).long_data = stmts[c.stmt].long_data
        /\ AfterPending(stmts[c.stmt]).params = stmts[c.stmt].params
    BY <2>1, StatementUpdates DEF AfterPending, StatementData
  <2>3. DataKept(c.stmt, AfterPending(stmts[c.stmt]))
    BY <1>3, <2>1, <2>2 DEF ExecutePending, DataKept
  <2> QED
    BY <2>3 DEF TableEffect
<1>4. ASSUME NEW cursor \in BOOLEAN, c.stmt \in DOMAIN stmts, Consumed(c.stmt, cursor)
      PROVE  TableEffect
  <2> DEFINE data == [stmts[c.stmt] EXCEPT !.cursor_columns = cursor, !.long_data = EmptyBuffers]
  <2>1. stmts[c.stmt] \in StatementData
    BY <1>4, StatementTypes
  <2>2. data \in StatementData
    BY <2>1, StatementUpdates
  <2>3. data.long_data = EmptyBuffers
    BY <2>1 DEF StatementData
  <2>4. DataDropped(c.stmt, data)
    BY <1>4, <2>2, <2>3 DEF Consumed, DataDropped
  <2> QED
    BY <2>4 DEF TableEffect
<1>5. CASE ExecuteBadParams(c) \/ ExecutePlain(c) \/ ExecuteCursor(c)
  <2>1. c.stmt \in DOMAIN stmts
    BY <1>5 DEF ExecuteBadParams, ExecutePlain, ExecuteCursor, ExecuteReaches
  <2>2. \E cursor \in BOOLEAN : Consumed(c.stmt, cursor)
    BY <1>5 DEF ExecuteBadParams, ExecutePlain, ExecuteCursor
  <2> QED
    BY <1>4, <2>1, <2>2
<1>6. CASE Fetch(c)
  <2> DEFINE data == [stmts[c.stmt] EXCEPT !.cursor_columns = FALSE]
  <2>1. c.stmt \in DOMAIN stmts /\ stmts[c.stmt] \in StatementData
    BY <1>6, StatementTypes DEF Fetch, ServerCursors
  <2>2. data \in StatementData /\ data.long_data = stmts[c.stmt].long_data
                               /\ data.params = stmts[c.stmt].params
    BY <2>1, StatementUpdates DEF StatementData
  <2>3. UNCHANGED stmts \/ SetStatement(c.stmt, data)
    BY <1>6 DEF Fetch
  <2>4. Kept \/ DataKept(c.stmt, data)
    BY <1>6, <2>1, <2>2, <2>3 DEF Fetch, Kept, DataKept
  <2> QED
    BY <2>4 DEF TableEffect
<1>7. CASE SendLongData(c)
  <2>1. /\ c.stmt \in DOMAIN stmts /\ stmts[c.stmt] \in StatementData
        /\ c.param \in Param /\ c.size \in Nat
    BY <1>7, StatementTypes, CommandFields DEF SendLongData
  <2>2. ASSUME NEW error \in PendingError,
               SetStatement(c.stmt, [stmts[c.stmt] EXCEPT !.pending_error = error]),
               UNCHANGED total_long_data_size
        PROVE  TableEffect
    <3> DEFINE data == [stmts[c.stmt] EXCEPT !.pending_error = error]
    <3>1. data \in StatementData /\ data.long_data = stmts[c.stmt].long_data
                                 /\ data.params = stmts[c.stmt].params
      BY <2>1, StatementUpdates DEF StatementData
    <3>2. DataKept(c.stmt, data)
      BY <2>1, <2>2, <3>1 DEF DataKept
    <3> QED
      BY <3>2 DEF TableEffect
  <2>3. CASE ~HasParam(c.stmt, c.param) \/ ~LongDataFits(c.stmt, c.size)
    <3>1. "ER_WRONG_ARGUMENTS" \in PendingError /\ "ER_NET_PACKET_TOO_LARGE" \in PendingError
      BY DEF PendingError
    <3> QED
      BY <1>7, <2>2, <2>3, <3>1 DEF SendLongData
  <2>4. CASE HasParam(c.stmt, c.param) /\ LongDataFits(c.stmt, c.size)
    <3> DEFINE data == [stmts[c.stmt] EXCEPT !.long_data[c.param] = @ + c.size]
    <3>1. /\ data \in StatementData
          /\ data.long_data = [stmts[c.stmt].long_data EXCEPT ![c.param] = @ + c.size]
      BY <2>1, StatementAppends
    <3>2. data.params = stmts[c.stmt].params
      BY <2>1 DEF StatementData
    <3>3. SetStatement(c.stmt, data) /\ total_long_data_size' = total_long_data_size + c.size
      BY <1>7, <2>4 DEF SendLongData
    <3> HIDE DEF data
    <3>4. DataAdded(c.stmt, data, c.param, c.size)
      BY <2>1, <2>4, <3>1, <3>2, <3>3 DEF DataAdded
    <3> QED
      BY <3>4 DEF TableEffect
  <2> QED
    BY <2>3, <2>4
<1>8. CASE Close(c)
  <2>1. Removed(c.stmt)
    BY <1>8 DEF Close, TableWithout, Removed, Without
  <2> QED
    BY <2>1 DEF TableEffect
<1>9. CASE Reset(c)
  <2> DEFINE data == [stmts[c.stmt] EXCEPT !.cursor_columns = FALSE,
                        !.long_data = EmptyBuffers, !.pending_error = NoError]
  <2>1. c.stmt \in DOMAIN stmts /\ stmts[c.stmt] \in StatementData
    BY <1>9, StatementTypes DEF Reset
  <2>2. data \in StatementData /\ data.long_data = EmptyBuffers
    BY <2>1, StatementUpdates DEF StatementData
  <2>3. DataDropped(c.stmt, data)
    BY <1>9, <2>1, <2>2 DEF Reset, DataDropped
  <2> QED
    BY <2>3 DEF TableEffect
<1>10. CASE ResetConnection(c)
  BY <1>10 DEF ResetConnection, server, TableEffect, Kept, Emptied
<1>11. CASE Quit(c) \/ BadSequence(c) \/ BackendFails(c)
  BY <1>11 DEF Quit, BadSequence, BackendFails, Leave, TableEffect, Emptied
<1> QED
  BY <1>1, <1>2, <1>3, <1>5, <1>6, <1>7, <1>8, <1>9, <1>10, <1>11 DEF Serve

LEMMA StepEffect == TypeOK /\ [Next]_vars => TableEffect
<1> SUFFICES ASSUME TypeOK, [Next]_vars PROVE TableEffect
  OBVIOUS
<1>1. CASE \E c \in ClientCommand : Serve(c)
  BY <1>1, ServeEffect
<1>2. CASE \/ \E c \in ClientCommand : ClientSends(c)
           \/ ClientReads \/ UNCHANGED vars
  BY <1>2 DEF ClientSends, ClientReads, vars, server, TableEffect, Kept
<1>3. CASE Disconnect \/ ReadTimeout \/ TransportFails
  BY <1>3 DEF Disconnect, ReadTimeout, TransportFails, Leave, TableEffect, Emptied
<1> QED
  BY <1>1, <1>2, <1>3 DEF Next

(* The inductive invariant for the table: the four parts need one another  *)
(* only through TypeOK, and are kept together because one case split on    *)
(* the effect of the step serves them all.                                 *)
TableInv == LongDataAccounted /\ LongDataBounded /\ LongDataAddressed /\ StatementsBounded

(* Before a statement is replaced or removed, the running total is what it *)
(* holds and what the others hold; after, the bytes of its new buffers and *)
(* the same rest.                                                          *)
LEMMA TotalSplits ==
  ASSUME TypeOK, LongDataAccounted, NEW id \in DOMAIN stmts
  PROVE  /\ Cardinality(BytesOf(Without(stmts, id))) \in Nat
         /\ Retained(stmts[id].long_data) \in Nat
         /\ total_long_data_size =
              Retained(stmts[id].long_data) + Cardinality(BytesOf(Without(stmts, id)))
         /\ TotalWithout(id) = Cardinality(BytesOf(Without(stmts, id)))
<1>1. stmts \in Tables
  BY TableType
<1>2. /\ Without(stmts, id) \in Tables
      /\ Cardinality(BytesOf(stmts)) =
           Retained(stmts[id].long_data) + Cardinality(BytesOf(Without(stmts, id)))
  BY <1>1, TableBytesSplit
<1>3. Cardinality(BytesOf(Without(stmts, id))) \in Nat
  BY <1>2, TableBytesFinite
<1>4. Retained(stmts[id].long_data) \in Nat
  BY StatementTypes
<1>5. total_long_data_size = Cardinality(BytesOf(stmts))
  BY DEF LongDataAccounted, ConnectionBytes, BytesOf
<1> QED
  BY <1>2, <1>3, <1>4, <1>5 DEF TotalWithout, SaturatingSub

LEMMA ReplacementCounts ==
  ASSUME TypeOK, NEW id \in DOMAIN stmts, NEW data \in StatementData, SetStatement(id, data)
  PROVE  Cardinality(ConnectionBytes') =
           Retained(data.long_data) + Cardinality(BytesOf(Without(stmts, id)))
<1>1. /\ stmts' \in Tables /\ id \in DOMAIN stmts' /\ stmts'[id] = data
      /\ Without(stmts', id) = Without(stmts, id)
  BY SetStatementTypes
<1>2. Cardinality(BytesOf(stmts')) =
        Retained(stmts'[id].long_data) + Cardinality(BytesOf(Without(stmts', id)))
  BY <1>1, TableBytesSplit
<1>3. ConnectionBytes' = BytesOf(stmts')
  BY DEF ConnectionBytes, BytesOf
<1> QED
  BY <1>1, <1>2, <1>3

LEMMA TableFinite == TypeOK => IsFiniteSet(DOMAIN stmts) /\ Cardinality(DOMAIN stmts) \in Nat
BY CommandAssumption, FS_Subset, FS_CardinalityType DEF TypeOK

LEMMA EffectKeepsTableInv ==
  ASSUME TypeOK, TypeOK', TableInv, TableEffect
  PROVE  TableInv'
<1> USE DEF TableInv
<1>1. CASE Kept
  BY <1>1 DEF Kept, LongDataAccounted, ConnectionBytes, LongDataBounded, LongDataAddressed,
              StatementsBounded
<1>2. CASE Emptied
  <2>1. DOMAIN stmts' = {} /\ total_long_data_size' = 0
    BY <1>2 DEF Emptied
  <2>2. ConnectionBytes' = {}
    BY <2>1 DEF ConnectionBytes
  <2> QED
    BY <2>1, <2>2, FS_EmptySet, LimitAssumption
    DEF LongDataAccounted, LongDataBounded, LongDataAddressed, StatementsBounded
<1>3. ASSUME NEW id \in DOMAIN stmts, NEW data \in StatementData, SetStatement(id, data),
             total_long_data_size' =
               Retained(data.long_data) + Cardinality(BytesOf(Without(stmts, id))),
             total_long_data_size' <= MaxConnectionLongDataSize,
             Retained(data.long_data) <= MaxLongDataSize,
             \A p \in Param : data.long_data[p] > 0 => p < data.params
      PROVE  TableInv'
  <2>1. /\ DOMAIN stmts' = DOMAIN stmts /\ stmts'[id] = data
        /\ \A i \in DOMAIN stmts \ {id} : stmts'[i] = stmts[i]
    BY <1>3, SetStatementTypes
  <2>2. LongDataAccounted'
    BY <1>3, ReplacementCounts DEF LongDataAccounted
  <2>3. LongDataBounded'
    BY <1>3, <2>1 DEF LongDataBounded
  <2>4. LongDataAddressed'
    BY <1>3, <2>1 DEF LongDataAddressed
  <2>5. StatementsBounded'
    BY <2>1 DEF StatementsBounded
  <2> QED
    BY <2>2, <2>3, <2>4, <2>5
<1>4. ASSUME NEW id, NEW data, DataKept(id, data) PROVE TableInv'
  <2>1. id \in DOMAIN stmts /\ data \in StatementData /\ SetStatement(id, data)
    BY <1>4 DEF DataKept
  <2>2. /\ total_long_data_size' =
             Retained(data.long_data) + Cardinality(BytesOf(Without(stmts, id)))
        /\ total_long_data_size' <= MaxConnectionLongDataSize
    BY <1>4, <2>1, TotalSplits DEF DataKept, LongDataBounded
  <2>3. Retained(data.long_data) <= MaxLongDataSize
    BY <1>4, <2>1 DEF DataKept, LongDataBounded
  <2>4. \A p \in Param : data.long_data[p] > 0 => p < data.params
    BY <1>4, <2>1 DEF DataKept, LongDataAddressed
  <2> QED
    BY <1>3, <2>1, <2>2, <2>3, <2>4
<1>5. ASSUME NEW id, NEW data, DataDropped(id, data) PROVE TableInv'
  <2>1. id \in DOMAIN stmts /\ data \in StatementData /\ SetStatement(id, data)
    BY <1>5 DEF DataDropped
  <2>2. Retained(data.long_data) = 0
    BY <1>5, EmptyBuffersHoldNothing DEF DataDropped
  <2>3. /\ total_long_data_size' =
             Retained(data.long_data) + Cardinality(BytesOf(Without(stmts, id)))
        /\ total_long_data_size' <= MaxConnectionLongDataSize
    BY SMTT(60), <1>5, <2>1, <2>2, TotalSplits, LimitAssumption DEF DataDropped, LongDataBounded, TypeOK
  <2>4. Retained(data.long_data) <= MaxLongDataSize
    BY <2>2, LimitAssumption
  <2>5. \A p \in Param : data.long_data[p] > 0 => p < data.params
    BY <1>5 DEF DataDropped, EmptyBuffers
  <2> QED
    BY <1>3, <2>1, <2>3, <2>4, <2>5
<1>6. ASSUME NEW id, NEW data, NEW p, NEW n, DataAdded(id, data, p, n) PROVE TableInv'
  <2>1. /\ id \in DOMAIN stmts /\ data \in StatementData /\ SetStatement(id, data)
        /\ p \in Param /\ n \in Nat
    BY <1>6 DEF DataAdded
  <2>2. stmts[id].long_data \in Buffers
    BY <2>1, StatementTypes
  <2>3. Retained(data.long_data) = Retained(stmts[id].long_data) + n
    BY <1>6, <2>1, <2>2, AppendAddsBytes DEF DataAdded
  <2>4. total_long_data_size' =
          Retained(data.long_data) + Cardinality(BytesOf(Without(stmts, id)))
    BY <1>6, <2>1, <2>3, TotalSplits DEF DataAdded
  <2>5. /\ total_long_data_size' <= MaxConnectionLongDataSize
        /\ Retained(data.long_data) <= MaxLongDataSize
    BY <1>6, <2>3 DEF DataAdded, LongDataFits
  <2>6. \A q \in Param : data.long_data[q] > 0 => q < data.params
    <3>1. p < data.params
      BY <1>6 DEF DataAdded, HasParam
    <3>2. \A q \in Param \ {p} : data.long_data[q] = stmts[id].long_data[q]
      BY <1>6, <2>2 DEF DataAdded, Buffers
    <3>3. data.params = stmts[id].params
      BY <1>6 DEF DataAdded
    <3> QED
      BY <2>1, <3>1, <3>2, <3>3 DEF LongDataAddressed
  <2> QED
    BY <1>3, <2>1, <2>4, <2>5, <2>6
<1>7. ASSUME NEW id, NEW n, Prepared(id, n) PROVE TableInv'
  <2>1. /\ id \in StmtId \ DOMAIN stmts /\ n \in Nat
        /\ stmts' = [i \in DOMAIN stmts \cup {id} |->
                       IF i = id THEN NewStatement(n) ELSE stmts[i]]
        /\ total_long_data_size' = total_long_data_size
    BY <1>7 DEF Prepared
  <2>2. /\ DOMAIN stmts' = DOMAIN stmts \cup {id}
        /\ stmts'[id].long_data = EmptyBuffers
        /\ \A i \in DOMAIN stmts : stmts'[i] = stmts[i]
    BY <2>1 DEF NewStatement
  <2>3. LongDataAccounted'
    <3>1. stmts' \in Tables /\ stmts \in Tables
      BY DEF TypeOK, Tables
    <3>2. Without(stmts', id) = stmts
      BY <2>1, <2>2, <3>1 DEF Without, Tables
    <3>3. Cardinality(BytesOf(stmts')) =
            Retained(stmts'[id].long_data) + Cardinality(BytesOf(Without(stmts', id)))
      BY <2>2, <3>1, TableBytesSplit
    <3>4. Cardinality(BytesOf(stmts)) \in Nat
      BY <3>1, TableBytesFinite
    <3>5. Cardinality(BytesOf(stmts')) = Cardinality(BytesOf(stmts))
      BY <2>2, <3>2, <3>3, <3>4, EmptyBuffersHoldNothing
    <3>6. ConnectionBytes = BytesOf(stmts) /\ ConnectionBytes' = BytesOf(stmts')
      BY DEF ConnectionBytes, BytesOf
    <3> QED
      BY <2>1, <3>5, <3>6 DEF LongDataAccounted
  <2>4. LongDataBounded'
    BY <2>1, <2>2, EmptyBuffersHoldNothing, LimitAssumption DEF LongDataBounded
  <2>5. LongDataAddressed'
    BY <2>2 DEF LongDataAddressed, EmptyBuffers
  <2>6. StatementsBounded'
    <3>1. Cardinality(DOMAIN stmts \cup {id}) = Cardinality(DOMAIN stmts) + 1
      BY <2>1, TableFinite, FS_AddElement
    <3> QED
      BY <1>7, <2>2, <3>1, TableFinite, LimitAssumption
      DEF Prepared, TableFull, StatementsBounded
  <2> QED
    BY <2>3, <2>4, <2>5, <2>6
<1>8. ASSUME NEW id, Removed(id) PROVE TableInv'
  <2>1. /\ DOMAIN stmts' = DOMAIN stmts \ {id}
        /\ \A i \in DOMAIN stmts' : stmts'[i] = stmts[i]
    BY <1>8 DEF Removed, Without
  <2>2. ConnectionBytes' = BytesOf(stmts') /\ ConnectionBytes = BytesOf(stmts)
    BY DEF ConnectionBytes, BytesOf
  <2>3. CASE id \in DOMAIN stmts
    <3>1. total_long_data_size' = Cardinality(BytesOf(Without(stmts, id)))
      BY <1>8, <2>3, TotalSplits DEF Removed
    <3>2. total_long_data_size' <= total_long_data_size
      BY <2>3, <3>1, TotalSplits
    <3>3. LongDataAccounted'
      BY <1>8, <2>2, <3>1 DEF Removed, LongDataAccounted
    <3>4. LongDataBounded'
      BY <2>1, <3>2, LimitAssumption DEF LongDataBounded, TypeOK
    <3>5. LongDataAddressed'
      BY <2>1 DEF LongDataAddressed
    <3>6. StatementsBounded'
      <4>1. Cardinality(DOMAIN stmts \ {id}) = Cardinality(DOMAIN stmts) - 1
        BY <2>3, TableFinite, FS_RemoveElement
      <4> QED
        BY <2>1, <4>1, TableFinite, LimitAssumption DEF StatementsBounded
    <3> QED
      BY <3>3, <3>4, <3>5, <3>6
  <2>4. CASE id \notin DOMAIN stmts
    <3>1. stmts \in [DOMAIN stmts -> StatementData]
      BY DEF TypeOK
    <3>2. stmts' = stmts /\ total_long_data_size' = total_long_data_size
      BY <1>8, <2>4, <3>1 DEF Removed, Without
    <3> QED
      BY <1>1, <3>2 DEF Kept
  <2> QED
    BY <2>3, <2>4
<1> QED
  BY <1>1, <1>2, <1>4, <1>5, <1>6, <1>7, <1>8 DEF TableEffect

LEMMA InitTableInv == Init => TableInv
<1> SUFFICES ASSUME Init PROVE TableInv
  OBVIOUS
<1>1. DOMAIN stmts = {} /\ total_long_data_size = 0
  BY DEF Init
<1>2. ConnectionBytes = {}
  BY <1>1 DEF ConnectionBytes
<1> QED
  BY <1>1, <1>2, FS_EmptySet, LimitAssumption
  DEF TableInv, LongDataAccounted, LongDataBounded, LongDataAddressed, StatementsBounded

LEMMA TableInvariant == Spec => []TableInv
<1>1. TypeOK /\ TypeOK' /\ TableInv /\ [Next]_vars => TableInv'
  BY StepEffect, EffectKeepsTableInv
<1> QED
  BY <1>1, InitTableInv, TypeInvariant, PTL DEF Spec

(* The running total is the number of bytes really held.                   *)
THEOREM LongDataIsAccounted == Spec => []LongDataAccounted
<1>1. TableInv => LongDataAccounted
  BY DEF TableInv
<1> QED
  BY <1>1, TableInvariant, PTL

(* Neither a statement nor the connection exceeds its long data limit.     *)
THEOREM LongDataIsBounded == Spec => []LongDataBounded
<1>1. TableInv => LongDataBounded
  BY DEF TableInv
<1> QED
  BY <1>1, TableInvariant, PTL

(* Long data is held only for parameters the statement has.                *)
THEOREM LongDataIsAddressed == Spec => []LongDataAddressed
<1>1. TableInv => LongDataAddressed
  BY DEF TableInv
<1> QED
  BY <1>1, TableInvariant, PTL

(* The table never outgrows max_prepared_statements.                       *)
THEOREM StatementsAreBounded == Spec => []StatementsBounded
<1>1. TableInv => StatementsBounded
  BY DEF TableInv
<1> QED
  BY <1>1, TableInvariant, PTL

-----------------------------------------------------------------------------
(* Cursors.  Replacing a statement opens or closes its server-side cursor; *)
(* each handler has told the backend the same.                             *)
LEMMA SetStatementCursors ==
  ASSUME TypeOK, NEW id \in DOMAIN stmts, NEW data \in StatementData, SetStatement(id, data)
  PROVE  ServerCursors' = IF data.cursor_columns THEN ServerCursors \cup {id}
                                                 ELSE ServerCursors \ {id}
BY SetStatementTypes DEF ServerCursors

LEMMA StepKeepsCursors == TypeOK /\ CursorsAgree /\ [Next]_vars => CursorsAgree'
<1> SUFFICES ASSUME TypeOK, CursorsAgree, [Next]_vars PROVE CursorsAgree'
  OBVIOUS
<1> USE DEF CursorsAgree
<1>1. CASE UNCHANGED <<stmts, open_cursors>>
  BY <1>1 DEF ServerCursors
<1>2. ASSUME DOMAIN stmts' = {}, open_cursors' = {} PROVE CursorsAgree'
  BY <1>2 DEF ServerCursors
<1>3. CASE Disconnect \/ ReadTimeout \/ TransportFails
  BY <1>2, <1>3 DEF Disconnect, ReadTimeout, TransportFails, Leave
<1>4. CASE \/ \E c \in ClientCommand : ClientSends(c)
           \/ ClientReads \/ UNCHANGED vars
  BY <1>1, <1>4 DEF ClientSends, ClientReads, vars, server
<1>5. ASSUME NEW c \in ClientCommand, Serve(c) PROVE CursorsAgree'
  <2>1. CASE \/ Query(c) \/ InitDb(c) \/ RefuseCommand(c) \/ RefusePrepare(c)
             \/ UnsupportedExecute(c) \/ FetchNoCursor(c) \/ IgnoreLongData(c)
             \/ ResetUnknown(c) \/ ReportStatus(c)
    BY <1>1, <2>1 DEF Query, InitDb, RefuseCommand, RefusePrepare, UnsupportedExecute,
                      FetchNoCursor, IgnoreLongData, ResetUnknown, ReportStatus, Refuse, server
  <2>2. CASE Prepare(c)
    <3>1. open_cursors' = open_cursors
      BY <2>2 DEF Prepare
    <3>2. CASE UNCHANGED stmts
      BY <1>1, <3>1, <3>2
    <3>3. CASE \E id \in StmtId \ DOMAIN stmts, n \in ParamCount :
                 stmts' = [i \in DOMAIN stmts \cup {id} |->
                             IF i = id THEN NewStatement(n) ELSE stmts[i]]
      <4>1. PICK id \in StmtId \ DOMAIN stmts, n \in ParamCount :
                 stmts' = [i \in DOMAIN stmts \cup {id} |->
                             IF i = id THEN NewStatement(n) ELSE stmts[i]]
        BY <3>3
      <4>2. /\ DOMAIN stmts' = DOMAIN stmts \cup {id}
            /\ ~stmts'[id].cursor_columns
            /\ \A i \in DOMAIN stmts : stmts'[i] = stmts[i]
        BY <4>1 DEF NewStatement
      <4> QED
        BY <3>1, <4>2 DEF ServerCursors
    <3> QED
      BY <2>2, <3>2, <3>3 DEF Prepare
  <2>3. CASE ExecutePending(c)
    <3>1. /\ c.stmt \in DOMAIN stmts /\ stmts[c.stmt] \in StatementData
          /\ AfterPending(stmts[c.stmt]) \in StatementData
      BY <2>3, StatementTypes, StatementUpdates DEF ExecutePending, ExecuteReaches
    <3>2. AfterPending(stmts[c.stmt]).cursor_columns = FALSE
      BY <3>1 DEF AfterPending, StatementData
    <3> QED
      BY SMTT(60), <2>3, <3>1, <3>2, SetStatementCursors DEF ExecutePending
  <2>4. ASSUME NEW cursor \in BOOLEAN, c.stmt \in DOMAIN stmts, Consumed(c.stmt, cursor),
               open_cursors' = CursorsAfter(c.stmt, cursor)
        PROVE  CursorsAgree'
    <3> DEFINE data == [stmts[c.stmt] EXCEPT !.cursor_columns = cursor,
                                              !.long_data = EmptyBuffers]
    <3>1. data \in StatementData /\ data.cursor_columns = cursor
      BY <2>4, StatementTypes, StatementUpdates DEF StatementData
    <3>2. SetStatement(c.stmt, data)
      BY <2>4 DEF Consumed
    <3> HIDE DEF data
    <3> QED
      BY <2>4, <3>1, <3>2, SetStatementCursors DEF CursorsAfter
  <2>5. CASE ExecuteBadParams(c) \/ ExecutePlain(c)
    BY <2>4, <2>5 DEF ExecuteBadParams, ExecutePlain, ExecuteReaches, CursorsAfter
  <2>6. CASE ExecuteCursor(c)
    BY <2>4, <2>6 DEF ExecuteCursor, ExecuteReaches
  <2>7. CASE Fetch(c)
    <3> DEFINE data == [stmts[c.stmt] EXCEPT !.cursor_columns = FALSE]
    <3>1. c.stmt \in DOMAIN stmts
      BY <2>7 DEF Fetch, ServerCursors
    <3>2. data \in StatementData /\ data.cursor_columns = FALSE
      BY <3>1, StatementTypes, StatementUpdates DEF StatementData
    <3>3. \/ UNCHANGED <<stmts, open_cursors>>
          \/ SetStatement(c.stmt, data) /\ open_cursors' = open_cursors \ {c.stmt}
      BY <2>7 DEF Fetch
    <3> HIDE DEF data
    <3> QED
      BY <1>1, <3>1, <3>2, <3>3, SetStatementCursors
  <2>8. CASE SendLongData(c)
    <3>1. /\ c.stmt \in DOMAIN stmts /\ stmts[c.stmt] \in StatementData
          /\ c.param \in Param /\ c.size \in Nat
      BY <2>8, StatementTypes, CommandFields DEF SendLongData
    <3>2. \E data \in StatementData :
            SetStatement(c.stmt, data) /\ data.cursor_columns = stmts[c.stmt].cursor_columns
      <4>1. "ER_WRONG_ARGUMENTS" \in PendingError /\ "ER_NET_PACKET_TOO_LARGE" \in PendingError
        BY DEF PendingError
      <4>2. \A error \in PendingError :
              /\ [stmts[c.stmt] EXCEPT !.pending_error = error] \in StatementData
              /\ [stmts[c.stmt] EXCEPT !.pending_error = error].cursor_columns
                   = stmts[c.stmt].cursor_columns
        BY <3>1, StatementUpdates DEF StatementData
      <4>3. /\ [stmts[c.stmt] EXCEPT !.long_data[c.param] = @ + c.size] \in StatementData
            /\ [stmts[c.stmt] EXCEPT !.long_data[c.param] = @ + c.size].cursor_columns
                 = stmts[c.stmt].cursor_columns
        BY <3>1, StatementAppends DEF StatementData
      <4> QED
        BY <2>8, <4>1, <4>2, <4>3 DEF SendLongData
    <3>3. open_cursors' = open_cursors
      BY <2>8 DEF SendLongData
    <3> QED
      BY <3>1, <3>2, <3>3, SetStatementCursors DEF ServerCursors
  <2>9. CASE Close(c)
    BY <2>9 DEF Close, TableWithout, ServerCursors
  <2>10. CASE Reset(c)
    <3> DEFINE data == [stmts[c.stmt] EXCEPT !.cursor_columns = FALSE,
                          !.long_data = EmptyBuffers, !.pending_error = NoError]
    <3>1. c.stmt \in DOMAIN stmts
      BY <2>10 DEF Reset
    <3>2. data \in StatementData /\ data.cursor_columns = FALSE
      BY <3>1, StatementTypes, StatementUpdates DEF StatementData
    <3>3. SetStatement(c.stmt, data) /\ open_cursors' = open_cursors \ {c.stmt}
      BY <2>10 DEF Reset
    <3> HIDE DEF data
    <3> QED
      BY <3>1, <3>2, <3>3, SetStatementCursors
  <2>11. CASE ResetConnection(c)
    <3>1. open_cursors \ DOMAIN stmts = {}
      BY DEF ServerCursors
    <3> QED
      BY <1>1, <1>2, <2>11, <3>1 DEF ResetConnection, server
  <2>12. CASE Quit(c) \/ BadSequence(c) \/ BackendFails(c)
    BY <1>2, <2>12 DEF Quit, BadSequence, BackendFails, Leave
  <2> QED
    BY <1>5, <2>1, <2>2, <2>3, <2>5, <2>6, <2>7, <2>8, <2>9, <2>10, <2>11, <2>12 DEF Serve
<1> QED
  BY <1>3, <1>4, <1>5 DEF Next

(* The backend's open cursors are exactly those the server would serve.    *)
THEOREM CursorsAlwaysAgree == Spec => []CursorsAgree
<1>1. Init => CursorsAgree
  BY DEF Init, CursorsAgree, ServerCursors
<1> QED
  BY <1>1, StepKeepsCursors, TypeInvariant, PTL DEF Spec

-----------------------------------------------------------------------------
(* Deferred errors.  A step that touches a statement with a pending error  *)
(* keeps the error and the data, unless it serves that statement's reset.  *)
ErrorKept ==
  \A id \in DOMAIN stmts \cap DOMAIN stmts' :
    stmts[id].pending_error # NoError =>
      \/ /\ stmts'[id].pending_error = stmts[id].pending_error
         /\ stmts'[id].long_data = stmts[id].long_data
      \/ Head(inbox) = [op |-> "reset", stmt |-> id]

LEMMA StepKeepsErrors == TypeOK /\ [Next]_vars => ErrorKept
<1> SUFFICES ASSUME TypeOK, [Next]_vars PROVE ErrorKept
  OBVIOUS
<1>1. CASE UNCHANGED stmts
  BY <1>1 DEF ErrorKept
<1>2. ASSUME DOMAIN stmts' = {} PROVE ErrorKept
  BY <1>2 DEF ErrorKept
<1>3. ASSUME NEW id \in DOMAIN stmts, NEW data \in StatementData, SetStatement(id, data),
             stmts[id].pending_error = NoError
      PROVE  ErrorKept
  BY <1>3, SetStatementTypes DEF ErrorKept
<1>4. CASE \/ \E c \in ClientCommand : ClientSends(c)
           \/ ClientReads \/ UNCHANGED vars
  BY <1>1, <1>4 DEF ClientSends, ClientReads, vars, server
<1>5. CASE Disconnect \/ ReadTimeout \/ TransportFails
  BY <1>2, <1>5 DEF Disconnect, ReadTimeout, TransportFails, Leave
<1>6. ASSUME NEW c \in ClientCommand, Serve(c) PROVE ErrorKept
  <2>1. CASE \/ Query(c) \/ InitDb(c) \/ RefuseCommand(c) \/ RefusePrepare(c)
             \/ UnsupportedExecute(c) \/ FetchNoCursor(c) \/ IgnoreLongData(c)
             \/ ResetUnknown(c) \/ ReportStatus(c)
    BY <1>1, <2>1 DEF Query, InitDb, RefuseCommand, RefusePrepare, UnsupportedExecute,
                      FetchNoCursor, IgnoreLongData, ResetUnknown, ReportStatus, Refuse, server
  <2>2. CASE Prepare(c)
    BY <2>2 DEF Prepare, ErrorKept
  <2>3. CASE ExecutePending(c)
    <3>1. /\ c.stmt \in DOMAIN stmts /\ stmts[c.stmt] \in StatementData
          /\ AfterPending(stmts[c.stmt]) \in StatementData
      BY <2>3, StatementTypes, StatementUpdates DEF ExecutePending, ExecuteReaches
    <3>2. /\ AfterPending(stmts[c.stmt]).pending_error = stmts[c.stmt].pending_error
          /\ AfterPending(stmts[c.stmt]).long_data = stmts[c.stmt].long_data
      BY <3>1 DEF AfterPending, StatementData
    <3>3. SetStatement(c.stmt, AfterPending(stmts[c.stmt]))
      BY SMTT(60), <2>3 DEF ExecutePending
    <3> QED
      BY <3>1, <3>2, <3>3, SetStatementTypes DEF ErrorKept
  <2>4. CASE ExecuteBadParams(c) \/ ExecutePlain(c) \/ ExecuteCursor(c)
    <3>1. /\ c.stmt \in DOMAIN stmts /\ stmts[c.stmt].pending_error = NoError
          /\ \E cursor \in BOOLEAN : Consumed(c.stmt, cursor)
      BY <2>4 DEF ExecuteBadParams, ExecutePlain, ExecuteCursor, ExecuteReaches
    <3> QED
      BY <1>3, <3>1, StatementTypes, StatementUpdates DEF Consumed
  <2>5. CASE Fetch(c)
    <3> DEFINE data == [stmts[c.stmt] EXCEPT !.cursor_columns = FALSE]
    <3>1. c.stmt \in DOMAIN stmts
      BY <2>5 DEF Fetch, ServerCursors
    <3>2. /\ data \in StatementData
          /\ data.pending_error = stmts[c.stmt].pending_error
          /\ data.long_data = stmts[c.stmt].long_data
      BY <3>1, StatementTypes, StatementUpdates DEF StatementData
    <3>3. UNCHANGED stmts \/ SetStatement(c.stmt, data)
      BY <2>5 DEF Fetch
    <3> HIDE DEF data
    <3> QED
      BY <1>1, <3>1, <3>2, <3>3, SetStatementTypes DEF ErrorKept
  <2>6. CASE SendLongData(c)
    <3>1. /\ c.stmt \in DOMAIN stmts /\ stmts[c.stmt] \in StatementData
          /\ stmts[c.stmt].pending_error = NoError /\ c.param \in Param /\ c.size \in Nat
      BY <2>6, StatementTypes, CommandFields DEF SendLongData
    <3>2. \E data \in StatementData : SetStatement(c.stmt, data)
      <4>1. "ER_WRONG_ARGUMENTS" \in PendingError /\ "ER_NET_PACKET_TOO_LARGE" \in PendingError
        BY DEF PendingError
      <4> QED
        BY <2>6, <3>1, <4>1, StatementUpdates, StatementAppends DEF SendLongData
    <3> QED
      BY <1>3, <3>1, <3>2
  <2>7. CASE Close(c)
    BY <2>7 DEF Close, TableWithout, ErrorKept
  <2>8. CASE Reset(c)
    <3>1. c = [op |-> "reset", stmt |-> c.stmt] /\ c = Head(inbox) /\ c.stmt \in DOMAIN stmts
      BY <2>8, CommandFields DEF Reset, Receives, Command
    <3>2. \A i \in DOMAIN stmts \ {c.stmt} : stmts'[i] = stmts[i]
      BY <2>8, <3>1, StatementTypes, StatementUpdates, SetStatementTypes DEF Reset
    <3> QED
      BY <3>1, <3>2 DEF ErrorKept
  <2>9. CASE ResetConnection(c)
    BY <1>1, <1>2, <2>9 DEF ResetConnection, server
  <2>10. CASE Quit(c) \/ BadSequence(c) \/ BackendFails(c)
    BY <1>2, <2>10 DEF Quit, BadSequence, BackendFails, Leave
  <2> QED
    BY <1>6, <2>1, <2>2, <2>3, <2>4, <2>5, <2>6, <2>7, <2>8, <2>9, <2>10 DEF Serve
<1> QED
  BY <1>4, <1>5, <1>6 DEF Next

(* A pending error and its data leave a statement only by its reset.       *)
THEOREM PendingErrorsStick == Spec => PendingErrorSticks
<1>1. TypeOK /\ [Next]_vars => [ErrorKept]_vars
  BY StepKeepsErrors
<1>2. Spec => [][ErrorKept]_vars
  BY <1>1, TypeInvariant, PTL DEF Spec
<1> QED
  BY <1>2 DEF PendingErrorSticks, ErrorKept

-----------------------------------------------------------------------------
(* The client's views.  What a reply will do to them when it is read.      *)

HasStatus(r) == r.kind \in {"OK", "EOF"}
Allots(r, id) == r.kind = "PREPARE_OK" /\ r.stmt = id
Resets(r) == r.to.op = "reset_connection" /\ r.kind = "OK"

OpensCursor(r, id) ==
  r.to.op = "execute" /\ r.to.stmt = id /\ "CURSOR_EXISTS" \in r.status
EndsCursor(r, id) ==
  \/ Resets(r)
  \/ r.to.op = "execute" /\ r.to.stmt = id /\ "CURSOR_EXISTS" \notin r.status
  \/ r.to.op = "reset" /\ r.to.stmt = id
  \/ r.to.op = "fetch" /\ r.to.stmt = id /\ (r.kind = "ERR" \/ "LAST_ROW_SENT" \in r.status)

(* The client will be able to use id when it has read the outbox; the      *)
(* client has closed id and the server does not know yet.                  *)
WillUse(id) ==
  \/ /\ id \in client_stmts
     /\ \A j \in DOMAIN outbox : ~Resets(outbox[j])
  \/ \E i \in DOMAIN outbox :
       /\ Allots(outbox[i], id)
       /\ \A j \in DOMAIN outbox : j > i => ~Resets(outbox[j])

Closes(c, id) == c.op = "close" /\ c.stmt = id
Closing(id) == \E k \in DOMAIN inbox : Closes(inbox[k], id)

(* When the client reads reply i it can use id.                            *)
UsesAt(i, id) ==
  \/ /\ id \in client_stmts
     /\ \A j \in DOMAIN outbox : j < i => ~Resets(outbox[j])
  \/ \E h \in DOMAIN outbox :
       /\ h < i /\ Allots(outbox[h], id)
       /\ \A j \in DOMAIN outbox : h < j /\ j < i => ~Resets(outbox[j])

-----------------------------------------------------------------------------
(* The session status the last status in flight told, if no ERR follows it.*)
StatusTold ==
  /\ \A i \in DOMAIN outbox :
       HasStatus(outbox[i]) /\ (\A j \in DOMAIN outbox : j > i => outbox[j].kind = "PREPARE_OK")
         => SessionStatusFlags(outbox[i].status) = status_flags
  /\ status_known /\ (\A j \in DOMAIN outbox : outbox[j].kind = "PREPARE_OK")
       => client_status = status_flags

(* The statements the client will use are those the server has, but for    *)
(* those it is about to close.                                             *)
StatementsTold ==
  \A id \in StmtId : WillUse(id) <=> id \in DOMAIN stmts /\ ~Closing(id)

(* Nothing in the pipeline before a close gives its statement away: either *)
(* nothing is prepared, or the statement stays until it is closed.         *)
CloseNamesOne ==
  \A k \in DOMAIN inbox :
    inbox[k].op = "close" =>
      \/ \A j \in 1 .. k - 1 : inbox[j].op # "prepare"
      \/ /\ inbox[k].stmt \in DOMAIN stmts
         /\ \A j \in 1 .. k - 1 :
              inbox[j].op # "reset_connection" /\ ~Closes(inbox[j], inbox[k].stmt)

(* An id is told again only after a reset connection took it away.         *)
AllottedOnce ==
  \A i \in DOMAIN outbox, id \in StmtId :
    Allots(outbox[i], id) =>
      /\ id \in client_stmts => \E j \in DOMAIN outbox : j < i /\ Resets(outbox[j])
      /\ \A h \in DOMAIN outbox : h < i /\ Allots(outbox[h], id) =>
           \E j \in DOMAIN outbox : h < j /\ j < i /\ Resets(outbox[j])

PrepareOkToPrepare ==
  \A i \in DOMAIN outbox : outbox[i].kind = "PREPARE_OK" => outbox[i].to.op = "prepare"

(* Cursors the client will believe in are there.                           *)
CursorsTold ==
  \A id \in StmtId :
    /\ id \in client_cursors =>
         /\ id \in client_stmts
         /\ (\A j \in DOMAIN outbox : ~EndsCursor(outbox[j], id)) => id \in ServerCursors
    /\ \A i \in DOMAIN outbox :
         /\ OpensCursor(outbox[i], id) /\ UsesAt(i, id)
         /\ \A j \in DOMAIN outbox : j > i => ~EndsCursor(outbox[j], id)
         => id \in ServerCursors

(* The inductive invariant; the views matter while the connection is open. *)
ViewsInv ==
  conn = "open" =>
    /\ StatusTold /\ StatementsTold /\ CloseNamesOne
    /\ AllottedOnce /\ PrepareOkToPrepare /\ CursorsTold

-----------------------------------------------------------------------------
(* What serving a command does to the views: it answers it and the reply   *)
(* tells of every change, or it has no reply and changes nothing the       *)
(* client has not done itself, or the connection ends.                     *)

Told(c, r) ==
  /\ r \in Reply /\ r.to = c /\ NeedsReply(c)
  /\ outbox' = Append(outbox, r)
  /\ HasStatus(r) => SessionStatusFlags(r.status) = status_flags'
  /\ r.kind = "PREPARE_OK" =>
       /\ c.op = "prepare" /\ UNCHANGED status_flags
       /\ r.stmt \notin DOMAIN stmts /\ DOMAIN stmts' = DOMAIN stmts \cup {r.stmt}
  /\ Resets(r) => DOMAIN stmts' = {}
  /\ r.kind # "PREPARE_OK" /\ ~Resets(r) => DOMAIN stmts' = DOMAIN stmts
  /\ \A id \in ServerCursors \ ServerCursors' : EndsCursor(r, id)
  /\ \A id : OpensCursor(r, id) => id \in ServerCursors'

Silent(c) ==
  /\ ~NeedsReply(c) /\ UNCHANGED <<outbox, status_flags>>
  /\ IF c.op = "close"
       THEN /\ DOMAIN stmts' = DOMAIN stmts \ {c.stmt}
            /\ ServerCursors' = ServerCursors \ {c.stmt}
       ELSE DOMAIN stmts' = DOMAIN stmts /\ ServerCursors' = ServerCursors

Left(c) ==
  \/ UNCHANGED outbox
  \/ \E r \in Reply : r.to = c /\ NeedsReply(c) /\ outbox' = Append(outbox, r)

ViewEffect(c) ==
  /\ Receives(c) /\ UNCHANGED client
  /\ \/ conn' = "open" /\ ((\E r : Told(c, r)) \/ Silent(c))
     \/ conn' # "open" /\ Left(c)

(* A reply to a command that leaves the statements alone, and one to a     *)
(* command that replaced a statement.                                      *)
LEMMA TableKeptTold ==
  ASSUME NEW c, NEW r \in Reply, r.to = c, NeedsReply(c), outbox' = Append(outbox, r),
         UNCHANGED stmts,
         HasStatus(r) => SessionStatusFlags(r.status) = status_flags',
         r.kind # "PREPARE_OK", ~Resets(r),
         c.op = "execute" => "CURSOR_EXISTS" \notin r.status
  PROVE  Told(c, r)
BY DEF Told, ServerCursors, OpensCursor

LEMMA StatementReplacedTold ==
  ASSUME TypeOK, NEW c, NEW r \in Reply, r.to = c, NeedsReply(c), outbox' = Append(outbox, r),
         c.op \in {"execute", "fetch", "reset"}, c.stmt \in DOMAIN stmts,
         NEW data \in StatementData, SetStatement(c.stmt, data),
         HasStatus(r) => SessionStatusFlags(r.status) = status_flags',
         r.kind # "PREPARE_OK",
         data.cursor_columns \/ EndsCursor(r, c.stmt),
         OpensCursor(r, c.stmt) => data.cursor_columns
  PROVE  Told(c, r)
<1>1. ServerCursors' = IF data.cursor_columns THEN ServerCursors \cup {c.stmt}
                                              ELSE ServerCursors \ {c.stmt}
  BY SetStatementCursors
<1>2. DOMAIN stmts' = DOMAIN stmts
  BY SetStatementTypes
<1>3. \A id \in ServerCursors \ ServerCursors' : EndsCursor(r, id)
  BY <1>1
<1>4. \A id : OpensCursor(r, id) => id \in ServerCursors'
  BY <1>1 DEF OpensCursor
<1>5. ~Resets(r)
  BY DEF Resets
<1> QED
  BY <1>2, <1>3, <1>4, <1>5 DEF Told

(* The reply records of the model's answers.                               *)
ReplyTo(c, kind, status) == [to |-> c, kind |-> kind, status |-> status, stmt |-> NoStmt]

LEMMA ReplyFields ==
  ASSUME NEW c \in ClientCommand, NEW kind \in {"OK", "ERR", "EOF"},
         NEW status \in SUBSET StatusFlag
  PROVE  LET r == ReplyTo(c, kind, status)
         IN  /\ r \in Reply /\ r.to = c /\ r.kind = kind /\ r.status = status
             /\ Answer(c, kind, status, NoStmt) => outbox' = Append(outbox, r)
BY CommandFields DEF ReplyTo, Reply, Answer

(* A status without cursor flags, or with one, is the session status it    *)
(* was made from.                                                          *)
LEMMA SessionPart ==
  ASSUME NEW status \in SUBSET StatusFlag
  PROVE  /\ SessionStatusFlags(status \ CursorFlags) = SessionStatusFlags(status)
         /\ "CURSOR_EXISTS" \notin status \ CursorFlags
         /\ status \ CursorFlags \in SUBSET StatusFlag
         /\ \A f \in CursorFlags :
              /\ SessionStatusFlags(SessionStatusFlags(status) \cup {f}) = SessionStatusFlags(status)
              /\ SessionStatusFlags(status) \cup {f} \in SUBSET StatusFlag
BY FlagAssumption DEF SessionStatusFlags, CursorFlags

LEMMA AnsweredView ==
  ASSUME NEW c, NEW r, Receives(c), UNCHANGED <<conn, client>>, Told(c, r)
  PROVE  ViewEffect(c)
BY DEF ViewEffect, Receives

(* The commands that leave the statements alone.                           *)
LEMMA PlainViewEffect ==
  ASSUME TypeOK, NEW c \in ClientCommand,
         \/ Query(c) \/ InitDb(c) \/ RefuseCommand(c) \/ RefusePrepare(c)
         \/ UnsupportedExecute(c) \/ FetchNoCursor(c) \/ ResetUnknown(c) \/ ReportStatus(c)
  PROVE  ViewEffect(c)
<1>1. ASSUME Receives(c), UNCHANGED <<conn, stmts, client>>, AnswerERR(c), NeedsReply(c)
      PROVE  ViewEffect(c)
  <2> DEFINE r == ReplyTo(c, "ERR", {})
  <2>1. r \in Reply /\ r.to = c /\ r.kind = "ERR" /\ r.status = {} /\ outbox' = Append(outbox, r)
    BY <1>1, ReplyFields DEF AnswerERR
  <2> HIDE DEF r
  <2>2. Told(c, r)
    BY <1>1, <2>1, TableKeptTold DEF HasStatus, Resets
  <2> QED
    BY <1>1, <2>2, AnsweredView
<1>2. ASSUME NEW kind \in {"OK", "EOF"}, NEW status \in SUBSET StatusFlag,
             Receives(c), UNCHANGED <<conn, stmts, client>>, Answer(c, kind, status, NoStmt),
             NeedsReply(c), c.op \notin {"execute", "reset_connection"},
             SessionStatusFlags(status) = status_flags'
      PROVE  ViewEffect(c)
  <2> DEFINE r == ReplyTo(c, kind, status)
  <2>1. r \in Reply /\ r.to = c /\ r.kind = kind /\ r.status = status /\ outbox' = Append(outbox, r)
    BY <1>2, ReplyFields
  <2> HIDE DEF r
  <2>2. Told(c, r)
    BY <1>2, <2>1, TableKeptTold DEF HasStatus, Resets
  <2> QED
    BY <1>2, <2>2, AnsweredView
<1>3. CASE Query(c)
  <2>1. PICK status \in BackendStatus :
          /\ status_flags' = SessionStatusFlags(status)
          /\ AnswerOK(c, status \ CursorFlags) \/ AnswerERR(c)
    BY <1>3 DEF Query
  <2>2. status \in SUBSET StatusFlag
    BY StatusTypes
  <2> QED
    BY <1>1, <1>2, <1>3, <2>1, <2>2, SessionPart DEF Query, AnswerOK, NeedsReply
<1>4. CASE InitDb(c)
  <2>1. CASE \E status \in BackendStatus \cup {status_flags} :
               /\ AnswerOK(c, status \ CursorFlags)
               /\ status_flags' = SessionStatusFlags(status)
    <3>1. PICK status \in BackendStatus \cup {status_flags} :
               /\ AnswerOK(c, status \ CursorFlags)
               /\ status_flags' = SessionStatusFlags(status)
      BY <2>1
    <3>2. status \in SUBSET StatusFlag
      BY StatusTypes, FlagAssumption DEF TypeOK
    <3> QED
      BY <1>2, <1>4, <3>1, <3>2, SessionPart DEF InitDb, AnswerOK, NeedsReply
  <2>2. CASE AnswerERR(c)
    BY <1>1, <1>4, <2>2 DEF InitDb, NeedsReply
  <2> QED
    BY <1>4, <2>1, <2>2 DEF InitDb
<1>5. CASE \/ RefuseCommand(c) \/ RefusePrepare(c) \/ UnsupportedExecute(c)
           \/ FetchNoCursor(c) \/ ResetUnknown(c)
  BY <1>1, <1>5 DEF RefuseCommand, RefusePrepare, UnsupportedExecute, FetchNoCursor,
                    ResetUnknown, Refuse, server, NeedsReply
<1>6. CASE ReportStatus(c)
  <2>1. status_flags \in SUBSET StatusFlag /\ SessionStatusFlags(status_flags) = status_flags
    BY FlagAssumption DEF TypeOK, SessionStatusFlags
  <2>2. Answer(c, IF c.op = "ping" THEN "OK" ELSE "EOF", status_flags, NoStmt)
    BY <1>6 DEF ReportStatus
  <2> QED
    BY <1>2, <1>6, <2>1, <2>2 DEF ReportStatus, server, NeedsReply
<1> QED
  BY <1>3, <1>4, <1>5, <1>6

(* The commands that replace a statement.                                  *)
LEMMA StatementViewEffect ==
  ASSUME TypeOK, NEW c \in ClientCommand,
         \/ ExecutePending(c) \/ ExecuteBadParams(c) \/ ExecutePlain(c) \/ ExecuteCursor(c)
         \/ Fetch(c) \/ Reset(c)
  PROVE  ViewEffect(c)
<1> DEFINE data == stmts[c.stmt]
<1>1. c.stmt \in DOMAIN stmts /\ Receives(c) /\ UNCHANGED <<conn, client>> /\ NeedsReply(c)
  BY DEF ExecutePending, ExecuteBadParams, ExecutePlain, ExecuteCursor, Fetch, Reset,
         ExecuteReaches, ServerCursors, NeedsReply
<1>2. c.op \in {"execute", "fetch", "reset"}
  BY DEF ExecutePending, ExecuteBadParams, ExecutePlain, ExecuteCursor, Fetch, Reset,
         ExecuteReaches
<1>3. data \in StatementData
  BY <1>1, StatementTypes
<1>4. ASSUME NEW new \in StatementData, SetStatement(c.stmt, new),
             NEW kind \in {"OK", "ERR"}, NEW status \in SUBSET StatusFlag,
             Answer(c, kind, status, NoStmt),
             kind = "OK" => SessionStatusFlags(status) = status_flags',
             new.cursor_columns \/ EndsCursor(ReplyTo(c, kind, status), c.stmt),
             OpensCursor(ReplyTo(c, kind, status), c.stmt) => new.cursor_columns
      PROVE  ViewEffect(c)
  <2> DEFINE r == ReplyTo(c, kind, status)
  <2>1. r \in Reply /\ r.to = c /\ r.kind = kind /\ r.status = status /\ outbox' = Append(outbox, r)
    BY <1>4, ReplyFields
  <2>2. new.cursor_columns \/ EndsCursor(r, c.stmt)
    BY <1>4
  <2>3. OpensCursor(r, c.stmt) => new.cursor_columns
    BY <1>4
  <2> HIDE DEF r
  <2>4. HasStatus(r) => SessionStatusFlags(r.status) = status_flags'
    BY <1>4, <2>1 DEF HasStatus
  <2>5. r.kind # "PREPARE_OK"
    BY <2>1
  <2>6. Told(c, r)
    BY <1>1, <1>2, <1>4, <2>1, <2>2, <2>3, <2>4, <2>5, StatementReplacedTold
  <2> QED
    BY <1>1, <2>6, AnsweredView
(* Every reply that ends the cursor of an EXECUTE or a RESET.              *)
<1>5. ASSUME NEW new \in StatementData, SetStatement(c.stmt, new), ~new.cursor_columns,
             NEW kind \in {"OK", "ERR"}, NEW status \in SUBSET StatusFlag,
             Answer(c, kind, status, NoStmt),
             kind = "OK" => SessionStatusFlags(status) = status_flags',
             c.op = "reset" \/ (c.op = "execute" /\ "CURSOR_EXISTS" \notin status)
      PROVE  ViewEffect(c)
  <2>1. EndsCursor(ReplyTo(c, kind, status), c.stmt)
    BY <1>5 DEF EndsCursor, ReplyTo
  <2>2. ~OpensCursor(ReplyTo(c, kind, status), c.stmt)
    BY <1>5 DEF OpensCursor, ReplyTo
  <2> QED
    BY <1>4, <1>5, <2>1, <2>2
<1>6. CASE ExecutePending(c)
  <2>1. AfterPending(data) \in StatementData /\ ~AfterPending(data).cursor_columns
    BY <1>3, StatementUpdates DEF AfterPending, StatementData
  <2>2. /\ SetStatement(c.stmt, AfterPending(data))
        /\ Answer(c, "ERR", {}, NoStmt) /\ c.op = "execute"
    BY <1>6 DEF ExecutePending, ExecuteReaches, AnswerERR
  <2> QED
    BY <1>5, <2>1, <2>2
<1>7. CASE ExecuteBadParams(c) \/ ExecutePlain(c)
  <2> DEFINE new == [data EXCEPT !.cursor_columns = FALSE, !.long_data = EmptyBuffers]
  <2>1. new \in StatementData /\ ~new.cursor_columns
    BY <1>3, StatementUpdates DEF StatementData
  <2>2. SetStatement(c.stmt, new) /\ c.op = "execute"
    BY <1>7 DEF ExecuteBadParams, ExecutePlain, Consumed, ExecuteReaches
  <2> HIDE DEF new
  <2>3. CASE Answer(c, "ERR", {}, NoStmt)
    BY <1>5, <2>1, <2>2, <2>3
  <2>4. CASE ~Answer(c, "ERR", {}, NoStmt)
    <3>1. PICK status \in BackendStatus :
            /\ status_flags' = SessionStatusFlags(status)
            /\ Answer(c, "OK", status \ CursorFlags, NoStmt)
      BY <1>7, <2>4 DEF ExecuteBadParams, ExecutePlain, AnswerERR, AnswerOK
    <3>2. status \in SUBSET StatusFlag
      BY StatusTypes
    <3> QED
      BY <1>5, <2>1, <2>2, <3>1, <3>2, SessionPart
  <2> QED
    BY <2>3, <2>4
<1>8. CASE ExecuteCursor(c)
  <2>1. PICK status \in BackendStatus, cursor \in BOOLEAN :
          /\ status_flags' = SessionStatusFlags(status)
          /\ IF cursor THEN AnswerOK(c, SessionStatusFlags(status) \cup {"CURSOR_EXISTS"})
                       ELSE AnswerERR(c)
          /\ Consumed(c.stmt, cursor)
    BY <1>8 DEF ExecuteCursor
  <2> DEFINE new == [data EXCEPT !.cursor_columns = cursor, !.long_data = EmptyBuffers]
  <2>2. new \in StatementData /\ new.cursor_columns = cursor
    BY <1>3, StatementUpdates DEF StatementData
  <2>3. SetStatement(c.stmt, new) /\ c.op = "execute"
    BY <1>8, <2>1 DEF Consumed, ExecuteCursor, ExecuteReaches
  <2>4. status \in SUBSET StatusFlag
    BY StatusTypes
  <2>5. /\ SessionStatusFlags(SessionStatusFlags(status) \cup {"CURSOR_EXISTS"}) = status_flags'
        /\ SessionStatusFlags(status) \cup {"CURSOR_EXISTS"} \in SUBSET StatusFlag
    BY <2>1, <2>4, SessionPart DEF CursorFlags
  <2> HIDE DEF new
  <2>6. CASE cursor
    BY <1>4, <2>1, <2>2, <2>3, <2>5, <2>6 DEF AnswerOK
  <2>7. CASE ~cursor
    BY <1>5, <2>1, <2>2, <2>3, <2>7 DEF AnswerERR
  <2> QED
    BY <2>6, <2>7
<1>9. CASE Fetch(c)
  <2>1. PICK status \in BackendStatus, outcome \in {"more", "exhausted", "error"} :
          /\ status_flags' = SessionStatusFlags(status)
          /\ CASE outcome = "more" ->
                    AnswerOK(c, SessionStatusFlags(status) \cup {"CURSOR_EXISTS"})
               [] outcome = "exhausted" ->
                    AnswerOK(c, SessionStatusFlags(status) \cup {"LAST_ROW_SENT"})
               [] OTHER -> AnswerERR(c)
          /\ IF CursorEnds(outcome)
               THEN SetStatement(c.stmt, [data EXCEPT !.cursor_columns = FALSE])
               ELSE UNCHANGED stmts
    BY <1>9 DEF Fetch
  <2>2. status \in SUBSET StatusFlag
    BY StatusTypes
  <2>3. \A f \in CursorFlags :
          /\ SessionStatusFlags(SessionStatusFlags(status) \cup {f}) = status_flags'
          /\ SessionStatusFlags(status) \cup {f} \in SUBSET StatusFlag
    BY <2>1, <2>2, SessionPart
  <2>4. c.op = "fetch"
    BY <1>9 DEF Fetch
  <2> DEFINE new == [data EXCEPT !.cursor_columns = FALSE]
  <2>5. new \in StatementData /\ ~new.cursor_columns
    BY <1>3, StatementUpdates DEF StatementData
  <2>6. CASE outcome = "more"
    <3> DEFINE told == SessionStatusFlags(status) \cup {"CURSOR_EXISTS"}
               r == ReplyTo(c, "OK", told)
    <3>1. Answer(c, "OK", told, NoStmt) /\ UNCHANGED stmts
      BY <2>1, <2>6 DEF AnswerOK, CursorEnds
    <3>2. told \in SUBSET StatusFlag /\ SessionStatusFlags(told) = status_flags'
      BY <2>3 DEF CursorFlags
    <3> HIDE DEF told
    <3>3. r \in Reply /\ r.to = c /\ r.kind = "OK" /\ r.status = told /\ outbox' = Append(outbox, r)
      BY <3>1, <3>2, ReplyFields
    <3> HIDE DEF r
    <3>4. Told(c, r)
      BY <1>1, <2>4, <3>1, <3>2, <3>3, TableKeptTold DEF HasStatus, Resets
    <3> QED
      BY <1>1, <3>4, AnsweredView
  <2>7. CASE outcome = "exhausted"
    <3> DEFINE told == SessionStatusFlags(status) \cup {"LAST_ROW_SENT"}
    <3>1. Answer(c, "OK", told, NoStmt) /\ SetStatement(c.stmt, new)
      BY <2>1, <2>7 DEF AnswerOK, CursorEnds
    <3>2. told \in SUBSET StatusFlag /\ SessionStatusFlags(told) = status_flags'
      BY <2>3 DEF CursorFlags
    <3>3. /\ EndsCursor(ReplyTo(c, "OK", told), c.stmt)
          /\ ~OpensCursor(ReplyTo(c, "OK", told), c.stmt)
      BY <2>4 DEF EndsCursor, OpensCursor, ReplyTo
    <3> QED
      BY <1>4, <2>5, <3>1, <3>2, <3>3
  <2>8. CASE outcome = "error"
    <3>1. Answer(c, "ERR", {}, NoStmt) /\ SetStatement(c.stmt, new)
      BY <2>1, <2>8 DEF AnswerERR, CursorEnds
    <3>2. EndsCursor(ReplyTo(c, "ERR", {}), c.stmt) /\ ~OpensCursor(ReplyTo(c, "ERR", {}), c.stmt)
      BY <2>4 DEF EndsCursor, OpensCursor, ReplyTo
    <3> QED
      BY <1>4, <2>5, <3>1, <3>2
  <2> QED
    BY <2>6, <2>7, <2>8
<1>10. CASE Reset(c)
  <2> DEFINE new == [data EXCEPT !.cursor_columns = FALSE, !.long_data = EmptyBuffers,
                                 !.pending_error = NoError]
  <2>1. new \in StatementData /\ ~new.cursor_columns
    BY <1>3, StatementUpdates DEF StatementData
  <2>2. /\ SetStatement(c.stmt, new) /\ c.op = "reset"
        /\ Answer(c, "OK", status_flags, NoStmt) /\ UNCHANGED status_flags
    BY <1>10 DEF Reset, AnswerOK
  <2>3. status_flags \in SUBSET StatusFlag /\ SessionStatusFlags(status_flags) = status_flags'
    BY <2>2, FlagAssumption DEF TypeOK, SessionStatusFlags
  <2>4. EndsCursor(ReplyTo(c, "OK", status_flags), c.stmt)
        /\ ~OpensCursor(ReplyTo(c, "OK", status_flags), c.stmt)
    BY <2>2 DEF EndsCursor, OpensCursor, ReplyTo
  <2> HIDE DEF new
  <2> QED
    BY <1>4, <2>1, <2>2, <2>3, <2>4
<1> QED
  BY <1>6, <1>7, <1>8, <1>9, <1>10

LEMMA OtherViewEffect ==
  ASSUME TypeOK, NEW c \in ClientCommand,
         \/ Prepare(c) \/ ResetConnection(c)
         \/ IgnoreLongData(c) \/ SendLongData(c) \/ Close(c)
         \/ Quit(c) \/ BadSequence(c) \/ BackendFails(c)
  PROVE  ViewEffect(c)
<1>1. ASSUME Receives(c), UNCHANGED <<conn, client>>, AnswerERR(c), NeedsReply(c),
             UNCHANGED stmts, c.op # "execute"
      PROVE  ViewEffect(c)
  <2> DEFINE r == ReplyTo(c, "ERR", {})
  <2>1. r \in Reply /\ r.to = c /\ r.kind = "ERR" /\ r.status = {} /\ outbox' = Append(outbox, r)
    BY <1>1, ReplyFields DEF AnswerERR
  <2> HIDE DEF r
  <2>2. Told(c, r)
    BY <1>1, <2>1, TableKeptTold DEF HasStatus, Resets
  <2> QED
    BY <1>1, <2>2, AnsweredView
<1>2. CASE Prepare(c)
  <2>1. CASE AnswerERR(c) /\ UNCHANGED stmts
    BY <1>1, <1>2, <2>1 DEF Prepare, NeedsReply
  <2>2. CASE ~(AnswerERR(c) /\ UNCHANGED stmts)
    <3>1. PICK id \in StmtId \ DOMAIN stmts, n \in ParamCount :
            /\ Answer(c, "PREPARE_OK", {}, id)
            /\ stmts' = [i \in DOMAIN stmts \cup {id} |->
                           IF i = id THEN NewStatement(n) ELSE stmts[i]]
      BY <1>2, <2>2 DEF Prepare
    <3> DEFINE r == [to |-> c, kind |-> "PREPARE_OK", status |-> {}, stmt |-> id]
    <3>2. r \in Reply /\ r.to = c /\ r.kind = "PREPARE_OK" /\ r.stmt = id /\ r.status = {}
      BY CommandFields DEF Reply
    <3>3. outbox' = Append(outbox, r)
      BY <3>1 DEF Answer
    <3> HIDE DEF r
    <3>4. DOMAIN stmts' = DOMAIN stmts \cup {id}
      BY <3>1
    <3>5. ServerCursors' = ServerCursors
      BY <3>1 DEF ServerCursors, NewStatement
    <3>6. c.op = "prepare" /\ UNCHANGED status_flags
      BY <1>2 DEF Prepare
    <3>7. Told(c, r)
      BY <3>2, <3>3, <3>4, <3>5, <3>6 DEF Told, HasStatus, Resets, OpensCursor, NeedsReply
    <3> QED
      BY <1>2, <3>7, AnsweredView DEF Prepare
  <2> QED
    BY <2>1, <2>2
<1>3. CASE ResetConnection(c)
  <2>1. c.op = "reset_connection" /\ Receives(c) /\ UNCHANGED <<conn, client>> /\ NeedsReply(c)
    BY <1>3 DEF ResetConnection, NeedsReply
  <2>2. CASE AnswerERR(c) /\ UNCHANGED server
    BY <1>1, <2>1, <2>2 DEF server
  <2>3. CASE ~(AnswerERR(c) /\ UNCHANGED server)
    <3>1. /\ stmts' = [id \in {} |-> NewStatement(0)]
          /\ status_flags' = InitialStatus
          /\ Answer(c, "OK", InitialStatus, NoStmt)
      BY <1>3, <2>3 DEF ResetConnection, AnswerOK, StatusAfterReset
    <3> DEFINE r == ReplyTo(c, "OK", InitialStatus)
    <3>2. InitialStatus \in SUBSET StatusFlag /\ SessionStatusFlags(InitialStatus) = status_flags'
      BY <3>1, FlagAssumption DEF SessionStatusFlags
    <3>3. /\ r \in Reply /\ r.to = c /\ r.kind = "OK" /\ r.status = InitialStatus
          /\ outbox' = Append(outbox, r)
      BY <3>1, <3>2, ReplyFields
    <3> HIDE DEF r
    <3>4. DOMAIN stmts' = {}
      BY <3>1
    <3>5. Resets(r) /\ \A id : EndsCursor(r, id) /\ ~OpensCursor(r, id)
      BY <2>1, <3>3 DEF Resets, EndsCursor, OpensCursor
    <3>6. Told(c, r)
      BY <2>1, <3>2, <3>3, <3>4, <3>5 DEF Told
    <3> QED
      BY <2>1, <3>6, AnsweredView
  <2> QED
    BY <2>2, <2>3
<1>4. CASE IgnoreLongData(c)
  <2>1. Silent(c)
    BY <1>4 DEF IgnoreLongData, Silent, NeedsReply, server, ServerCursors
  <2> QED
    BY <1>4, <2>1 DEF IgnoreLongData, ViewEffect, Receives
<1>5. CASE SendLongData(c)
  <2> DEFINE data == stmts[c.stmt]
  <2>1. c.stmt \in DOMAIN stmts /\ data \in StatementData /\ c.op = "long_data"
    BY <1>5, StatementTypes DEF SendLongData
  <2>2. PICK new \in StatementData :
          SetStatement(c.stmt, new) /\ new.cursor_columns = data.cursor_columns
    <3>1. CASE ~HasParam(c.stmt, c.param)
      <4> DEFINE new == [data EXCEPT !.pending_error = "ER_WRONG_ARGUMENTS"]
      <4>1. new \in StatementData /\ new.cursor_columns = data.cursor_columns
        BY <2>1, StatementUpdates DEF PendingError, StatementData
      <4> QED
        BY <1>5, <3>1, <4>1 DEF SendLongData
    <3>2. CASE HasParam(c.stmt, c.param) /\ ~LongDataFits(c.stmt, c.size)
      <4> DEFINE new == [data EXCEPT !.pending_error = "ER_NET_PACKET_TOO_LARGE"]
      <4>1. new \in StatementData /\ new.cursor_columns = data.cursor_columns
        BY <2>1, StatementUpdates DEF PendingError, StatementData
      <4> QED
        BY <1>5, <3>2, <4>1 DEF SendLongData
    <3>3. CASE HasParam(c.stmt, c.param) /\ LongDataFits(c.stmt, c.size)
      <4> DEFINE new == [data EXCEPT !.long_data[c.param] = @ + c.size]
      <4>1. c.param \in Param /\ c.size \in Nat
        BY <2>1, CommandFields
      <4>2. new \in StatementData
        BY <2>1, <4>1, StatementAppends
      <4>3. new.cursor_columns = data.cursor_columns
        BY <2>1 DEF StatementData
      <4> QED
        BY <1>5, <3>3, <4>2, <4>3 DEF SendLongData
    <3> QED
      BY <3>1, <3>2, <3>3
  <2>3. ServerCursors' = ServerCursors
    BY <2>1, <2>2, SetStatementCursors DEF ServerCursors
  <2>4. DOMAIN stmts' = DOMAIN stmts
    BY <2>1, <2>2, SetStatementTypes
  <2>5. Silent(c)
    BY <1>5, <2>1, <2>3, <2>4 DEF SendLongData, Silent, NeedsReply
  <2> QED
    BY <1>5, <2>5 DEF SendLongData, ViewEffect, Receives
<1>6. CASE Close(c)
  <2>1. stmts' = [i \in DOMAIN stmts \ {c.stmt} |-> stmts[i]] /\ c.op = "close"
    BY <1>6 DEF Close, TableWithout
  <2>2. /\ DOMAIN stmts' = DOMAIN stmts \ {c.stmt}
        /\ ServerCursors' = ServerCursors \ {c.stmt}
    BY <2>1 DEF ServerCursors
  <2>3. Silent(c)
    BY <1>6, <2>1, <2>2 DEF Close, Silent, NeedsReply
  <2> QED
    BY <1>6, <2>3 DEF Close, ViewEffect, Receives
<1>7. CASE Quit(c)
  BY <1>7 DEF Quit, Leave, ViewEffect, Left
<1>8. CASE BackendFails(c)
  BY <1>8 DEF BackendFails, Leave, ViewEffect, Left
<1>9. CASE BadSequence(c)
  <2> DEFINE r == ReplyTo(c, "ERR", {})
  <2>1. r \in Reply /\ r.to = c /\ outbox' = Append(outbox, r)
    BY <1>9, ReplyFields DEF BadSequence, AnswerERR
  <2> HIDE DEF r
  <2> QED
    BY <1>9, <2>1 DEF BadSequence, Leave, ViewEffect, Left, NeedsReply
<1> QED
  BY <1>2, <1>3, <1>4, <1>5, <1>6, <1>7, <1>8, <1>9

LEMMA ServeViewEffect ==
  ASSUME TypeOK, NEW c \in ClientCommand, Serve(c)
  PROVE  ViewEffect(c)
BY PlainViewEffect, StatementViewEffect, OtherViewEffect DEF Serve

(* A step that ends the connection otherwise, or does nothing here.        *)
Ends == conn' # "open" /\ UNCHANGED <<inbox, outbox, client>>

LEMMA StepViewEffect ==
  ASSUME TypeOK, [Next]_vars
  PROVE  \/ \E c \in ClientCommand : ViewEffect(c) \/ ClientSends(c)
         \/ ClientReads \/ Ends
         \/ UNCHANGED vars
BY ServeViewEffect DEF Next, Ends, Disconnect, ReadTimeout, TransportFails, Leave

-----------------------------------------------------------------------------
(* Replies in order.  A matching gives every command awaited beyond the    *)
(* first m its place in the pipeline.                                      *)

Unread(in) == {k \in DOMAIN in : NeedsReply(in[k])}

Matches(place, m, aw, in) ==
  /\ place \in [m + 1 .. Len(aw) -> Unread(in)]
  /\ \A i \in m + 1 .. Len(aw) : in[place[i]] = aw[i]
  /\ \A i, j \in m + 1 .. Len(aw) : i < j => place[i] < place[j]
  /\ \A k \in Unread(in) : \E i \in m + 1 .. Len(aw) : place[i] = k

LEMMA InOrder ==
  RepliesInOrder <=>
    /\ Len(outbox) <= Len(awaiting)
    /\ \A i \in 1 .. Len(outbox) : outbox[i].to = awaiting[i]
    /\ conn = "open" => \E place : Matches(place, Len(outbox), awaiting, inbox)
BY DEF RepliesInOrder, Matches, Unread

(* A command is sent: it is awaited last and comes last, or needs no reply.*)
LEMMA MatchesSent ==
  ASSUME NEW m \in Nat, NEW aw \in Seq(ClientCommand), NEW in \in Seq(ClientCommand),
         m <= Len(aw), NEW c \in ClientCommand, NEW place, Matches(place, m, aw, in)
  PROVE  \E new : Matches(new, m, IF NeedsReply(c) THEN Append(aw, c) ELSE aw, Append(in, c))
<1> DEFINE in2 == Append(in, c)
           aw2 == Append(aw, c)
<1>1. /\ Len(in) \in Nat /\ DOMAIN in = 1 .. Len(in)
      /\ in2 \in Seq(ClientCommand) /\ Len(in2) = Len(in) + 1 /\ DOMAIN in2 = 1 .. Len(in) + 1
      /\ in2[Len(in) + 1] = c
      /\ \A k \in 1 .. Len(in) : in2[k] = in[k]
  OBVIOUS
<1>2. /\ Len(aw) \in Nat
      /\ aw2 \in Seq(ClientCommand) /\ Len(aw2) = Len(aw) + 1 /\ aw2[Len(aw) + 1] = c
      /\ \A i \in 1 .. Len(aw) : aw2[i] = aw[i]
  OBVIOUS
<1> HIDE DEF in2, aw2
<1>3. Unread(in2) = IF NeedsReply(c) THEN Unread(in) \cup {Len(in) + 1} ELSE Unread(in)
  BY <1>1 DEF Unread
<1>4. \A k \in Unread(in) : k \in 1 .. Len(in)
  BY <1>1 DEF Unread
<1>5. CASE NeedsReply(c)
  <2> DEFINE new == [i \in m + 1 .. Len(aw) + 1 |->
                       IF i = Len(aw) + 1 THEN Len(in) + 1 ELSE place[i]]
  <2>1. new \in [m + 1 .. Len(aw2) -> Unread(in2)]
    BY <1>2, <1>3, <1>5 DEF Matches
  <2>2. ASSUME NEW i \in m + 1 .. Len(aw2) PROVE in2[new[i]] = aw2[i]
    <3>1. CASE i = Len(aw) + 1
      BY <1>1, <1>2, <3>1
    <3>2. CASE i # Len(aw) + 1
      <4>1. i \in m + 1 .. Len(aw) /\ i \in 1 .. Len(aw)
        BY <1>2, <3>2
      <4>2. place[i] \in 1 .. Len(in) /\ in[place[i]] = aw[i]
        BY <1>4, <4>1 DEF Matches
      <4>3. new[i] = place[i]
        BY <1>2, <3>2
      <4> HIDE DEF new
      <4> QED
        BY <1>1, <1>2, <4>1, <4>2, <4>3
    <3> QED
      BY <3>1, <3>2
  <2>3. ASSUME NEW i \in m + 1 .. Len(aw2), NEW j \in m + 1 .. Len(aw2), i < j
        PROVE  new[i] < new[j]
    <3>1. i \in m + 1 .. Len(aw)
      BY <1>2, <2>3
    <3>2. place[i] \in 1 .. Len(in)
      BY <1>4, <3>1 DEF Matches
    <3> QED
      BY <1>1, <1>2, <2>3, <3>1, <3>2 DEF Matches
  <2>4. ASSUME NEW k \in Unread(in2) PROVE \E i \in m + 1 .. Len(aw2) : new[i] = k
    <3>1. CASE k = Len(in) + 1
      BY <1>2, <3>1
    <3>2. CASE k \in Unread(in)
      <4>1. PICK i \in m + 1 .. Len(aw) : place[i] = k
        BY <3>2 DEF Matches
      <4> QED
        BY <1>2, <4>1
    <3> QED
      BY <1>3, <1>5, <3>1, <3>2
  <2>5. Matches(new, m, aw2, in2)
    <3> HIDE DEF new
    <3> QED BY <2>1, <2>2, <2>3, <2>4 DEF Matches
  <2> QED
    BY <1>5, <2>5 DEF aw2, in2
<1>6. CASE ~NeedsReply(c)
  <2>1. Unread(in2) = Unread(in)
    BY <1>3, <1>6
  <2>2. ASSUME NEW i \in m + 1 .. Len(aw) PROVE in2[place[i]] = aw[i]
    <3>1. place[i] \in Unread(in) /\ in[place[i]] = aw[i]
      BY DEF Matches
    <3> QED
      BY <1>1, <1>4, <3>1
  <2>3. Matches(place, m, aw, in2)
    BY <2>1, <2>2 DEF Matches
  <2> QED
    BY <1>6, <2>3 DEF in2
<1> QED
  BY <1>5, <1>6

(* A reply is read: what is awaited moves up.                              *)
LEMMA MatchesRead ==
  ASSUME NEW m \in Nat, m > 0, NEW aw \in Seq(ClientCommand), m <= Len(aw),
         NEW in \in Seq(ClientCommand), NEW place, Matches(place, m, aw, in)
  PROVE  \E new : Matches(new, m - 1, Tail(aw), in)
<1> DEFINE aw2 == Tail(aw)
           new == [i \in m .. Len(aw) - 1 |-> place[i + 1]]
<1>1. /\ Len(aw) \in Nat /\ aw # <<>> /\ aw2 \in Seq(ClientCommand) /\ Len(aw2) = Len(aw) - 1
      /\ \A i \in 1 .. Len(aw) - 1 : aw2[i] = aw[i + 1]
  OBVIOUS
<1> HIDE DEF aw2
<1>2. \A i \in m .. Len(aw) - 1 : i + 1 \in m + 1 .. Len(aw) /\ new[i] = place[i + 1]
  BY <1>1
<1>3. new \in [m .. Len(aw2) -> Unread(in)]
  BY <1>1 DEF Matches
<1> HIDE DEF new
<1>4. ASSUME NEW i \in m .. Len(aw2) PROVE in[new[i]] = aw2[i]
  <2>1. i + 1 \in m + 1 .. Len(aw) /\ new[i] = place[i + 1] /\ aw2[i] = aw[i + 1]
    BY <1>1, <1>2
  <2>2. in[place[i + 1]] = aw[i + 1]
    BY <2>1 DEF Matches
  <2> QED
    BY <2>1, <2>2
<1>5. \A i, j \in m .. Len(aw2) : i < j => new[i] < new[j]
  <2>1. SUFFICES ASSUME NEW i \in m .. Len(aw2), NEW j \in m .. Len(aw2), i < j
                 PROVE  new[i] < new[j]
    OBVIOUS
  <2>2. i + 1 \in m + 1 .. Len(aw) /\ j + 1 \in m + 1 .. Len(aw) /\ i + 1 < j + 1
    BY <1>1, <2>1
  <2> QED
    BY <1>1, <1>2, <2>2 DEF Matches
<1>6. ASSUME NEW k \in Unread(in) PROVE \E i \in m .. Len(aw2) : new[i] = k
  <2>1. PICK i \in m + 1 .. Len(aw) : place[i] = k
    BY DEF Matches
  <2>2. i - 1 \in m .. Len(aw2) /\ (i - 1) + 1 = i
    BY <1>1
  <2> QED
    BY <1>1, <1>2, <2>1, <2>2
<1>7. (m - 1) + 1 = m
  OBVIOUS
<1>8. Matches(new, m - 1, aw2, in)
  BY <1>3, <1>4, <1>5, <1>6, <1>7 DEF Matches
<1> QED
  BY <1>8 DEF aw2

(* A command is served: if it needs a reply, it is the first one awaited.  *)
LEMMA MatchesServed ==
  ASSUME NEW m \in Nat, NEW aw \in Seq(ClientCommand), m <= Len(aw),
         NEW in \in Seq(ClientCommand), in # <<>>, NEW place, Matches(place, m, aw, in)
  PROVE  /\ NeedsReply(Head(in)) =>
              /\ m + 1 <= Len(aw) /\ aw[m + 1] = Head(in)
              /\ \E new : Matches(new, m + 1, aw, Tail(in))
         /\ ~NeedsReply(Head(in)) => \E new : Matches(new, m, aw, Tail(in))
<1> DEFINE in2 == Tail(in)
           first == IF NeedsReply(Head(in)) THEN m + 1 ELSE m
           new == [i \in first + 1 .. Len(aw) |-> place[i] - 1]
<1>1. /\ Len(in) \in Nat \ {0} /\ DOMAIN in = 1 .. Len(in) /\ in[1] = Head(in)
      /\ in2 \in Seq(ClientCommand) /\ DOMAIN in2 = 1 .. Len(in) - 1
      /\ \A k \in 1 .. Len(in) - 1 : in2[k] = in[k + 1]
      /\ Len(aw) \in Nat
  OBVIOUS
<1> HIDE DEF in2
<1>2. \A k \in Unread(in) : k \in 1 .. Len(in)
  BY <1>1 DEF Unread
<1>3. \A k : k \in Unread(in2) <=> k \in Nat \ {0} /\ k + 1 \in Unread(in)
  BY <1>1 DEF Unread
<1>4. \A i \in m + 1 .. Len(aw) : place[i] \in Unread(in) /\ in[place[i]] = aw[i]
  BY DEF Matches
<1>5. NeedsReply(Head(in)) => m + 1 <= Len(aw) /\ place[m + 1] = 1
  <2>1. SUFFICES ASSUME NeedsReply(Head(in)) PROVE m + 1 <= Len(aw) /\ place[m + 1] = 1
    OBVIOUS
  <2>2. 1 \in Unread(in)
    BY <1>1, <2>1 DEF Unread
  <2>3. PICK i \in m + 1 .. Len(aw) : place[i] = 1
    BY <2>2 DEF Matches
  <2>4. m + 1 \in m + 1 .. Len(aw) /\ place[m + 1] \in 1 .. Len(in)
    BY <1>1, <1>2, <1>4, <2>3
  <2>5. m + 1 < i => place[m + 1] < place[i]
    BY <2>4 DEF Matches
  <2> QED
    BY <1>1, <2>3, <2>4, <2>5
<1>6. NeedsReply(Head(in)) => aw[m + 1] = Head(in)
  BY <1>1, <1>4, <1>5
<1>7. \A i \in first + 1 .. Len(aw) : i \in m + 1 .. Len(aw) /\ place[i] \in Nat /\ place[i] > 1
  <2>1. SUFFICES ASSUME NEW i \in first + 1 .. Len(aw)
                 PROVE  i \in m + 1 .. Len(aw) /\ place[i] \in Nat /\ place[i] > 1
    OBVIOUS
  <2>2. i \in m + 1 .. Len(aw) /\ place[i] \in 1 .. Len(in) /\ place[i] \in Unread(in)
    BY <1>1, <1>2, <1>4
  <2>3. CASE NeedsReply(Head(in))
    <3>1. m + 1 \in m + 1 .. Len(aw) /\ m + 1 < i
      BY <1>1, <1>5, <2>3
    <3>2. place[m + 1] < place[i]
      BY <2>2, <3>1 DEF Matches
    <3> QED
      BY <1>5, <2>2, <2>3, <3>2
  <2>4. CASE ~NeedsReply(Head(in))
    <3>1. place[i] # 1
      BY <1>1, <2>2, <2>4 DEF Unread
    <3> QED
      BY <1>1, <2>2, <3>1
  <2> QED
    BY <2>3, <2>4
<1>8. \A i \in first + 1 .. Len(aw) : new[i] = place[i] - 1
  OBVIOUS
<1>9. new \in [first + 1 .. Len(aw) -> Unread(in2)]
  <2>1. ASSUME NEW i \in first + 1 .. Len(aw) PROVE place[i] - 1 \in Unread(in2)
    <3>1. place[i] - 1 \in Nat \ {0} /\ (place[i] - 1) + 1 = place[i]
      BY <1>7
    <3> QED
      BY <1>3, <1>4, <1>7, <3>1
  <2> QED
    BY <2>1
<1> HIDE DEF new
<1>10. ASSUME NEW i \in first + 1 .. Len(aw) PROVE in2[new[i]] = aw[i]
  <2>1. place[i] \in 1 .. Len(in) /\ place[i] - 1 \in 1 .. Len(in) - 1
    BY <1>1, <1>2, <1>4, <1>7
  <2> QED
    BY <1>1, <1>4, <1>7, <1>8, <2>1
<1>11. ASSUME NEW i \in first + 1 .. Len(aw), NEW j \in first + 1 .. Len(aw), i < j
       PROVE  new[i] < new[j]
  <2>1. place[i] < place[j]
    BY <1>7, <1>11 DEF Matches
  <2> QED
    BY <1>7, <1>8, <2>1
<1>12. ASSUME NEW k \in Unread(in2) PROVE \E i \in first + 1 .. Len(aw) : new[i] = k
  <2>1. k \in Nat \ {0} /\ k + 1 \in Unread(in)
    BY <1>3
  <2>2. PICK i \in m + 1 .. Len(aw) : place[i] = k + 1
    BY <2>1 DEF Matches
  <2>3. i \in first + 1 .. Len(aw)
    BY <1>1, <1>5, <2>1, <2>2
  <2> QED
    BY <1>8, <2>1, <2>2, <2>3
<1>13. Matches(new, first, aw, in2)
  <2> HIDE DEF first
  <2> QED BY <1>9, <1>10, <1>11, <1>12 DEF Matches
<1> QED
  BY <1>5, <1>6, <1>13 DEF in2

LEMMA SequenceTypes ==
  TypeOK => /\ inbox \in Seq(ClientCommand) /\ awaiting \in Seq(ClientCommand)
            /\ outbox \in Seq(Reply) /\ Len(outbox) \in Nat /\ DOMAIN outbox = 1 .. Len(outbox)
BY DEF TypeOK

(* Reading and writing the outbox, index by index.                         *)
LEMMA OutboxRead ==
  ASSUME TypeOK, outbox # <<>>, outbox' = Tail(outbox)
  PROVE  /\ Len(outbox) \in Nat \ {0} /\ Len(outbox') = Len(outbox) - 1
         /\ Head(outbox) = outbox[1] /\ 1 \in DOMAIN outbox
         /\ \A i \in DOMAIN outbox' : i + 1 \in DOMAIN outbox /\ outbox'[i] = outbox[i + 1]
         /\ \A i \in DOMAIN outbox : i # 1 => i - 1 \in DOMAIN outbox' /\ outbox'[i - 1] = outbox[i]
<1>1. /\ outbox \in Seq(Reply) /\ outbox' \in Seq(Reply) /\ Len(outbox) \in Nat \ {0}
      /\ Len(outbox') = Len(outbox) - 1 /\ Head(outbox) = outbox[1]
      /\ DOMAIN outbox = 1 .. Len(outbox) /\ DOMAIN outbox' = 1 .. Len(outbox) - 1
      /\ \A i \in 1 .. Len(outbox) - 1 : outbox'[i] = outbox[i + 1]
  BY DEF TypeOK
<1> QED
  BY <1>1

LEMMA OutboxWritten ==
  ASSUME TypeOK, NEW r \in Reply, outbox' = Append(outbox, r)
  PROVE  /\ Len(outbox) \in Nat /\ Len(outbox') = Len(outbox) + 1
         /\ DOMAIN outbox = 1 .. Len(outbox) /\ DOMAIN outbox' = 1 .. Len(outbox) + 1
         /\ outbox'[Len(outbox) + 1] = r
         /\ \A i \in DOMAIN outbox : outbox'[i] = outbox[i]
BY DEF TypeOK

LEMMA StepKeepsOrder ==
  ASSUME TypeOK, RepliesInOrder, [Next]_vars
  PROVE  RepliesInOrder'
<1> DEFINE m == Len(outbox)
<1>1. /\ inbox \in Seq(ClientCommand) /\ awaiting \in Seq(ClientCommand) /\ m \in Nat
      /\ Len(awaiting) \in Nat
  BY SequenceTypes
<1>2. /\ m <= Len(awaiting)
      /\ \A i \in 1 .. m : outbox[i].to = awaiting[i]
      /\ conn = "open" => \E place : Matches(place, m, awaiting, inbox)
  BY InOrder
<1>3. ASSUME m' <= Len(awaiting'), \A i \in 1 .. m' : outbox'[i].to = awaiting'[i],
             conn' = "open" => \E place : Matches(place, m', awaiting', inbox')
      PROVE  RepliesInOrder'
  BY <1>3 DEF RepliesInOrder, Matches, Unread
<1>4. ASSUME NEW c \in ClientCommand, ClientSends(c) PROVE RepliesInOrder'
  <2> DEFINE aw2 == IF NeedsReply(c) THEN Append(awaiting, c) ELSE awaiting
  <2>1. /\ conn = "open" /\ UNCHANGED <<conn, outbox>>
        /\ inbox' = Append(inbox, c) /\ awaiting' = aw2
    BY <1>4 DEF ClientSends
  <2>2. Len(aw2) >= Len(awaiting) /\ \A i \in 1 .. Len(awaiting) : aw2[i] = awaiting[i]
    BY <1>1
  <2>3. \E place : Matches(place, m, aw2, Append(inbox, c))
    BY <1>1, <1>2, <2>1, MatchesSent
  <2> HIDE DEF aw2
  <2>4. m' = m /\ m <= Len(aw2)
    BY <1>1, <1>2, <2>1, <2>2
  <2>5. \A i \in 1 .. m' : outbox'[i].to = awaiting'[i]
    BY <1>1, <1>2, <2>1, <2>2, <2>4
  <2> HIDE DEF m
  <2> QED
    BY <1>3, <2>1, <2>3, <2>4, <2>5
<1>5. CASE ClientReads
  <2>1. /\ outbox # <<>> /\ awaiting # <<>> /\ UNCHANGED <<conn, inbox>>
        /\ outbox' = Tail(outbox) /\ awaiting' = Tail(awaiting)
    BY <1>5 DEF ClientReads
  <2>2. /\ m > 0 /\ m' = m - 1 /\ DOMAIN outbox' = 1 .. m'
        /\ \A i \in DOMAIN outbox' : i + 1 \in 1 .. m /\ outbox'[i] = outbox[i + 1]
    BY <2>1, OutboxRead, SequenceTypes
  <2>3. Len(awaiting') = Len(awaiting) - 1 /\ \A i \in 1 .. Len(awaiting) - 1 : awaiting'[i] = awaiting[i + 1]
    BY <1>1, <2>1
  <2>4. conn' = "open" => \E place : Matches(place, m - 1, awaiting', inbox')
    BY <1>1, <1>2, <2>1, <2>2, MatchesRead
  <2> HIDE DEF m
  <2>5. \A i \in 1 .. m' : outbox'[i].to = awaiting'[i]
    <3>1. SUFFICES ASSUME NEW i \in 1 .. m' PROVE outbox'[i].to = awaiting'[i]
      OBVIOUS
    <3>2. i + 1 \in 1 .. m /\ outbox'[i] = outbox[i + 1]
      BY <2>2
    <3>3. awaiting'[i] = awaiting[i + 1]
      BY <1>1, <1>2, <2>2, <2>3
    <3> QED
      BY <1>2, <3>2, <3>3
  <2>6. m' <= Len(awaiting')
    BY <1>1, <1>2, <2>2, <2>3
  <2> QED
    BY <1>3, <2>2, <2>4, <2>5, <2>6
<1>6. ASSUME NEW c \in ClientCommand, ViewEffect(c) PROVE RepliesInOrder'
  <2>1. /\ conn = "open" /\ inbox # <<>> /\ c = Head(inbox) /\ inbox' = Tail(inbox)
        /\ awaiting' = awaiting
    BY <1>6 DEF ViewEffect, Receives, client
  <2>2. PICK place : Matches(place, m, awaiting, inbox)
    BY <1>2, <2>1
  <2>3. /\ NeedsReply(c) => /\ m + 1 <= Len(awaiting) /\ awaiting[m + 1] = c
                            /\ \E new : Matches(new, m + 1, awaiting, inbox')
        /\ ~NeedsReply(c) => \E new : Matches(new, m, awaiting, inbox')
    BY <1>1, <1>2, <2>1, <2>2, MatchesServed
  <2>4. ASSUME UNCHANGED outbox, conn' = "open" => ~NeedsReply(c) PROVE RepliesInOrder'
    <3>1. m' = m
      BY <2>4
    <3> HIDE DEF m
    <3> QED
      BY <1>2, <1>3, <2>1, <2>3, <2>4, <3>1
  <2>5. ASSUME NEW r \in Reply, r.to = c, NeedsReply(c), outbox' = Append(outbox, r)
        PROVE  RepliesInOrder'
    <3>1. /\ m' = m + 1 /\ outbox'[m + 1] = r
          /\ \A i \in 1 .. m : outbox'[i] = outbox[i]
      BY <2>5, OutboxWritten
    <3> HIDE DEF m
    <3>2. ASSUME NEW i \in 1 .. m' PROVE outbox'[i].to = awaiting'[i]
      <4>1. CASE i = m + 1
        BY <2>1, <2>3, <2>5, <3>1, <4>1
      <4>2. CASE i # m + 1
        <5>1. i \in 1 .. m
          BY <1>1, <3>1, <4>2
        <5> QED
          BY <1>2, <2>1, <3>1, <5>1
      <4> QED
        BY <4>1, <4>2
    <3> QED
      BY <1>1, <1>3, <2>1, <2>3, <2>5, <3>1, <3>2
  <2> QED
    BY <1>6, <2>4, <2>5 DEF ViewEffect, Told, Silent, Left
<1>7. CASE Ends
  <2>1. m' = m /\ awaiting' = awaiting /\ outbox' = outbox /\ conn' # "open"
    BY <1>7 DEF Ends, client
  <2> HIDE DEF m
  <2> QED
    BY <1>2, <1>3, <2>1
<1>8. CASE UNCHANGED vars
  BY <1>8 DEF vars, client, RepliesInOrder
<1> QED
  BY <1>4, <1>5, <1>6, <1>7, <1>8, StepViewEffect

(* Every command is answered by its own reply, in order, and once.         *)
THEOREM RepliesComeInOrder == Spec => []RepliesInOrder
<1>1. Init => RepliesInOrder
  <2>1. SUFFICES ASSUME Init PROVE RepliesInOrder
    OBVIOUS
  <2>2. inbox = <<>> /\ outbox = <<>> /\ awaiting = <<>>
    BY <2>1 DEF Init
  <2> DEFINE place == [i \in 1 .. 0 |-> i]
  <2>3. Matches(place, 0, <<>>, <<>>)
    BY DEF Matches, Unread
  <2> HIDE DEF place
  <2> QED
    BY <2>2, <2>3, InOrder
<1>2. TypeOK /\ RepliesInOrder /\ [Next]_vars => RepliesInOrder'
  BY StepKeepsOrder
<1> QED
  BY <1>1, <1>2, TypeInvariant, PTL DEF Spec

-----------------------------------------------------------------------------
(* What the order of replies says about a step.                            *)

LEMMA FirstAwaited ==
  ASSUME TypeOK, RepliesInOrder, outbox # <<>>
  PROVE  awaiting # <<>> /\ Head(awaiting) = outbox[1].to
<1>1. Len(outbox) \in Nat \ {0} /\ awaiting \in Seq(ClientCommand) /\ Len(awaiting) \in Nat
  BY SequenceTypes
<1>2. Len(outbox) <= Len(awaiting) /\ outbox[1].to = awaiting[1]
  BY <1>1, InOrder
<1> QED
  BY <1>1, <1>2

LEMMA NotOutstanding ==
  ASSUME TypeOK, RepliesInOrder, conn = "open",
         NEW op \in {"prepare", "reset_connection"}, ~Outstanding(op)
  PROVE  /\ \A k \in DOMAIN inbox : inbox[k].op # op
         /\ \A i \in DOMAIN outbox : outbox[i].to.op # op
<1>1. /\ awaiting \in Seq(ClientCommand) /\ DOMAIN awaiting = 1 .. Len(awaiting)
      /\ Len(awaiting) \in Nat /\ Len(outbox) \in Nat /\ DOMAIN outbox = 1 .. Len(outbox)
  BY SequenceTypes
<1>2. \A i \in 1 .. Len(awaiting) : awaiting[i].op # op
  BY <1>1 DEF Outstanding
<1>3. ASSUME NEW k \in DOMAIN inbox, inbox[k].op = op PROVE FALSE
  <2>1. PICK place : Matches(place, Len(outbox), awaiting, inbox)
    BY InOrder
  <2>2. k \in Unread(inbox)
    BY <1>3 DEF Unread, NeedsReply
  <2>3. PICK i \in Len(outbox) + 1 .. Len(awaiting) : place[i] = k
    BY <2>1, <2>2 DEF Matches
  <2>4. inbox[k] = awaiting[i]
    BY <2>1, <2>3 DEF Matches
  <2> QED
    BY <1>1, <1>2, <1>3, <2>3, <2>4
<1>4. ASSUME NEW i \in DOMAIN outbox PROVE outbox[i].to.op # op
  <2>1. i \in 1 .. Len(awaiting) /\ outbox[i].to = awaiting[i]
    BY <1>1, InOrder
  <2> QED
    BY <1>2, <2>1
<1> QED
  BY <1>3, <1>4

(* The pipeline, index by index.                                           *)
LEMMA InboxSent ==
  ASSUME TypeOK, NEW c \in ClientCommand, inbox' = Append(inbox, c)
  PROVE  /\ Len(inbox) \in Nat
         /\ DOMAIN inbox = 1 .. Len(inbox) /\ DOMAIN inbox' = 1 .. Len(inbox) + 1
         /\ inbox'[Len(inbox) + 1] = c
         /\ \A k \in DOMAIN inbox : inbox'[k] = inbox[k]
BY DEF TypeOK

LEMMA InboxReceived ==
  ASSUME TypeOK, NEW c, Receives(c)
  PROVE  /\ Len(inbox) \in Nat \ {0} /\ inbox[1] = c
         /\ DOMAIN inbox = 1 .. Len(inbox) /\ DOMAIN inbox' = 1 .. Len(inbox) - 1
         /\ \A k \in DOMAIN inbox' : inbox'[k] = inbox[k + 1]
<1>1. inbox \in Seq(ClientCommand) /\ inbox # <<>> /\ inbox' = Tail(inbox) /\ c = Head(inbox)
  BY DEF TypeOK, Receives
<1> QED
  BY <1>1

-----------------------------------------------------------------------------
(* The session status.                                                     *)

LEMMA StepKeepsStatusTold ==
  ASSUME TypeOK, RepliesInOrder, StatusTold, conn' = "open", [Next]_vars
  PROVE  StatusTold'
<1>1. CASE \E c \in ClientCommand : ClientSends(c)
  BY <1>1 DEF ClientSends, server, StatusTold, HasStatus
<1>2. CASE ClientReads
  <2> DEFINE r == outbox[1]
  <2>1. outbox # <<>> /\ outbox' = Tail(outbox) /\ UNCHANGED status_flags
    BY <1>2 DEF ClientReads, server
  <2>2. /\ 1 \in DOMAIN outbox /\ Head(outbox) = r
        /\ DOMAIN outbox \subseteq Nat
        /\ \A i \in DOMAIN outbox' : i + 1 \in DOMAIN outbox /\ outbox'[i] = outbox[i + 1]
        /\ \A i \in DOMAIN outbox : i # 1 => i - 1 \in DOMAIN outbox' /\ outbox'[i - 1] = outbox[i]
    BY <2>1, OutboxRead, SequenceTypes
  <2>3. DOMAIN outbox' \subseteq Nat
    BY <2>1, SequenceTypes, OutboxRead
  <2>4. /\ client_status' = IF HasStatus(r) THEN SessionStatusFlags(r.status) ELSE client_status
        /\ status_known' = IF HasStatus(r) THEN TRUE
                           ELSE IF r.kind = "ERR" THEN FALSE ELSE status_known
    BY <1>2, <2>2 DEF ClientReads, HasStatus
  <2>5. r.kind \in {"OK", "EOF", "ERR", "PREPARE_OK"}
    BY <2>2 DEF TypeOK, Reply
  <2>6. ASSUME NEW i \in DOMAIN outbox', HasStatus(outbox'[i]),
               \A j \in DOMAIN outbox' : j > i => outbox'[j].kind = "PREPARE_OK"
        PROVE  SessionStatusFlags(outbox'[i].status) = status_flags'
    <3>1. \A j \in DOMAIN outbox : j > i + 1 => outbox[j].kind = "PREPARE_OK"
      BY <2>2, <2>3, <2>6
    <3> QED
      BY <2>1, <2>2, <2>6, <3>1 DEF StatusTold
  <2>7. ASSUME status_known', \A j \in DOMAIN outbox' : outbox'[j].kind = "PREPARE_OK"
        PROVE  client_status' = status_flags'
    <3>1. \A j \in DOMAIN outbox : j # 1 => outbox[j].kind = "PREPARE_OK"
      BY <2>2, <2>7
    <3>2. CASE HasStatus(r)
      BY <2>1, <2>2, <2>4, <3>1, <3>2 DEF StatusTold
    <3>3. CASE ~HasStatus(r)
      <4>1. r.kind = "PREPARE_OK" /\ status_known
        BY <2>4, <2>5, <2>7, <3>3 DEF HasStatus
      <4> QED
        BY <2>1, <2>2, <2>4, <3>1, <3>3, <4>1 DEF StatusTold
    <3> QED
      BY <3>2, <3>3
  <2> QED
    BY <2>6, <2>7 DEF StatusTold, HasStatus
<1>3. ASSUME NEW c \in ClientCommand, ViewEffect(c) PROVE StatusTold'
  <2>1. CASE Silent(c)
    BY <1>3, <2>1 DEF ViewEffect, Silent, client, StatusTold, HasStatus
  <2>2. ASSUME NEW r, Told(c, r) PROVE StatusTold'
    <3>1. /\ Len(outbox) \in Nat
          /\ DOMAIN outbox = 1 .. Len(outbox) /\ DOMAIN outbox' = 1 .. Len(outbox) + 1
          /\ outbox'[Len(outbox) + 1] = r
          /\ \A i \in DOMAIN outbox : outbox'[i] = outbox[i]
      BY <2>2, OutboxWritten DEF Told
    <3>2. HasStatus(r) => SessionStatusFlags(r.status) = status_flags'
      BY <2>2 DEF Told
    <3>3. r.kind = "PREPARE_OK" => UNCHANGED status_flags
      BY <2>2 DEF Told
    <3>4. UNCHANGED <<client_status, status_known>>
      BY <1>3 DEF ViewEffect, client
    <3>5. ASSUME NEW i \in DOMAIN outbox', HasStatus(outbox'[i]),
                 \A j \in DOMAIN outbox' : j > i => outbox'[j].kind = "PREPARE_OK"
          PROVE  SessionStatusFlags(outbox'[i].status) = status_flags'
      <4>1. CASE i = Len(outbox) + 1
        BY <3>1, <3>2, <3>5, <4>1
      <4>2. CASE i # Len(outbox) + 1
        <5>1. i \in DOMAIN outbox /\ outbox'[i] = outbox[i] /\ r.kind = "PREPARE_OK"
          BY <3>1, <3>5, <4>2
        <5>2. \A j \in DOMAIN outbox : j > i => outbox[j].kind = "PREPARE_OK"
          BY <3>1, <3>5
        <5> QED
          BY <3>3, <3>5, <5>1, <5>2 DEF StatusTold
      <4> QED
        BY <4>1, <4>2
    <3>6. ASSUME status_known', \A j \in DOMAIN outbox' : outbox'[j].kind = "PREPARE_OK"
          PROVE  client_status' = status_flags'
      <4>1. r.kind = "PREPARE_OK" /\ \A j \in DOMAIN outbox : outbox[j].kind = "PREPARE_OK"
        BY <3>1, <3>6
      <4> QED
        BY <3>3, <3>4, <3>6, <4>1 DEF StatusTold
    <3> QED
      BY <3>5, <3>6 DEF StatusTold, HasStatus
  <2> QED
    BY <1>3, <2>1, <2>2 DEF ViewEffect
<1>4. CASE UNCHANGED vars
  BY <1>4 DEF vars, server, client, StatusTold, HasStatus
<1> QED
  BY <1>1, <1>2, <1>3, <1>4, StepViewEffect DEF Ends

-----------------------------------------------------------------------------
(* The statements.                                                         *)

StatementViewInv ==
  StatementsTold /\ CloseNamesOne /\ AllottedOnce /\ PrepareOkToPrepare

LEMMA SendKeepsStatementView ==
  ASSUME TypeOK, RepliesInOrder, StatementViewInv, NEW c \in ClientCommand, ClientSends(c)
  PROVE  StatementViewInv'
<1> USE DEF StatementViewInv
<1>1. conn = "open" /\ inbox' = Append(inbox, c) /\ UNCHANGED <<conn, outbox, stmts>>
  BY DEF ClientSends, server
<1>2. /\ Len(inbox) \in Nat
      /\ DOMAIN inbox = 1 .. Len(inbox) /\ DOMAIN inbox' = 1 .. Len(inbox) + 1
      /\ inbox'[Len(inbox) + 1] = c
      /\ \A k \in DOMAIN inbox : inbox'[k] = inbox[k]
  BY <1>1, InboxSent
<1>3. AllottedOnce' /\ PrepareOkToPrepare'
  <2>1. client_stmts' \subseteq client_stmts
    BY DEF ClientSends
  <2> QED
    BY <1>1, <2>1 DEF AllottedOnce, PrepareOkToPrepare, Allots, Resets
<1>4. \A id : Closing(id)' <=> Closing(id) \/ Closes(c, id)
  BY <1>2 DEF Closing, Closes
<1>5. ASSUME NEW k \in DOMAIN inbox, inbox[k].op = "close"
      PROVE  \/ \A j \in 1 .. k - 1 : inbox'[j].op # "prepare"
             \/ /\ inbox[k].stmt \in DOMAIN stmts'
                /\ \A j \in 1 .. k - 1 :
                     inbox'[j].op # "reset_connection" /\ ~Closes(inbox'[j], inbox[k].stmt)
  <2>1. \A j \in 1 .. k - 1 : j \in DOMAIN inbox /\ inbox'[j] = inbox[j]
    BY <1>2
  <2> QED
    BY <1>1, <1>5, <2>1 DEF CloseNamesOne
<1>6. CASE c.op # "close"
  <2>1. client_stmts' = client_stmts
    BY <1>6 DEF ClientSends
  <2>2. StatementsTold'
    BY <1>1, <1>4, <1>6, <2>1 DEF StatementsTold, WillUse, Allots, Resets, Closes
  <2>3. CloseNamesOne'
    <3>1. SUFFICES ASSUME NEW k \in DOMAIN inbox', inbox'[k].op = "close"
                   PROVE  k \in DOMAIN inbox /\ inbox'[k] = inbox[k]
      BY <1>5 DEF CloseNamesOne, Closes
    <3> QED
      BY <1>2, <1>6, <3>1
  <2> QED
    BY <1>3, <2>2, <2>3
<1>7. CASE c.op = "close"
  <2> DEFINE a == c.stmt
  <2>1. a \in StmtId /\ client_stmts' = client_stmts \ {a}
    BY <1>7, CommandFields DEF ClientSends
  <2>2. \/ ~Outstanding("prepare")
        \/ a \in client_stmts /\ ~Outstanding("reset_connection")
    BY <1>7 DEF ClientSends
  (* Nothing in the outbox will give it back to the client.                *)
  <2>3. ASSUME NEW i \in DOMAIN outbox, Allots(outbox[i], a)
        PROVE  \E j \in DOMAIN outbox : j > i /\ Resets(outbox[j])
    <3>1. CASE ~Outstanding("prepare")
      BY <1>1, <2>3, <3>1, NotOutstanding DEF PrepareOkToPrepare, Allots
    <3>2. CASE a \in client_stmts /\ ~Outstanding("reset_connection")
      <4>1. \A j \in DOMAIN outbox : ~Resets(outbox[j])
        BY <1>1, <3>2, NotOutstanding DEF Resets
      <4> QED
        BY <2>1, <2>3, <3>2, <4>1 DEF AllottedOnce
    <3> QED
      BY <2>2, <3>1, <3>2
  <2>4. ~WillUse(a)'
    BY <1>1, <2>1, <2>3 DEF WillUse, Allots, Resets
  <2>5. Closing(a)' /\ \A id : id # a => (Closing(id)' <=> Closing(id))
    BY <1>4, <1>7 DEF Closes
  <2>6. \A id : id # a => (WillUse(id)' <=> WillUse(id))
    BY <1>1, <2>1 DEF WillUse, Allots, Resets
  <2>7. StatementsTold'
    BY <1>1, <2>4, <2>5, <2>6 DEF StatementsTold
  <2>8. \/ \A j \in DOMAIN inbox : inbox[j].op # "prepare"
        \/ /\ a \in DOMAIN stmts
           /\ \A j \in DOMAIN inbox : inbox[j].op # "reset_connection" /\ ~Closes(inbox[j], a)
    <3>1. CASE ~Outstanding("prepare")
      BY <1>1, <3>1, NotOutstanding
    <3>2. CASE a \in client_stmts /\ ~Outstanding("reset_connection")
      <4>1. /\ \A j \in DOMAIN outbox : ~Resets(outbox[j])
            /\ \A j \in DOMAIN inbox : inbox[j].op # "reset_connection"
        BY <1>1, <3>2, NotOutstanding DEF Resets
      <4>2. WillUse(a)
        BY <3>2, <4>1 DEF WillUse
      <4> QED
        BY <2>1, <4>1, <4>2 DEF StatementsTold, Closing
    <3> QED
      BY <2>2, <3>1, <3>2
  <2>9. CloseNamesOne'
    <3>1. SUFFICES ASSUME NEW k \in DOMAIN inbox', inbox'[k].op = "close"
                   PROVE  \/ \A j \in 1 .. k - 1 : inbox'[j].op # "prepare"
                          \/ /\ inbox'[k].stmt \in DOMAIN stmts'
                             /\ \A j \in 1 .. k - 1 : /\ inbox'[j].op # "reset_connection"
                                                      /\ ~Closes(inbox'[j], inbox'[k].stmt)
      BY DEF CloseNamesOne, Closes
    <3>2. CASE k \in DOMAIN inbox
      BY <1>2, <1>5, <3>1, <3>2
    <3>3. CASE k = Len(inbox) + 1
      <4>1. \A j \in 1 .. k - 1 : j \in DOMAIN inbox /\ inbox'[j] = inbox[j]
        BY <1>2, <3>3
      <4>2. inbox'[k].stmt = a
        BY <1>2, <3>3
      <4> QED
        BY <1>1, <2>8, <4>1, <4>2
    <3> QED
      BY <1>2, <3>2, <3>3
  <2> QED
    BY <1>3, <2>7, <2>9
<1> QED
  BY <1>6, <1>7

LEMMA ReadKeepsStatementView ==
  ASSUME TypeOK, RepliesInOrder, StatementViewInv, ClientReads
  PROVE  StatementViewInv'
<1> USE DEF StatementViewInv
<1> DEFINE r == outbox[1]
<1>1. outbox # <<>> /\ outbox' = Tail(outbox) /\ UNCHANGED <<inbox, stmts>>
  BY DEF ClientReads, server
<1>2. /\ 1 \in DOMAIN outbox /\ Head(outbox) = r /\ DOMAIN outbox \subseteq Nat \ {0}
      /\ \A i \in DOMAIN outbox' : i + 1 \in DOMAIN outbox /\ outbox'[i] = outbox[i + 1]
      /\ \A i \in DOMAIN outbox : i # 1 => i - 1 \in DOMAIN outbox' /\ outbox'[i - 1] = outbox[i]
  BY <1>1, OutboxRead, SequenceTypes
<1>3. DOMAIN outbox' \subseteq Nat \ {0}
  <2>1. outbox' \in Seq(Reply)
    BY <1>1, SequenceTypes
  <2> QED
    BY <2>1
<1>4. client_stmts' = IF r.kind = "PREPARE_OK" THEN client_stmts \cup {r.stmt}
                      ELSE IF Resets(r) THEN {} ELSE client_stmts
  <2>1. Head(awaiting) = r.to
    BY <1>1, FirstAwaited
  <2>2. r.kind = "PREPARE_OK" => r.to.op = "prepare"
    BY <1>2 DEF PrepareOkToPrepare
  <2> QED
    BY <1>2, <2>1, <2>2 DEF ClientReads, Resets
<1>5. PrepareOkToPrepare'
  BY <1>2 DEF PrepareOkToPrepare
<1>6. CloseNamesOne'
  BY <1>1 DEF CloseNamesOne, Closes
<1> HIDE DEF r
<1>7. Allots(r, r.stmt) <=> r.kind = "PREPARE_OK"
  BY DEF Allots
<1>8. ASSUME NEW id \in StmtId PROVE WillUse(id)' <=> WillUse(id)
  <2>1. ASSUME WillUse(id)' PROVE WillUse(id)
    <3>1. CASE id \in client_stmts' /\ \A j \in DOMAIN outbox' : ~Resets(outbox'[j])
      <4>1. \A j \in DOMAIN outbox : j > 1 => ~Resets(outbox[j])
        BY <1>2, <3>1
      <4>2. CASE Allots(r, id)
        BY <1>2, <4>1, <4>2 DEF WillUse, r
      <4>3. CASE ~Allots(r, id)
        <5>1. id \in client_stmts /\ ~Resets(r)
          BY <1>4, <3>1, <4>3 DEF Allots, Resets
        <5> QED
          BY <1>2, <4>1, <5>1 DEF WillUse, r
      <4> QED
        BY <4>2, <4>3
    <3>2. CASE \E i \in DOMAIN outbox' :
                 /\ Allots(outbox'[i], id)
                 /\ \A j \in DOMAIN outbox' : j > i => ~Resets(outbox'[j])
      <4>1. PICK i \in DOMAIN outbox' :
                 /\ Allots(outbox'[i], id)
                 /\ \A j \in DOMAIN outbox' : j > i => ~Resets(outbox'[j])
        BY <3>2
      <4>2. i + 1 \in DOMAIN outbox /\ Allots(outbox[i + 1], id)
        BY <1>2, <4>1
      <4>3. ASSUME NEW j \in DOMAIN outbox, j > i + 1 PROVE ~Resets(outbox[j])
        <5>1. j - 1 \in DOMAIN outbox' /\ j - 1 > i /\ outbox'[j - 1] = outbox[j]
          BY <1>2, <1>3, <4>3
        <5> QED
          BY <4>1, <5>1
      <4> QED
        BY <4>2, <4>3 DEF WillUse
    <3> QED
      BY <2>1, <3>1, <3>2 DEF WillUse, Allots, Resets
  <2>2. ASSUME WillUse(id) PROVE WillUse(id)'
    <3>1. CASE id \in client_stmts /\ \A j \in DOMAIN outbox : ~Resets(outbox[j])
      <4>1. id \in client_stmts' /\ \A j \in DOMAIN outbox' : ~Resets(outbox'[j])
        BY <1>2, <1>4, <3>1 DEF r
      <4> QED
        BY <4>1 DEF WillUse, Resets
    <3>2. CASE \E i \in DOMAIN outbox :
                 /\ Allots(outbox[i], id)
                 /\ \A j \in DOMAIN outbox : j > i => ~Resets(outbox[j])
      <4>1. PICK i \in DOMAIN outbox :
                 /\ Allots(outbox[i], id)
                 /\ \A j \in DOMAIN outbox : j > i => ~Resets(outbox[j])
        BY <3>2
      <4>2. ASSUME NEW j \in DOMAIN outbox', j + 1 > i PROVE ~Resets(outbox'[j])
        BY <1>2, <4>1, <4>2
      <4>3. CASE i = 1
        <5>1. id \in client_stmts'
          BY <1>4, <4>1, <4>3 DEF Allots, r
        <5>2. \A j \in DOMAIN outbox' : ~Resets(outbox'[j])
          BY <1>3, <4>2, <4>3
        <5> QED
          BY <5>1, <5>2 DEF WillUse, Resets
      <4>4. CASE i # 1
        <5>1. i - 1 \in DOMAIN outbox' /\ Allots(outbox'[i - 1], id)
          BY <1>2, <4>1, <4>4
        <5>2. \A j \in DOMAIN outbox' : j > i - 1 => ~Resets(outbox'[j])
          BY <1>2, <1>3, <4>2
        <5> QED
          BY <5>1, <5>2 DEF WillUse, Allots, Resets
      <4> QED
        BY <4>3, <4>4
    <3> QED
      BY <2>2, <3>1, <3>2 DEF WillUse
  <2> QED
    BY <2>1, <2>2
<1>9. StatementsTold'
  <2>1. \A id : Closing(id)' <=> Closing(id)
    BY <1>1 DEF Closing, Closes
  <2> QED
    BY <1>1, <1>8, <2>1 DEF StatementsTold
<1>10. AllottedOnce'
  <2>1. SUFFICES ASSUME NEW i \in DOMAIN outbox', NEW id \in StmtId, Allots(outbox'[i], id)
                 PROVE  /\ id \in client_stmts' =>
                             \E j \in DOMAIN outbox' : j < i /\ Resets(outbox'[j])
                        /\ \A h \in DOMAIN outbox' : h < i /\ Allots(outbox'[h], id) =>
                             \E j \in DOMAIN outbox' : h < j /\ j < i /\ Resets(outbox'[j])
    BY DEF AllottedOnce, Allots, Resets
  <2>2. i + 1 \in DOMAIN outbox /\ Allots(outbox[i + 1], id)
    BY <1>2, <2>1
  (* A reset before reply i + 1 and behind reply h, when seen from the new *)
  (* outbox.                                                               *)
  <2>3. ASSUME NEW j \in DOMAIN outbox, j # 1, j < i + 1, Resets(outbox[j])
        PROVE  j - 1 \in DOMAIN outbox' /\ j - 1 < i /\ Resets(outbox'[j - 1])
    BY <1>2, <1>3, <2>3
  <2>4. ASSUME id \in client_stmts' PROVE \E j \in DOMAIN outbox' : j < i /\ Resets(outbox'[j])
    <3>1. CASE Allots(r, id)
      <4>1. PICK j \in DOMAIN outbox : 1 < j /\ j < i + 1 /\ Resets(outbox[j])
        <5>1. 1 < i + 1
          BY <1>3
        <5> QED
          BY <1>2, <2>2, <3>1, <5>1 DEF AllottedOnce, r
      <4> QED
        BY <1>2, <2>3, <4>1
    <3>2. CASE ~Allots(r, id)
      <4>1. id \in client_stmts /\ ~Resets(r)
        BY <1>4, <2>4, <3>2 DEF Allots, Resets
      <4>2. PICK j \in DOMAIN outbox : j < i + 1 /\ Resets(outbox[j])
        BY <2>2, <4>1 DEF AllottedOnce
      <4>3. j # 1
        BY <4>1, <4>2 DEF r
      <4> QED
        BY <2>3, <4>2, <4>3
    <3> QED
      BY <3>1, <3>2
  <2>5. ASSUME NEW h \in DOMAIN outbox', h < i, Allots(outbox'[h], id)
        PROVE  \E j \in DOMAIN outbox' : h < j /\ j < i /\ Resets(outbox'[j])
    <3>1. h + 1 \in DOMAIN outbox /\ h + 1 < i + 1 /\ Allots(outbox[h + 1], id)
      BY <1>2, <1>3, <2>5
    <3>2. PICK j \in DOMAIN outbox : h + 1 < j /\ j < i + 1 /\ Resets(outbox[j])
      BY <2>2, <3>1 DEF AllottedOnce
    <3>3. j # 1 /\ h < j - 1
      BY <1>2, <1>3, <3>2
    <3> QED
      BY <2>3, <3>2, <3>3
  <2> QED
    BY <2>4, <2>5
<1> QED
  BY <1>5, <1>6, <1>9, <1>10

(* The next command leaves the pipeline.                                   *)
LEMMA CloseNamesOneReceived ==
  ASSUME TypeOK, CloseNamesOne, NEW c, Receives(c),
         \A id \in DOMAIN stmts \ DOMAIN stmts' :
           c.op = "reset_connection" \/ Closes(c, id)
  PROVE  CloseNamesOne'
<1>1. /\ inbox[1] = c
      /\ DOMAIN inbox = 1 .. Len(inbox) /\ DOMAIN inbox' = 1 .. Len(inbox) - 1
      /\ Len(inbox) \in Nat \ {0}
      /\ \A k \in DOMAIN inbox' : inbox'[k] = inbox[k + 1]
  BY InboxReceived
<1>2. SUFFICES ASSUME NEW k \in DOMAIN inbox', inbox'[k].op = "close"
               PROVE  \/ \A j \in 1 .. k - 1 : inbox'[j].op # "prepare"
                      \/ /\ inbox'[k].stmt \in DOMAIN stmts'
                         /\ \A j \in 1 .. k - 1 : /\ inbox'[j].op # "reset_connection"
                                                  /\ ~Closes(inbox'[j], inbox'[k].stmt)
  BY DEF CloseNamesOne, Closes
<1>3. k + 1 \in DOMAIN inbox /\ inbox'[k] = inbox[k + 1] /\ 1 \in 1 .. (k + 1) - 1
  BY <1>1
<1>4. \A j \in 1 .. k - 1 : j + 1 \in 1 .. (k + 1) - 1 /\ inbox'[j] = inbox[j + 1]
  BY <1>1
<1> DEFINE a == inbox[k + 1].stmt
<1>5. \/ \A j \in 1 .. (k + 1) - 1 : inbox[j].op # "prepare"
      \/ /\ a \in DOMAIN stmts
         /\ \A j \in 1 .. (k + 1) - 1 : inbox[j].op # "reset_connection" /\ ~Closes(inbox[j], a)
  BY <1>2, <1>3 DEF CloseNamesOne
<1>6. CASE \A j \in 1 .. (k + 1) - 1 : inbox[j].op # "prepare"
  BY <1>4, <1>6
<1>7. CASE /\ a \in DOMAIN stmts
           /\ \A j \in 1 .. (k + 1) - 1 : inbox[j].op # "reset_connection" /\ ~Closes(inbox[j], a)
  <2>1. a \in DOMAIN stmts'
    BY <1>1, <1>3, <1>7
  <2> QED
    BY <1>3, <1>4, <1>7, <2>1
<1> QED
  BY <1>5, <1>6, <1>7

(* The close of a statement is received: the client closed it long ago.    *)
LEMMA ClosingReceived ==
  ASSUME TypeOK, NEW c, Receives(c), NEW id
  PROVE  Closing(id) <=> Closing(id)' \/ Closes(c, id)
<1>1. /\ inbox[1] = c /\ Len(inbox) \in Nat \ {0}
      /\ DOMAIN inbox = 1 .. Len(inbox) /\ DOMAIN inbox' = 1 .. Len(inbox) - 1
      /\ \A k \in DOMAIN inbox' : inbox'[k] = inbox[k + 1]
  BY InboxReceived
<1>2. ASSUME Closing(id) PROVE Closing(id)' \/ Closes(c, id)
  <2>1. PICK k \in DOMAIN inbox : Closes(inbox[k], id)
    BY <1>2 DEF Closing
  <2>2. CASE k = 1
    BY <1>1, <2>1, <2>2
  <2>3. CASE k # 1
    <3>1. k - 1 \in DOMAIN inbox' /\ inbox'[k - 1] = inbox[k]
      BY <1>1, <2>3
    <3> QED
      BY <2>1, <3>1 DEF Closing, Closes
  <2> QED
    BY <2>2, <2>3
<1>3. ASSUME Closing(id)' PROVE Closing(id)
  <2>1. PICK k \in DOMAIN inbox' : Closes(inbox'[k], id)
    BY <1>3 DEF Closing, Closes
  <2>2. k + 1 \in DOMAIN inbox /\ Closes(inbox[k + 1], id)
    BY <1>1, <2>1
  <2> QED
    BY <2>2 DEF Closing
<1>4. Closes(c, id) => Closing(id)
  BY <1>1 DEF Closing
<1> QED
  BY <1>2, <1>3, <1>4

(* What the client will use once it has read one reply more.               *)
LEMMA WillUseWritten ==
  ASSUME TypeOK, NEW r \in Reply, outbox' = Append(outbox, r), UNCHANGED client, NEW id
  PROVE  WillUse(id)' <=> (~Resets(r) /\ WillUse(id)) \/ Allots(r, id)
<1>1. /\ Len(outbox) \in Nat
      /\ DOMAIN outbox = 1 .. Len(outbox) /\ DOMAIN outbox' = 1 .. Len(outbox) + 1
      /\ outbox'[Len(outbox) + 1] = r
      /\ \A i \in DOMAIN outbox : outbox'[i] = outbox[i]
  BY OutboxWritten
<1>2. Allots(r, id) => ~Resets(r)
  BY DEF Allots, Resets
<1>3. ASSUME WillUse(id)' PROVE (~Resets(r) /\ WillUse(id)) \/ Allots(r, id)
  <2>1. CASE id \in client_stmts' /\ \A j \in DOMAIN outbox' : ~Resets(outbox'[j])
    BY <1>1, <2>1 DEF WillUse, client
  <2>2. CASE \E i \in DOMAIN outbox' :
               /\ Allots(outbox'[i], id)
               /\ \A j \in DOMAIN outbox' : j > i => ~Resets(outbox'[j])
    <3>1. PICK i \in DOMAIN outbox' :
               /\ Allots(outbox'[i], id)
               /\ \A j \in DOMAIN outbox' : j > i => ~Resets(outbox'[j])
      BY <2>2
    <3>2. CASE i = Len(outbox) + 1
      BY <1>1, <3>1, <3>2
    <3>3. CASE i # Len(outbox) + 1
      <4>1. i \in DOMAIN outbox /\ Allots(outbox[i], id) /\ ~Resets(r)
        BY <1>1, <3>1, <3>3
      <4>2. \A j \in DOMAIN outbox : j > i => ~Resets(outbox[j])
        BY <1>1, <3>1
      <4> QED
        BY <4>1, <4>2 DEF WillUse
    <3> QED
      BY <3>2, <3>3
  <2> QED
    BY <1>3, <2>1, <2>2 DEF WillUse, Allots, Resets
<1>4. ASSUME ~Resets(r), WillUse(id) PROVE WillUse(id)'
  <2>1. CASE id \in client_stmts /\ \A j \in DOMAIN outbox : ~Resets(outbox[j])
    <3>1. \A j \in DOMAIN outbox' : ~Resets(outbox'[j])
      BY <1>1, <1>4, <2>1
    <3> QED
      BY <2>1, <3>1 DEF WillUse, Resets, client
  <2>2. CASE \E i \in DOMAIN outbox :
               /\ Allots(outbox[i], id)
               /\ \A j \in DOMAIN outbox : j > i => ~Resets(outbox[j])
    <3>1. PICK i \in DOMAIN outbox :
               /\ Allots(outbox[i], id)
               /\ \A j \in DOMAIN outbox : j > i => ~Resets(outbox[j])
      BY <2>2
    <3>2. i \in DOMAIN outbox' /\ Allots(outbox'[i], id)
      BY <1>1, <3>1
    <3>3. \A j \in DOMAIN outbox' : j > i => ~Resets(outbox'[j])
      BY <1>1, <1>4, <3>1
    <3> QED
      BY <3>2, <3>3 DEF WillUse, Allots, Resets
  <2> QED
    BY <1>4, <2>1, <2>2 DEF WillUse
<1>5. ASSUME Allots(r, id) PROVE WillUse(id)'
  <2> DEFINE n == Len(outbox) + 1
  <2>1. n \in DOMAIN outbox' /\ Allots(outbox'[n], id)
    BY <1>1, <1>5
  <2>2. \A j \in DOMAIN outbox' : ~(j > n)
    BY <1>1
  <2> HIDE DEF n
  <2> QED
    BY <2>1, <2>2 DEF WillUse, Allots, Resets
<1> QED
  BY <1>3, <1>4, <1>5

LEMMA ToldKeepsStatementView ==
  ASSUME TypeOK, StatementViewInv, NEW c \in ClientCommand, Receives(c), UNCHANGED client,
         NEW r, Told(c, r)
  PROVE  StatementViewInv'
<1> USE DEF StatementViewInv
<1>1. /\ Len(outbox) \in Nat
      /\ DOMAIN outbox = 1 .. Len(outbox) /\ DOMAIN outbox' = 1 .. Len(outbox) + 1
      /\ outbox'[Len(outbox) + 1] = r
      /\ \A i \in DOMAIN outbox : outbox'[i] = outbox[i]
  BY OutboxWritten DEF Told
<1>2. /\ r.to = c /\ NeedsReply(c) /\ UNCHANGED client_stmts
      /\ r.kind = "PREPARE_OK" => c.op = "prepare"
      /\ Resets(r) => c.op = "reset_connection"
      /\ r.kind = "PREPARE_OK" => ~Resets(r)
  BY DEF Told, client, Resets
<1>3. \A id : Closing(id)' <=> Closing(id)
  BY <1>2, ClosingReceived DEF NeedsReply, Closes
<1>4. \A id : WillUse(id)' <=> (~Resets(r) /\ WillUse(id)) \/ Allots(r, id)
  BY WillUseWritten DEF Told
<1>5. CloseNamesOne'
  <2>1. \A id \in DOMAIN stmts \ DOMAIN stmts' : c.op = "reset_connection"
    BY <1>2 DEF Told
  <2> QED
    BY <2>1, CloseNamesOneReceived
<1>6. PrepareOkToPrepare'
  <2>1. SUFFICES ASSUME NEW i \in DOMAIN outbox', outbox'[i].kind = "PREPARE_OK"
                 PROVE  outbox'[i].to.op = "prepare"
    BY DEF PrepareOkToPrepare
  <2>2. i = Len(outbox) + 1 \/ i \in DOMAIN outbox
    BY <1>1
  <2> QED
    BY <1>1, <1>2, <2>1, <2>2 DEF PrepareOkToPrepare
(* A prepared statement is new: the client neither uses nor closes its id. *)
<1>7. ASSUME NEW a \in StmtId, Allots(r, a)
      PROVE  ~WillUse(a) /\ ~Closing(a) /\ DOMAIN stmts' = DOMAIN stmts \cup {a}
  <2>1. c.op = "prepare" /\ a \notin DOMAIN stmts /\ DOMAIN stmts' = DOMAIN stmts \cup {a}
    BY <1>7 DEF Told, Allots
  <2>2. ASSUME NEW k \in DOMAIN inbox, Closes(inbox[k], a) PROVE FALSE
    <3>1. inbox[1] = c /\ DOMAIN inbox = 1 .. Len(inbox) /\ Len(inbox) \in Nat
      BY InboxReceived
    <3>2. k # 1 /\ 1 \in 1 .. k - 1
      BY <2>1, <2>2, <3>1 DEF Closes
    <3> QED
      BY <2>1, <2>2, <3>1, <3>2 DEF CloseNamesOne, Closes
  <2> QED
    BY <2>1, <2>2 DEF StatementsTold, Closing
<1>8. StatementsTold'
  <2>1. SUFFICES ASSUME NEW id \in StmtId
                 PROVE  WillUse(id)' <=> id \in DOMAIN stmts' /\ ~Closing(id)'
    BY DEF StatementsTold
  <2>2. CASE r.kind = "PREPARE_OK"
    <3>1. r.stmt \in StmtId /\ Allots(r, r.stmt)
      BY <2>2 DEF Told, Reply, Allots
    <3> QED
      BY <1>2, <1>3, <1>4, <1>7, <2>2, <3>1 DEF StatementsTold, Allots
  <2>3. CASE r.kind # "PREPARE_OK"
    BY <1>3, <1>4, <2>3 DEF StatementsTold, Allots, Told
  <2> QED
    BY <2>2, <2>3
<1>9. AllottedOnce'
  <2>1. SUFFICES ASSUME NEW i \in DOMAIN outbox', NEW id \in StmtId, Allots(outbox'[i], id)
                 PROVE  /\ id \in client_stmts =>
                             \E j \in DOMAIN outbox' : j < i /\ Resets(outbox'[j])
                        /\ \A h \in DOMAIN outbox' : h < i /\ Allots(outbox'[h], id) =>
                             \E j \in DOMAIN outbox' : h < j /\ j < i /\ Resets(outbox'[j])
    BY <1>2 DEF AllottedOnce, Allots, Resets
  <2>2. CASE i \in DOMAIN outbox
    BY <1>1, <2>1, <2>2 DEF AllottedOnce
  <2>3. CASE i = Len(outbox) + 1
    <3>1. ~WillUse(id)
      BY <1>1, <1>7, <2>1, <2>3
    <3>2. id \in client_stmts => \E j \in DOMAIN outbox : Resets(outbox[j])
      BY <3>1 DEF WillUse
    <3>3. ASSUME NEW h \in DOMAIN outbox', h < i, Allots(outbox'[h], id)
          PROVE  \E j \in DOMAIN outbox : h < j /\ Resets(outbox[j])
      <4>1. h \in DOMAIN outbox /\ Allots(outbox[h], id)
        BY <1>1, <2>3, <3>3
      <4> QED
        BY <3>1, <4>1 DEF WillUse
    <3>4. \A j \in DOMAIN outbox : j \in DOMAIN outbox' /\ j < i /\ outbox'[j] = outbox[j]
      BY <1>1, <2>3
    <3> QED
      BY <3>2, <3>3, <3>4
  <2> QED
    BY <1>1, <2>2, <2>3
<1> QED
  BY <1>5, <1>6, <1>8, <1>9

LEMMA SilentKeepsStatementView ==
  ASSUME TypeOK, StatementViewInv, NEW c \in ClientCommand, Receives(c), UNCHANGED client,
         Silent(c)
  PROVE  StatementViewInv'
<1> USE DEF StatementViewInv
<1>1. outbox' = outbox /\ client_stmts' = client_stmts
  BY DEF Silent, client
<1>2. AllottedOnce' /\ PrepareOkToPrepare'
  BY <1>1 DEF AllottedOnce, PrepareOkToPrepare, Allots, Resets
<1>3. \A id : WillUse(id)' <=> WillUse(id)
  BY <1>1 DEF WillUse, Allots, Resets
<1>4. \A id : Closing(id) <=> Closing(id)' \/ Closes(c, id)
  BY ClosingReceived
<1>5. CloseNamesOne'
  BY CloseNamesOneReceived DEF Silent, Closes
<1>6. StatementsTold'
  <2>1. SUFFICES ASSUME NEW id \in StmtId
                 PROVE  WillUse(id)' <=> id \in DOMAIN stmts' /\ ~Closing(id)'
    BY DEF StatementsTold
  <2>2. CASE Closes(c, id)
    <3>1. ~WillUse(id) /\ id \notin DOMAIN stmts'
      BY <1>4, <2>2 DEF StatementsTold, Silent, Closes
    <3> QED
      BY <1>3, <3>1
  <2>3. CASE ~Closes(c, id)
    <3>1. id \in DOMAIN stmts' <=> id \in DOMAIN stmts
      BY <2>3 DEF Silent, Closes
    <3> QED
      BY <1>3, <1>4, <2>3, <3>1 DEF StatementsTold
  <2> QED
    BY <2>2, <2>3
<1> QED
  BY <1>2, <1>5, <1>6

-----------------------------------------------------------------------------
(* The cursors.                                                            *)

LEMMA SendKeepsCursorsTold ==
  ASSUME CursorsTold, NEW c \in ClientCommand, ClientSends(c)
  PROVE  CursorsTold'
<1>1. UNCHANGED <<outbox, stmts>> /\ client_stmts' \subseteq client_stmts
  BY DEF ClientSends, server
<1>2. \A id \in client_cursors' : id \in client_cursors /\ (id \in client_stmts => id \in client_stmts')
  BY DEF ClientSends
<1>3. \A i, id : UsesAt(i, id)' => UsesAt(i, id)
  BY <1>1 DEF UsesAt, Allots, Resets
<1> QED
  BY <1>1, <1>2, <1>3 DEF CursorsTold, OpensCursor, EndsCursor, Resets, ServerCursors

LEMMA ReadKeepsCursorsTold ==
  ASSUME TypeOK, RepliesInOrder, PrepareOkToPrepare, CursorsTold, ClientReads
  PROVE  CursorsTold'
<1> DEFINE r == outbox[1]
<1>1. outbox # <<>> /\ outbox' = Tail(outbox) /\ UNCHANGED stmts
  BY DEF ClientReads, server
<1>2. /\ 1 \in DOMAIN outbox /\ Head(outbox) = r /\ DOMAIN outbox \subseteq Nat \ {0}
      /\ \A i \in DOMAIN outbox' : i + 1 \in DOMAIN outbox /\ outbox'[i] = outbox[i + 1]
      /\ \A i \in DOMAIN outbox : i # 1 => i - 1 \in DOMAIN outbox' /\ outbox'[i - 1] = outbox[i]
  BY <1>1, OutboxRead, SequenceTypes
<1>3. DOMAIN outbox' \subseteq Nat \ {0}
  <2>1. outbox' \in Seq(Reply)
    BY <1>1, SequenceTypes
  <2> QED
    BY <2>1
<1>4. Head(awaiting) = r.to
  BY <1>1, FirstAwaited
<1>5. client_stmts' = IF r.kind = "PREPARE_OK" THEN client_stmts \cup {r.stmt}
                      ELSE IF Resets(r) THEN {} ELSE client_stmts
  <2>1. r.kind = "PREPARE_OK" => r.to.op = "prepare"
    BY <1>2 DEF PrepareOkToPrepare
  <2> QED
    BY <1>2, <1>4, <2>1 DEF ClientReads, Resets
<1>6. /\ Resets(r) => client_cursors' = {}
      /\ \A id \in client_cursors' :
           \/ id \in client_cursors /\ ~EndsCursor(r, id)
           \/ id \in client_stmts /\ OpensCursor(r, id)
  BY <1>2, <1>4 DEF ClientReads, Resets, OpensCursor, EndsCursor
<1>7. ServerCursors' = ServerCursors
  BY <1>1 DEF ServerCursors
<1> HIDE DEF r
<1>8. ASSUME NEW id \in StmtId, id \in client_cursors'
      PROVE  /\ id \in client_stmts'
             /\ (\A j \in DOMAIN outbox' : ~EndsCursor(outbox'[j], id)) => id \in ServerCursors
  <2>1. id \in client_stmts
    BY <1>6, <1>8 DEF CursorsTold
  <2>2. id \in client_stmts'
    BY <1>5, <1>6, <1>8, <2>1
  <2>3. ASSUME \A j \in DOMAIN outbox' : ~EndsCursor(outbox'[j], id) PROVE id \in ServerCursors
    <3>1. \A j \in DOMAIN outbox : j # 1 => ~EndsCursor(outbox[j], id)
      BY <1>2, <2>3
    <3>2. CASE id \in client_cursors /\ ~EndsCursor(r, id)
      BY <1>2, <3>1, <3>2 DEF CursorsTold, r
    <3>3. CASE OpensCursor(r, id)
      <4>1. UsesAt(1, id)
        BY <1>2, <2>1 DEF UsesAt
      <4>2. \A j \in DOMAIN outbox : j > 1 => ~EndsCursor(outbox[j], id)
        BY <3>1
      <4> QED
        BY <1>2, <3>3, <4>1, <4>2 DEF CursorsTold, r
    <3> QED
      BY <1>6, <1>8, <3>2, <3>3
  <2> QED
    BY <2>2, <2>3
<1>9. ASSUME NEW id \in StmtId, NEW i \in DOMAIN outbox', UsesAt(i, id)'
      PROVE  UsesAt(i + 1, id)
  <2>1. ASSUME NEW h \in Nat, \A j \in DOMAIN outbox' : h <= j /\ j < i => ~Resets(outbox'[j])
        PROVE  \A j \in DOMAIN outbox : h < j /\ j < i + 1 /\ j # 1 => ~Resets(outbox[j])
    <3>1. SUFFICES ASSUME NEW j \in DOMAIN outbox, h < j, j < i + 1, j # 1 PROVE ~Resets(outbox[j])
      OBVIOUS
    <3>2. j - 1 \in DOMAIN outbox' /\ h <= j - 1 /\ j - 1 < i /\ outbox'[j - 1] = outbox[j]
      BY <1>2, <1>3, <3>1
    <3> QED
      BY <2>1, <3>2
  <2>2. CASE id \in client_stmts' /\ \A j \in DOMAIN outbox' : j < i => ~Resets(outbox'[j])
    <3>1. \A j \in DOMAIN outbox : j < i + 1 /\ j # 1 => ~Resets(outbox[j])
      <4>1. \A j \in DOMAIN outbox : 0 < j
        BY <1>2
      <4> QED
        BY <2>1, <2>2, <4>1
    <3>2. CASE Allots(r, id)
      <4>1. 1 < i + 1 /\ \A j \in DOMAIN outbox : 1 < j => j # 1
        BY <1>3
      <4> QED
        BY <1>2, <3>1, <3>2, <4>1 DEF UsesAt, r
    <3>3. CASE ~Allots(r, id)
      <4>1. id \in client_stmts /\ ~Resets(r)
        BY <1>5, <2>2, <3>3 DEF Allots, Resets
      <4> QED
        BY <3>1, <4>1 DEF UsesAt, r
    <3> QED
      BY <3>2, <3>3
  <2>3. CASE \E h \in DOMAIN outbox' :
               /\ h < i /\ Allots(outbox'[h], id)
               /\ \A j \in DOMAIN outbox' : h < j /\ j < i => ~Resets(outbox'[j])
    <3>1. PICK h \in DOMAIN outbox' :
               /\ h < i /\ Allots(outbox'[h], id)
               /\ \A j \in DOMAIN outbox' : h < j /\ j < i => ~Resets(outbox'[j])
      BY <2>3
    <3>2. h + 1 \in DOMAIN outbox /\ h + 1 < i + 1 /\ Allots(outbox[h + 1], id) /\ h \in Nat
      BY <1>2, <1>3, <3>1
    <3>3. \A j \in DOMAIN outbox : h + 1 < j /\ j < i + 1 => ~Resets(outbox[j])
      <4>1. SUFFICES ASSUME NEW j \in DOMAIN outbox, h + 1 < j, j < i + 1 PROVE ~Resets(outbox[j])
        OBVIOUS
      <4>2. j - 1 \in DOMAIN outbox' /\ h < j - 1 /\ j - 1 < i /\ outbox'[j - 1] = outbox[j]
        BY <1>2, <1>3, <3>2, <4>1
      <4> QED
        BY <3>1, <4>2
    <3> QED
      BY <3>2, <3>3 DEF UsesAt
  <2> QED
    BY <1>9, <2>2, <2>3 DEF UsesAt, Allots, Resets
<1>10. ASSUME NEW id \in StmtId, NEW i \in DOMAIN outbox', OpensCursor(outbox'[i], id),
              UsesAt(i, id)', \A j \in DOMAIN outbox' : j > i => ~EndsCursor(outbox'[j], id)
       PROVE  id \in ServerCursors
  <2>1. i + 1 \in DOMAIN outbox /\ OpensCursor(outbox[i + 1], id) /\ UsesAt(i + 1, id)
    BY <1>2, <1>9, <1>10
  <2>2. ASSUME NEW j \in DOMAIN outbox, j > i + 1 PROVE ~EndsCursor(outbox[j], id)
    <3>1. j - 1 \in DOMAIN outbox' /\ j - 1 > i /\ outbox'[j - 1] = outbox[j]
      BY <1>2, <1>3, <2>2
    <3> QED
      BY <1>10, <3>1
  <2> QED
    BY <2>1, <2>2 DEF CursorsTold
<1> QED
  BY <1>7, <1>8, <1>10 DEF CursorsTold, OpensCursor, EndsCursor, Resets

LEMMA ToldKeepsCursorsTold ==
  ASSUME TypeOK, CursorsTold, NEW c, UNCHANGED client, NEW r, Told(c, r)
  PROVE  CursorsTold'
<1>1. /\ Len(outbox) \in Nat
      /\ DOMAIN outbox = 1 .. Len(outbox) /\ DOMAIN outbox' = 1 .. Len(outbox) + 1
      /\ outbox'[Len(outbox) + 1] = r
      /\ \A i \in DOMAIN outbox : outbox'[i] = outbox[i]
  BY OutboxWritten DEF Told
<1>2. UNCHANGED <<client_stmts, client_cursors>>
  BY DEF client
<1>3. /\ \A id \in ServerCursors \ ServerCursors' : EndsCursor(r, id)
      /\ \A id : OpensCursor(r, id) => id \in ServerCursors'
  BY DEF Told
<1>4. ASSUME NEW id \in StmtId, id \in client_cursors,
             \A j \in DOMAIN outbox' : ~EndsCursor(outbox'[j], id)
      PROVE  id \in ServerCursors'
  <2>1. ~EndsCursor(r, id) /\ \A j \in DOMAIN outbox : ~EndsCursor(outbox[j], id)
    BY <1>1, <1>4
  <2> QED
    BY <1>3, <1>4, <2>1 DEF CursorsTold
<1>5. ASSUME NEW id \in StmtId, NEW i \in DOMAIN outbox', OpensCursor(outbox'[i], id),
             UsesAt(i, id)', \A j \in DOMAIN outbox' : j > i => ~EndsCursor(outbox'[j], id)
      PROVE  id \in ServerCursors'
  <2>1. CASE i = Len(outbox) + 1
    BY <1>1, <1>3, <1>5, <2>1
  <2>2. CASE i \in DOMAIN outbox
    <3>1. UsesAt(i, id)
      <4>1. CASE id \in client_stmts' /\ \A j \in DOMAIN outbox' : j < i => ~Resets(outbox'[j])
        BY <1>1, <1>2, <4>1 DEF UsesAt
      <4>2. CASE \E h \in DOMAIN outbox' :
                   /\ h < i /\ Allots(outbox'[h], id)
                   /\ \A j \in DOMAIN outbox' : h < j /\ j < i => ~Resets(outbox'[j])
        <5>1. PICK h \in DOMAIN outbox' :
                   /\ h < i /\ Allots(outbox'[h], id)
                   /\ \A j \in DOMAIN outbox' : h < j /\ j < i => ~Resets(outbox'[j])
          BY <4>2
        <5>2. h \in DOMAIN outbox /\ Allots(outbox[h], id)
          BY <1>1, <2>2, <5>1
        <5>3. \A j \in DOMAIN outbox : h < j /\ j < i => ~Resets(outbox[j])
          BY <1>1, <5>1
        <5> QED
          BY <5>1, <5>2, <5>3 DEF UsesAt
      <4> QED
        BY <1>5, <4>1, <4>2 DEF UsesAt, Allots, Resets
    <3>2. /\ OpensCursor(outbox[i], id) /\ ~EndsCursor(r, id)
          /\ \A j \in DOMAIN outbox : j > i => ~EndsCursor(outbox[j], id)
      BY <1>1, <1>5, <2>2
    <3> QED
      BY <1>3, <2>2, <3>1, <3>2 DEF CursorsTold
  <2> QED
    BY <1>1, <2>1, <2>2
<1> QED
  BY <1>2, <1>4, <1>5 DEF CursorsTold, OpensCursor, EndsCursor, Resets

LEMMA SilentKeepsCursorsTold ==
  ASSUME TypeOK, StatementsTold, CursorsTold, NEW c \in ClientCommand, Receives(c),
         UNCHANGED client, Silent(c)
  PROVE  CursorsTold'
<1>1. UNCHANGED <<outbox, client_stmts, client_cursors>>
  BY DEF Silent, client
<1>2. \A i, id : UsesAt(i, id)' <=> UsesAt(i, id)
  BY <1>1 DEF UsesAt, Allots, Resets
<1>3. CASE ServerCursors' = ServerCursors
  BY <1>1, <1>2, <1>3 DEF CursorsTold, OpensCursor, EndsCursor, Resets
<1>4. CASE c.op = "close" /\ ServerCursors' = ServerCursors \ {c.stmt}
  <2> DEFINE a == c.stmt
  <2>1. a \in StmtId /\ ~WillUse(a)
    <3>1. a \in StmtId /\ Closing(a)
      BY <1>4, CommandFields, ClosingReceived DEF Closes
    <3> QED
      BY <3>1 DEF StatementsTold
  <2>2. ASSUME a \in client_cursors PROVE \E j \in DOMAIN outbox : EndsCursor(outbox[j], a)
    BY <2>1, <2>2 DEF CursorsTold, WillUse, EndsCursor
  <2>3. ASSUME NEW i \in DOMAIN outbox, OpensCursor(outbox[i], a), UsesAt(i, a)
        PROVE  \E j \in DOMAIN outbox : j > i /\ EndsCursor(outbox[j], a)
    <3>1. i \in Nat /\ DOMAIN outbox \subseteq Nat
      BY SequenceTypes
    <3>2. ~Resets(outbox[i])
      BY <2>3 DEF OpensCursor, Resets
    <3>3. SUFFICES ASSUME \A j \in DOMAIN outbox : j > i => ~Resets(outbox[j]) PROVE FALSE
      BY DEF EndsCursor
    <3>4. \A j \in DOMAIN outbox : j < i \/ ~Resets(outbox[j])
      BY <3>1, <3>2, <3>3
    <3>5. CASE a \in client_stmts /\ \A j \in DOMAIN outbox : j < i => ~Resets(outbox[j])
      BY <2>1, <3>4, <3>5 DEF WillUse
    <3>6. CASE \E h \in DOMAIN outbox :
                 /\ h < i /\ Allots(outbox[h], a)
                 /\ \A j \in DOMAIN outbox : h < j /\ j < i => ~Resets(outbox[j])
      BY <2>1, <3>4, <3>6 DEF WillUse
    <3> QED
      BY <2>3, <3>5, <3>6 DEF UsesAt
  <2> QED
    BY <1>1, <1>2, <1>4, <2>2, <2>3 DEF CursorsTold, OpensCursor, EndsCursor, Resets
<1> QED
  BY <1>3, <1>4 DEF Silent

-----------------------------------------------------------------------------
(* The views.                                                              *)

LEMMA StepKeepsViews ==
  ASSUME TypeOK, RepliesInOrder, ViewsInv, [Next]_vars
  PROVE  ViewsInv'
<1>1. SUFFICES ASSUME conn' = "open"
               PROVE  StatusTold' /\ StatementViewInv' /\ CursorsTold'
  BY DEF ViewsInv, StatementViewInv
<1>2. conn = "open"
  <2>1. \A c : ViewEffect(c) => conn = "open"
    BY DEF ViewEffect, Receives
  <2> QED
    BY <1>1, <2>1, StepViewEffect DEF ClientSends, ClientReads, Ends, vars
<1>3. StatusTold /\ StatementViewInv /\ CursorsTold
  BY <1>2 DEF ViewsInv, StatementViewInv
<1>4. StatusTold'
  BY <1>1, <1>3, StepKeepsStatusTold
<1>5. ASSUME NEW c \in ClientCommand, ClientSends(c) PROVE StatementViewInv' /\ CursorsTold'
  BY <1>3, <1>5, SendKeepsStatementView, SendKeepsCursorsTold
<1>6. CASE ClientReads
  <2>1. PrepareOkToPrepare
    BY <1>3 DEF StatementViewInv
  <2>2. StatementViewInv'
    BY <1>3, <1>6, ReadKeepsStatementView
  <2>3. CursorsTold'
    BY <1>3, <1>6, <2>1, ReadKeepsCursorsTold
  <2> QED
    BY <1>4, <2>2, <2>3
<1>7. ASSUME NEW c \in ClientCommand, ViewEffect(c) PROVE StatementViewInv' /\ CursorsTold'
  <2>1. Receives(c) /\ UNCHANGED client /\ ((\E r : Told(c, r)) \/ Silent(c))
    BY <1>1, <1>7 DEF ViewEffect
  <2>2. ASSUME NEW r, Told(c, r) PROVE StatementViewInv' /\ CursorsTold'
    BY <1>3, <2>1, <2>2, ToldKeepsStatementView, ToldKeepsCursorsTold
  <2>3. CASE Silent(c)
    BY <1>3, <2>1, <2>3, SilentKeepsStatementView, SilentKeepsCursorsTold DEF StatementViewInv
  <2> QED
    BY <2>1, <2>2, <2>3
<1>8. CASE UNCHANGED vars
  <2>1. UNCHANGED <<inbox, outbox, stmts, client_stmts, client_cursors>>
    BY <1>8 DEF vars, server, client
  <2>2. StatementViewInv'
    BY <1>3, <2>1 DEF StatementViewInv, StatementsTold, CloseNamesOne, AllottedOnce,
                      PrepareOkToPrepare, WillUse, Closing, Closes, Allots, Resets
  <2>3. CursorsTold'
    BY <1>3, <2>1 DEF CursorsTold, UsesAt, ServerCursors, OpensCursor, EndsCursor, Allots, Resets
  <2> QED
    BY <1>4, <2>2, <2>3
<1> QED
  BY <1>1, <1>4, <1>5, <1>6, <1>7, <1>8, StepViewEffect DEF Ends

LEMMA InitViews == Init => ViewsInv
<1>1. SUFFICES ASSUME Init PROVE ViewsInv
  OBVIOUS
<1>2. /\ inbox = <<>> /\ outbox = <<>> /\ client_status = status_flags
      /\ DOMAIN stmts = {} /\ client_stmts = {} /\ client_cursors = {}
  BY <1>1 DEF Init
<1>3. DOMAIN inbox = {} /\ DOMAIN outbox = {}
  BY <1>2
<1> QED
  BY <1>2, <1>3 DEF ViewsInv, StatusTold, StatementsTold, WillUse, CloseNamesOne, AllottedOnce,
                    PrepareOkToPrepare, CursorsTold

(* The views agree with the server in flight: the inductive invariant.     *)
THEOREM ViewsInvariant == Spec => []ViewsInv
<1>1. Init => ViewsInv
  BY InitViews
<1>2. TypeOK /\ RepliesInOrder /\ ViewsInv /\ [Next]_vars => ViewsInv'
  BY StepKeepsViews
<1> QED
  BY <1>1, <1>2, TypeInvariant, RepliesComeInOrder, PTL DEF Spec

(* With nothing in flight, the client may use the statements of the server.*)
THEOREM StatementViewsAgree == Spec => []StatementViewAgrees
<1>1. TypeOK /\ ViewsInv => StatementViewAgrees
  <2>1. SUFFICES ASSUME TypeOK, ViewsInv, Quiescent PROVE client_stmts = DOMAIN stmts
    BY DEF StatementViewAgrees
  <2>2. DOMAIN inbox = {} /\ DOMAIN outbox = {} /\ StatementsTold
    BY <2>1 DEF Quiescent, ViewsInv
  <2>3. client_stmts \in SUBSET StmtId /\ DOMAIN stmts \in SUBSET StmtId
    BY <2>1 DEF TypeOK
  <2> QED
    BY <2>2, <2>3 DEF StatementsTold, WillUse, Closing
<1> QED
  BY <1>1, TypeInvariant, ViewsInvariant, PTL

(* ... and every cursor it was told of is one the server will fetch from.  *)
THEOREM CursorViewsAgree == Spec => []CursorViewAgrees
<1>1. TypeOK /\ ViewsInv => CursorViewAgrees
  <2>1. SUFFICES ASSUME TypeOK, ViewsInv, Quiescent PROVE client_cursors \subseteq ServerCursors
    BY DEF CursorViewAgrees
  <2>2. DOMAIN outbox = {} /\ CursorsTold
    BY <2>1 DEF Quiescent, ViewsInv
  <2>3. client_cursors \in SUBSET StmtId
    BY <2>1 DEF TypeOK
  <2> QED
    BY <2>2, <2>3 DEF CursorsTold
<1> QED
  BY <1>1, TypeInvariant, ViewsInvariant, PTL

(* ... and the status it last read, no ERR since, is the session's.        *)
THEOREM StatusViewsAgree == Spec => []StatusViewAgrees
<1>1. ViewsInv => StatusViewAgrees
  <2>1. SUFFICES ASSUME ViewsInv, Quiescent, status_known PROVE client_status = status_flags
    BY DEF StatusViewAgrees
  <2>2. DOMAIN outbox = {} /\ StatusTold
    BY <2>1 DEF Quiescent, ViewsInv
  <2> QED
    BY <2>1, <2>2 DEF StatusTold
<1> QED
  BY <1>1, ViewsInvariant, PTL

=============================================================================
