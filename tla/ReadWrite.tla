------------------------------ MODULE ReadWrite ------------------------------
(***************************************************************************)
(* Reads and writes of stateful functions on top of the intent step log:   *)
(* src/workloads/workflow/optimal/pkg/cayonlib/dblib.go.                   *)
(*                                                                         *)
(* With LoggingMode "write" (TYPE = WRITELOG) a write logs a PreWrite and  *)
(* a PostWrite step around a write to a fresh version of the key, and a    *)
(* read is log-free: it looks up, in the stream of the key, the last       *)
(* version published at or before its cursor env.SeqNum.  With LoggingMode *)
(* "read" (READLOG) a read logs its result in a PostRead step, and a write *)
(* is log-free: a conditional update of the single version of the key,     *)
(* ordered by the cursor.                                                  *)
(*                                                                         *)
(* The actions on the log are those of IntentLog; this module adds the     *)
(* database, the streams of the keys, and where each handler is in its     *)
(* program.  The database is outside the repository: an item update, with  *)
(* its condition, is one atomic step and reads are not stale.              *)
(***************************************************************************)
EXTENDS IntentLog, FiniteSets

CONSTANTS
  Key,       \* table and key
  Val,       \* values of the attribute V
  InitVal,   \* what Populate put in version 0 of every key
  Program,   \* Program[i]: the reads and writes the handler of i performs
  Mode       \* TYPE: "WRITELOG" or "READLOG"

\* dep marks the writes that TPLCommit and counters make with dependent = true.
OpType == [kind : {"read", "write"}, key : Key, val : Val \cup {None}, dep : BOOLEAN]

ASSUME InitValAssumption == InitVal \in Val
ASSUME ProgramAssumption == Program \in [Instance -> Seq(OpType)]
ASSUME WritesHaveValues ==
  \A i \in Instance : \A j \in DOMAIN Program[i] :
    Program[i][j].kind = "write" => Program[i][j].val \in Val
ASSUME ModeAssumption == Mode \in {"WRITELOG", "READLOG"}

VARIABLES
  item,      \* item[k]: the versions of k that have data, with their data
  version,   \* version[k]: the VERSION attribute of k_0, 0 when it is absent
  keyStream, \* keyStream[k]: the PostWrite entries tagged DatabaseKeyTag(k)
  op,        \* op[e]: the operation of its program e is in, and how far
  told       \* told[i][j]: what operation j of i ever returned to a handler

rwVars == <<logTail, stream, pc, env, fsm, seen, crashes,
            item, version, keyStream, op, told>>

\* The steps the operations log.  version is what PostWrite publishes.
LogData ==
  [type : {"PreWrite", "PostWrite"}, key : Key, version : Nat]
    \cup [type : {"PostRead"}, key : Key, result : Val \cup {None}]

PreWriteData(k) == [type |-> "PreWrite", key |-> k, version |-> 0]
PostWriteData(k, v) == [type |-> "PostWrite", key |-> k, version |-> v]
PostReadData(k, r) == [type |-> "PostRead", key |-> k, result |-> r]

-----------------------------------------------------------------------------
FirstOp == [idx |-> 1, at |-> "start", tmp |-> None, ver |-> 0]

RWInit ==
  /\ Init
  /\ item = [k \in Key |-> [v \in {0} |-> InitVal]]
  /\ version = [k \in Key |-> 0]
  /\ keyStream = [k \in Key |-> <<>>]
  /\ op = [e \in Executor |-> FirstOp]
  /\ told = [i \in Instance |-> [j \in 1 .. Len(Program[i]) |-> {}]]

dbVars == <<item, version, keyStream>>

\* The operation e is in, if it still has one to do.
Op(e) == Program[InstanceOf[e]][op[e].idx]

InOp(e, kind, at) ==
  /\ pc[e] = "run"
  /\ ~ Returns(e)
  /\ op[e].idx <= Len(Program[InstanceOf[e]])
  /\ Op(e).kind = kind
  /\ op[e].at = at

NextOp(e) == op' = [op EXCEPT ![e] = [FirstOp EXCEPT !.idx = op[e].idx + 1]]

Advance(e, at) == op' = [op EXCEPT ![e].at = at]

\* The operation returns result to the handler.  What a handler does with a
\* result after it lost a step is not an outcome of the instance.
Deliver(e, result) ==
  /\ NextOp(e)
  /\ told' = IF env'[e].exit THEN told
             ELSE [told EXCEPT ![InstanceOf[e]][op[e].idx] = @ \cup {result}]

\* The entry of the next step, if this execution replayed one.
IsLogged(e) == env[e].stepNumber \in DOMAIN fsm[e].stepLogs
NextLog(e) == fsm[e].stepLogs[env[e].stepNumber].data

\* CheckLogDataField and checkPostReadLog.
Matches(e, type) == NextLog(e).type = type /\ NextLog(e).key = Op(e).key

\* The operations that log: writes in one mode, reads in the other.
Logs(kind) == kind = IF Mode = "WRITELOG" THEN "write" ELSE "read"

\* The step in the log is not the one the operation is at: the process dies.
FieldMismatch(e) ==
  /\ \E kind \in {"read", "write"}, at \in {"start", "prewritten"} :
       /\ InOp(e, kind, at)
       /\ Logs(kind)
       /\ IsLogged(e)
       /\ ~ Matches(e, IF kind = "read" THEN "PostRead"
                       ELSE IF at = "start" THEN "PreWrite" ELSE "PostWrite")
  /\ pc' = [pc EXCEPT ![e] = "mismatch"]
  /\ UNCHANGED <<logTail, stream, env, fsm, seen, crashes, dbVars, op, told>>
-----------------------------------------------------------------------------
(***************************************************************************)
(* WriteWithLog.                                                           *)
(***************************************************************************)
\* Dependent writes all go to version 0.
WriteVersion(e) == IF Op(e).dep THEN 0 ELSE env[e].seqNum

\* The step just appended also goes to the stream of the key.
Publish(e) ==
  keyStream' = [keyStream EXCEPT ![Op(e).key] =
                  Append(@, [seqNum |-> logTail + 1, version |-> WriteVersion(e)])]

\* Mutant: a PreWrite step in the log is taken for a finished write.
PreWrite_SkipsReplayed(e) ==
  /\ Mode = "WRITELOG"
  /\ InOp(e, "write", "start")
  /\ \/ /\ IsLogged(e) /\ Matches(e, "PreWrite")
        /\ ReplayStep(e)
        /\ NextOp(e)
     \/ /\ AppendStep(e, PreWriteData(Op(e).key))
        /\ Advance(e, "prewritten")
     \/ /\ LoseStep(e)
        /\ NextOp(e)
  /\ UNCHANGED <<dbVars, told>>

PreWrite(e) ==
  /\ Mode = "WRITELOG"
  /\ InOp(e, "write", "start")
  /\ \/ /\ IsLogged(e) => Matches(e, "PreWrite")
        /\ ReplayStep(e) \/ AppendStep(e, PreWriteData(Op(e).key))
        /\ Advance(e, "prewritten")
     \/ /\ AppendPanic(e, PreWriteData(Op(e).key))
        /\ UNCHANGED op
     \/ /\ LoseStep(e)
        /\ NextOp(e)
  /\ UNCHANGED <<dbVars, told>>

\* A PostWrite log was replayed: the write is done, the cursor moves past it.
SkipWrite(e) ==
  /\ InOp(e, "write", "prewritten")
  /\ IsLogged(e) /\ Matches(e, "PostWrite")
  /\ ReplayStep(e)
  /\ NextOp(e)
  /\ UNCHANGED <<dbVars, told>>

\* LibWriteMultiVersion: unconditional.
PutVersion(k, v, val) ==
  item' = [item EXCEPT ![k] =
             [w \in DOMAIN item[k] \cup {v} |-> IF w = v THEN val ELSE item[k][w]]]

WriteItem(e) ==
  /\ InOp(e, "write", "prewritten")
  /\ ~ IsLogged(e)
  /\ PutVersion(Op(e).key, WriteVersion(e), Op(e).val)
  /\ Advance(e, "written")
  /\ UNCHANGED <<vars, version, keyStream, told>>

\* Mutant: the PostWrite step goes to the stream of the key even if it lost.
PostWrite_AlwaysPublishes(e) ==
  LET data == PostWriteData(Op(e).key, WriteVersion(e))
  IN  /\ InOp(e, "write", "written")
      /\ AppendStep(e, data) \/ LoseStep(e)
      /\ Publish(e)
      /\ NextOp(e)
      /\ UNCHANGED <<item, version, told>>

\* The result of ProposeNextStep is ignored.  applyLog cannot panic on this
\* entry: the same execution has just taken the PreWrite step before it.
PostWrite(e) ==
  LET data == PostWriteData(Op(e).key, WriteVersion(e))
  IN  /\ InOp(e, "write", "written")
      /\ \/ AppendStep(e, data) /\ Publish(e)
         \/ LoseStep(e) /\ UNCHANGED keyStream
      /\ NextOp(e)
      /\ UNCHANGED <<item, version, told>>

(***************************************************************************)
(* ReadWithoutLog: getVersionFromLog, then LibReadMultiVersion.            *)
(***************************************************************************)
\* SharedLogReadPrev: the last entry of s at or before seq; 0 if there is none.
LastAt(s, seq) ==
  LET before == {k \in 1 .. Len(s) : s[k].seqNum <= seq}
  IN  IF before = {} THEN 0
      ELSE CHOOSE k \in before : \A j \in before : j <= k

VersionAt(k, seq) ==
  LET n == LastAt(keyStream[k], seq)
  IN  IF n = 0 THEN 0 ELSE keyStream[k][n].version

\* Mutant: the newest version of the key, whatever the cursor.
FindVersion_Newest(e) ==
  /\ Mode = "WRITELOG"
  /\ InOp(e, "read", "start")
  /\ op' = [op EXCEPT ![e].ver = VersionAt(Op(e).key, logTail),
                      ![e].at = "versioned"]
  /\ UNCHANGED <<vars, dbVars, told>>

FindVersion(e) ==
  /\ Mode = "WRITELOG"
  /\ InOp(e, "read", "start")
  /\ op' = [op EXCEPT ![e].ver = VersionAt(Op(e).key, env[e].seqNum),
                      ![e].at = "versioned"]
  /\ UNCHANGED <<vars, dbVars, told>>

\* "this version may not exist": then the handler gets nil.
GetItem(k, v) == IF v \in DOMAIN item[k] THEN item[k][v] ELSE None

ReadItem(e) ==
  /\ InOp(e, "read", "versioned")
  /\ UNCHANGED <<vars, dbVars>>
  /\ Deliver(e, GetItem(Op(e).key, op[e].ver))

(***************************************************************************)
(* ReadWithLog.                                                            *)
(***************************************************************************)
ReplayRead(e) ==
  /\ Mode = "READLOG"
  /\ InOp(e, "read", "start")
  /\ IsLogged(e) /\ Matches(e, "PostRead")
  /\ ReplayStep(e)
  /\ Deliver(e, NextLog(e).result)
  /\ UNCHANGED dbVars

\* LibReadSingleVersion
FetchItem(e) ==
  /\ Mode = "READLOG"
  /\ InOp(e, "read", "start")
  /\ ~ IsLogged(e)
  /\ op' = [op EXCEPT ![e].tmp = GetItem(Op(e).key, 0), ![e].at = "fetched"]
  /\ UNCHANGED <<vars, dbVars, told>>

PostRead(e) ==
  LET data == PostReadData(Op(e).key, op[e].tmp)
  IN  /\ InOp(e, "read", "fetched")
      /\ \/ AppendStep(e, data) /\ Deliver(e, op[e].tmp)
         \/ AppendPanic(e, data) /\ UNCHANGED <<op, told>>
         \/ LoseStep(e) /\ Deliver(e, None)
      /\ UNCHANGED dbVars

(***************************************************************************)
(* WriteWithoutLog: LibWriteSingleVersion, conditional on VERSION.         *)
(***************************************************************************)
\* Mutant: no condition on VERSION.
CondUpdate_Always(k, seq, val) ==
  PutVersion(k, 0, val) /\ version' = [version EXCEPT ![k] = seq]

\* Mutant: only the AttributeNotExists half of the condition.
CondUpdate_FirstOnly(k, seq, val) ==
  IF version[k] = 0
  THEN PutVersion(k, 0, val) /\ version' = [version EXCEPT ![k] = seq]
  ELSE UNCHANGED <<item, version>>

CondUpdate(k, seq, val) ==
  IF version[k] = 0 \/ version[k] < seq
  THEN PutVersion(k, 0, val) /\ version' = [version EXCEPT ![k] = seq]
  ELSE UNCHANGED <<item, version>>

WriteSingle(e) ==
  /\ Mode = "READLOG"
  /\ InOp(e, "write", "start")
  /\ CondUpdate(Op(e).key, env[e].seqNum, Op(e).val)
  /\ NextOp(e)
  /\ UNCHANGED <<vars, keyStream, told>>
-----------------------------------------------------------------------------
(***************************************************************************)
(* The rest of an execution is that of IntentLog.                          *)
(***************************************************************************)
Begin(e) ==
  /\ Call(e)
  /\ op' = [op EXCEPT ![e] = FirstOp]
  /\ UNCHANGED <<dbVars, told>>

ProgramDone(e) == Returns(e) \/ op[e].idx > Len(Program[InstanceOf[e]])

End(e) ==
  /\ pc[e] = "run"
  /\ ProgramDone(e)
  /\ pc' = [pc EXCEPT ![e] = IF env[e].exit THEN "exit" ELSE "done"]
  /\ UNCHANGED <<logTail, stream, env, fsm, seen, crashes, dbVars, op, told>>

Replay(e) == (CatchNext(e) \/ CatchDone(e)) /\ UNCHANGED <<dbVars, op, told>>

Die(e) == Crash(e) /\ UNCHANGED <<dbVars, op, told>>

LoggedWrite(e) ==
  PreWrite(e) \/ SkipWrite(e) \/ WriteItem(e) \/ PostWrite(e)

LoggedRead(e) == ReplayRead(e) \/ FetchItem(e) \/ PostRead(e)

Work(e) ==
  \/ Begin(e) \/ Replay(e) \/ End(e)
  \/ LoggedWrite(e) \/ FindVersion(e) \/ ReadItem(e)
  \/ LoggedRead(e) \/ WriteSingle(e)
  \/ FieldMismatch(e)

RWNext == \E e \in Executor : Work(e) \/ Die(e)

RWSpec == RWInit /\ [][RWNext]_rwVars

-----------------------------------------------------------------------------
(***************************************************************************)
(* An operation of an instance has one outcome: all executions that get an *)
(* answer to a read get the same one, logged or log-free.  It is never     *)
(* nil: a version is only published after its data is in the table, and    *)
(* never lost again.                                                       *)
(***************************************************************************)
OneOutcome ==
  \A i \in Instance : \A j \in DOMAIN told[i] :
    Cardinality(told[i][j]) <= 1 /\ told[i][j] \subseteq Val

\* The operations of i that write k, and what they write.
Writes(i, k) ==
  {j \in DOMAIN Program[i] : Program[i][j].kind = "write" /\ Program[i][j].key = k}

AllWrites(k) == UNION {{<<i, j>> : j \in Writes(i, k)} : i \in Instance}

(***************************************************************************)
(* A write takes effect once and for good: re-executions and racing        *)
(* executions of an instance publish no second version for it, and what    *)
(* was published under a version stays, because an execution that repeats  *)
(* the write, or one that never saw its PostWrite, puts the same data      *)
(* there.                                                                  *)
(***************************************************************************)
OneVersionPerWrite(k) ==
  /\ Len(keyStream[k]) <= Cardinality(AllWrites(k))
  /\ \A m, n \in 1 .. Len(keyStream[k]) :
       /\ m # n
       /\ keyStream[k][m].version = keyStream[k][n].version
       => keyStream[k][m].version = 0

VersionsStay(k) ==
  \A n \in 1 .. Len(keyStream[k]) :
    LET v == keyStream[k][n].version
    IN  v # 0 => /\ keyStream'[k][n] = keyStream[k][n]
                 /\ item'[k][v] = item[k][v]

PublishedOnce == [][\A k \in Key : OneVersionPerWrite(k)' /\ VersionsStay(k)]_rwVars

(***************************************************************************)
(* When an execution reports success every write of its program has been   *)
(* published, by itself or by an earlier execution.                        *)
(***************************************************************************)
AckedWritesPublished ==
  \A e \in Executor : pc[e] = "done" =>
    \A k \in Key : \A j \in Writes(InstanceOf[e], k) :
      \E n \in 1 .. Len(keyStream[k]) :
        GetItem(k, keyStream[k][n].version) = Program[InstanceOf[e]][j].val

(***************************************************************************)
(* A read never goes behind the last write its own instance made before    *)
(* it: not to the initial value, nor to an earlier write of the instance.  *)
(***************************************************************************)
Superseded(i, j) ==
  LET own == {w \in Writes(i, Program[i][j].key) : w < j}
      last == CHOOSE w \in own : \A x \in own : x <= w
  IN  IF own = {} THEN {}
      ELSE {InitVal} \cup {Program[i][w].val : w \in own \ {last}}

ReadYourWrites ==
  \A i \in Instance : \A j \in DOMAIN told[i] : told[i][j] \cap Superseded(i, j) = {}

(***************************************************************************)
(* Where operation j of i is in the log: behind the steps of the           *)
(* operations before it that log, the last of which gives it its cursor.   *)
(***************************************************************************)
LoggedOps(i, j) == {m \in 1 .. j - 1 : Logs(Program[i][m].kind)}
StepsBefore(i, j) ==
  IF Mode = "WRITELOG" THEN 2 * Cardinality(LoggedOps(i, j)) ELSE Cardinality(LoggedOps(i, j))

Cursor(i, n) == IF n = 0 THEN CallSeqNum ELSE stream[i][n].seqNum
CursorOf(i, j) == Cursor(i, StepsBefore(i, j))

\* Write j of i was made: a step behind it is in the log, or an execution that goes
\* on, or has ended with success, is past it.
Made(i, j) ==
  \/ StepsBefore(i, j) < Len(stream[i])
  \/ \E e \in Executor : /\ InstanceOf[e] = i
                         /\ pc[e] \in {"run", "done"} /\ ~ env[e].exit
                         /\ op[e].idx > j

\* k has the data and the cursor of write j of i, the first one with this cursor.
ItemIsOf(k, i, j) ==
  /\ StepsBefore(i, j) <= Len(stream[i])
  /\ version[k] = CursorOf(i, j) /\ item[k][0] = Program[i][j].val
  /\ \A w \in Writes(i, k) : w < j => StepsBefore(i, w) < StepsBefore(i, j)

(***************************************************************************)
(* READLOG: the writes of a key take effect in the order of their cursors, *)
(* in whatever order they are made, by however many executions and after   *)
(* whatever crashes: the item is never that of a write which is older than *)
(* one that was made.  Of the writes that an instance makes between two    *)
(* logged steps, which have one cursor, only the first takes effect.       *)
(***************************************************************************)
LastCursorWins ==
  \A k \in Key :
    /\ \A i \in Instance : \A j \in Writes(i, k) : Made(i, j) => version[k] >= CursorOf(i, j)
    /\ IF version[k] = 0 THEN item[k][0] = InitVal
       ELSE \E i \in Instance : \E j \in Writes(i, k) : ItemIsOf(k, i, j)

(***************************************************************************)
(* What CheckLogDataField and the comments on it assert: the log entry of  *)
(* a step is always the one the operation at that step wrote.              *)
(***************************************************************************)
LogFieldsMatch == \A e \in Executor : pc[e] # "mismatch"
=============================================================================
