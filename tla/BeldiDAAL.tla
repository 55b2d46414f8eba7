------------------------------- MODULE BeldiDAAL -------------------------------
(***************************************************************************)
(* The linked DAAL of the Beldi baseline: EOSRead, EOSWrite and            *)
(* EOSCondWrite of src/workloads/workflow/beldi/pkg/beldilib/dblib.go, the *)
(* locks of twopl.go that are conditional writes, and the garbage          *)
(* collector of gc.go, on one key of a table.                              *)
(*                                                                         *)
(* There is no log: a key is a linked list of rows, the value is in the    *)
(* last one, and each row remembers the writes made to it (LOGS), N at     *)
(* most.  A write is a conditional update of the last row; if that is      *)
(* full, it appends a row.  The collector forgets the writes of instances  *)
(* that are done for longer than T, unlinks the rows all of whose writes   *)
(* it has forgotten, and deletes an unlinked row after T.                  *)
(*                                                                         *)
(* T is taken to be longer than an operation, and than any execution goes  *)
(* on once its instance is done.  A value is the number of the write that  *)
(* made it.                                                                *)
(***************************************************************************)
EXTENDS Naturals, Sequences, FiniteSets

CONSTANTS
  DInstance,   \* instances of functions
  DExecutor,   \* processes that execute them
  DScenarios,  \* which instance each of these executes; what its handler does, the
               \* operations in order; GLOGSIZE, the writes a row can remember; and the
               \* bound on the executions and collectors that die
  MaxRow       \* rows of the key are 0 (HEAD) .. MaxRow

ASSUME MaxRowAssumption == MaxRow \in Nat
ASSUME DScenariosAssumption ==
  \A s \in DScenarios :
    /\ s.instanceOf \in UNION {[E -> DInstance] : E \in SUBSET DExecutor}
    /\ s.ops \in [DInstance -> Seq({"write", "read", "lock", "unlock"})]
    /\ s.logSize \in Nat \ {0}
    /\ s.crashes \in Nat

VARIABLES
  dScenario,\* the one of DScenarios
  rows,     \* the rows that exist
  readLog,  \* readLog[i]: the log table, the results of the reads of i by step
  dDone,    \* the intent table: instances marked DONE
  dRetired, \* instances that the collector has taken
  dPc,      \* where an execution is
  dStep,    \* its env.StepNumber
  dRow,     \* the row it works on
  dVal,     \* the value it has read
  collector,\* where the collector is, and the two rows it looks at
  dCrashes, \* executions and collectors that died
  effects,  \* the writes that took effect, in order (history)
  told,     \* told[i]: what operations returned, by step (history)
  grants,   \* the locks that an operation said were taken (history)
  forgotten \* writes that went with a row that counted a refusal (history)

dVars == <<dScenario, rows, readLog, dDone, dRetired, dPc, dStep, dRow, dVal,
           collector, dCrashes, effects, told, grants, forgotten>>
dHistory == <<effects, told, grants, forgotten>>
dEnv == <<dPc, dStep, dRow, dVal>>

HEAD == 0
LogSize == dScenario.logSize
DInstanceOf == dScenario.instanceOf
RowId == HEAD .. MaxRow
NoRow == MaxRow + 1
NoHolder == "AVAILABLE"

\* LOGS without the entries that the collector removed, by outcome.
\* since: the operations that were under way when the row got its TS.
NewRow(v) ==
  [v |-> v, holder |-> NoHolder, logs |-> {}, refused |-> {}, logSize |-> 0, gcSize |-> 0,
   next |-> NoRow, stamped |-> FALSE, since |-> {}, counted |-> FALSE]

ASSUME NoHolderAssumption == NoHolder \notin DInstance

Idle == [at |-> "idle", prev |-> HEAD, cur |-> NoRow]

DaalInit ==
  /\ dScenario \in DScenarios
  /\ rows = [r \in {} |-> NewRow(0)]
  /\ readLog = [i \in DInstance |-> [s \in {} |-> 0]]
  /\ dDone = {} /\ dRetired = {}
  /\ dPc = [e \in DExecutor |-> "idle"]
  /\ dStep = [e \in DExecutor |-> 0]
  /\ dRow = [e \in DExecutor |-> NoRow]
  /\ dVal = [e \in DExecutor |-> 0]
  /\ collector = Idle
  /\ dCrashes = 0
  /\ effects = <<>>
  /\ told = [i \in DInstance |-> {}]
  /\ grants = {} /\ forgotten = {}

DOp(e) ==
  LET ops == dScenario.ops[DInstanceOf[e]]
  IN  IF dStep[e] < Len(ops) THEN ops[dStep[e] + 1] ELSE "end"

Writes == {"write", "lock", "unlock"}

\* The CID of a write.
Cid(e) == <<DInstanceOf[e], dStep[e]>>
Logged(r, e) == Cid(e) \in rows[r].logs \cup rows[r].refused

At(e, ops, pc) == dPc[e] = pc /\ DOp(e) \in ops
GoTo(e, pc) == dPc' = [dPc EXCEPT ![e] = pc]

\* The operation is over.  It does not keep a row from being deleted any more.
Over(e, result) ==
  /\ dStep' = [dStep EXCEPT ![e] = @ + 1]
  /\ GoTo(e, "run")
  /\ dRow' = [dRow EXCEPT ![e] = NoRow]
  /\ dVal' = [dVal EXCEPT ![e] = 0]
  /\ told' = [told EXCEPT ![DInstanceOf[e]] = @ \cup {<<dStep[e], result>>}]

Released(rs, e) == [r \in DOMAIN rs |-> [rs[r] EXCEPT !.since = @ \ {e}]]

\* The rows that NEXT leads to from r on: they are in every set that it does not leave.
ClosedRows(rs, S) == \A q \in S \cap DOMAIN rs : rs[q].next # NoRow => rs[q].next \in S
RowsFrom(rs, r) == {q \in RowId : \A S \in SUBSET RowId : r \in S /\ ClosedRows(rs, S) => q \in S}

\* The last row from r on, in a table that a query has returned.
LastFrom(r) == CHOOSE q \in RowsFrom(rows, r) : q \in DOMAIN rows => rows[q].next = NoRow

-----------------------------------------------------------------------------
(***************************************************************************)
(* Writes.                                                                 *)
(***************************************************************************)
\* wrapperInternal: the intent is there already if the instance is re-executed.
DCall(e) ==
  /\ e \in DOMAIN DInstanceOf /\ dPc[e] = "idle"
  /\ DInstanceOf[e] \notin dRetired
  /\ GoTo(e, "run")
  /\ UNCHANGED <<dScenario, rows, readLog, dDone, dRetired, dStep, dRow, dVal,
                 collector, dCrashes, dHistory>>

\* QuickCheckReturnLast: one query over all rows of the key, linked or not.
QuickCheckReturnLast(e) ==
  /\ At(e, Writes, "run")
  /\ \/ /\ \E r \in DOMAIN rows :
             /\ Logged(r, e)
             /\ Over(e, IF Cid(e) \in rows[r].logs THEN 1 ELSE 0)
        /\ rows' = Released(rows, e)
     \/ /\ \A r \in DOMAIN rows : ~ Logged(r, e)
        /\ dRow' = [dRow EXCEPT ![e] = LastFrom(HEAD)]
        /\ GoTo(e, IF rows = <<>> THEN "head" ELSE "update")
        /\ UNCHANGED <<rows, dStep, dVal, told>>
  /\ UNCHANGED <<dScenario, readLog, dDone, dRetired, collector, dCrashes, effects, grants, forgotten>>

\* InsertHead: does nothing if somebody was faster.
InsertHead(e) ==
  /\ At(e, Writes, "head")
  /\ rows' = IF HEAD \in DOMAIN rows THEN rows
             ELSE [r \in DOMAIN rows \cup {HEAD} |-> IF r = HEAD THEN NewRow(0) ELSE rows[r]]
  /\ GoTo(e, "update")
  /\ UNCHANGED <<dScenario, readLog, dDone, dRetired, dStep, dRow, dVal, collector, dCrashes, dHistory>>

\* The condition of an update: the CID is not in LOGS and there is room.
Room(r, e) == r \in DOMAIN rows /\ ~ Logged(r, e) /\ rows[r].logSize < LogSize

\* Mutant: the holder is not looked at when a lock is taken.
Cond_AnyHolder(r, e) == DOp(e) = "unlock" => rows[r].holder = DInstanceOf[e]

\* The condition of the operation itself.
Cond(r, e) ==
  CASE DOp(e) = "lock" -> rows[r].holder \in {NoHolder, DInstanceOf[e]}
    [] DOp(e) = "unlock" -> rows[r].holder = DInstanceOf[e]
    [] OTHER -> TRUE

Updated(r, e) ==
  LET row == [rows[r] EXCEPT !.logs = @ \cup {Cid(e)}, !.logSize = @ + 1]
  IN  CASE DOp(e) = "lock" -> [row EXCEPT !.holder = DInstanceOf[e]]
        [] DOp(e) = "unlock" -> [row EXCEPT !.holder = NoHolder]
        [] OTHER -> [row EXCEPT !.v = Len(effects) + 1]

Granted(r, e) ==
  LET i == DInstanceOf[e]
  IN  CASE DOp(e) = "lock" -> grants \cup {<<i, r>>}
        [] DOp(e) = "unlock" -> {g \in grants : g[1] # i}
        [] OTHER -> grants

\* EOSWriteWithRow, EOSCondWriteWithRow: the conditional update of the row.
UpdateRow(e) ==
  LET r == dRow[e]
  IN  /\ At(e, Writes, "update")
      /\ IF Room(r, e) /\ Cond(r, e)
         THEN /\ rows' = Released([rows EXCEPT ![r] = Updated(r, e)], e)
              /\ effects' = Append(effects, Cid(e))
              /\ grants' = Granted(r, e)
              /\ Over(e, 1)
         ELSE /\ GoTo(e, IF DOp(e) = "write" THEN "look" ELSE "refuse")
              /\ UNCHANGED <<rows, effects, grants, told, dStep, dRow, dVal>>
      /\ UNCHANGED <<dScenario, readLog, dDone, dRetired, collector, dCrashes, forgotten>>

\* The refusal is logged too, but does not count in LOGSIZE.
RefuseRow(e) ==
  LET r == dRow[e]
  IN  /\ At(e, Writes, "refuse")
      /\ IF Room(r, e)
         THEN /\ rows' = Released([rows EXCEPT ![r].refused = @ \cup {Cid(e)}], e)
              /\ Over(e, 0)
         ELSE /\ GoTo(e, "look")
              /\ UNCHANGED <<rows, told, dStep, dRow, dVal>>
      /\ UNCHANGED <<dScenario, readLog, dDone, dRetired, collector, dCrashes, effects, grants, forgotten>>

\* Why the condition failed: the CID is there, or there is a next row, or not yet.
LookAtRow(e) ==
  LET r == dRow[e]
  IN  /\ At(e, Writes, "look")
      /\ \/ /\ r \in DOMAIN rows /\ Logged(r, e)
            /\ rows' = Released(rows, e)
            /\ Over(e, IF Cid(e) \in rows[r].logs THEN 1 ELSE 0)
         \/ /\ r \in DOMAIN rows /\ ~ Logged(r, e) /\ rows[r].next # NoRow
            /\ dRow' = [dRow EXCEPT ![e] = rows[r].next]
            /\ GoTo(e, "update")
            /\ UNCHANGED <<rows, told, dStep, dVal>>
         \/ /\ r \in DOMAIN rows => ~ Logged(r, e) /\ rows[r].next = NoRow
            /\ GoTo(e, "copy")
            /\ UNCHANGED <<rows, told, dStep, dRow, dVal>>
      /\ UNCHANGED <<dScenario, readLog, dDone, dRetired, collector, dCrashes, effects, grants, forgotten>>

ValueOf(r) == IF r \in DOMAIN rows THEN rows[r].v ELSE 0

\* Mutant: the value is that of HEAD.
Copied_Head(r) == ValueOf(HEAD)

\* InsertOrGetNewRow: the value of the old row ...
Copied(r) == ValueOf(r)

CopyValue(e) ==
  /\ At(e, Writes, "copy")
  /\ dVal' = [dVal EXCEPT ![e] = Copied(dRow[e])]
  /\ GoTo(e, "create")
  /\ UNCHANGED <<dScenario, rows, readLog, dDone, dRetired, dStep, dRow,
                 collector, dCrashes, dHistory>>

\* ... goes into a new one, which nothing points to yet, ...
FreeRow == CHOOSE r \in RowId : r \notin DOMAIN rows

CreateRow(e) ==
  /\ At(e, Writes, "create")
  /\ Cardinality(DOMAIN rows) <= MaxRow
  /\ rows' = [r \in DOMAIN rows \cup {FreeRow} |->
                IF r = FreeRow THEN NewRow(dVal[e]) ELSE rows[r]]
  /\ dVal' = [dVal EXCEPT ![e] = FreeRow]
  /\ GoTo(e, "swap")
  /\ UNCHANGED <<dScenario, readLog, dDone, dRetired, dStep, dRow, collector, dCrashes, dHistory>>

\* ... and is linked, unless the old row has a next one by now.
SwapRow(e) ==
  LET r == dRow[e]
  IN  /\ At(e, Writes, "swap")
      /\ r \in DOMAIN rows
      /\ IF rows[r].next = NoRow
         THEN /\ rows' = [rows EXCEPT ![r].next = dVal[e]]
              /\ dRow' = [dRow EXCEPT ![e] = dVal[e]]
              /\ GoTo(e, "update")
         ELSE GoTo(e, "drop") /\ UNCHANGED <<rows, dRow>>
      /\ UNCHANGED <<dScenario, readLog, dDone, dRetired, dStep, dVal, collector, dCrashes, dHistory>>

Without(r) == [q \in DOMAIN rows \ {r} |-> rows[q]]

\* Then it is deleted, and the next row of the old one is taken.
DropRow(e) ==
  /\ At(e, Writes, "drop")
  /\ rows' = Without(dVal[e])
  /\ GoTo(e, "follow")
  /\ UNCHANGED <<dScenario, readLog, dDone, dRetired, dStep, dRow, dVal, collector, dCrashes, dHistory>>

FollowNext(e) ==
  /\ At(e, Writes, "follow")
  /\ dRow' = [dRow EXCEPT ![e] = rows[dRow[e]].next]
  /\ dVal' = [dVal EXCEPT ![e] = 0]
  /\ GoTo(e, "update")
  /\ UNCHANGED <<dScenario, rows, readLog, dDone, dRetired, dStep, collector, dCrashes, dHistory>>

-----------------------------------------------------------------------------
(***************************************************************************)
(* Reads.                                                                  *)
(***************************************************************************)
\* EOSRead: LastRow queries all rows of the key.
LastRow(e) ==
  /\ At(e, {"read"}, "run")
  /\ dRow' = [dRow EXCEPT ![e] = LastFrom(HEAD)]
  /\ GoTo(e, "get")
  /\ UNCHANGED <<dScenario, rows, readLog, dDone, dRetired, dStep, dVal, collector, dCrashes, dHistory>>

\* EOSReadWithRow: if the row is not the last any more, the next one is read.
GetRow(e) ==
  LET r == dRow[e]
  IN  /\ At(e, {"read"}, "get")
      /\ IF r \in DOMAIN rows /\ rows[r].next # NoRow
         THEN dRow' = [dRow EXCEPT ![e] = rows[r].next] /\ UNCHANGED <<dPc, dVal>>
         ELSE /\ dVal' = [dVal EXCEPT ![e] = ValueOf(r)]
              /\ GoTo(e, "put")
              /\ UNCHANGED dRow
      /\ UNCHANGED <<dScenario, rows, readLog, dDone, dRetired, dStep, collector, dCrashes, dHistory>>

\* LibPut fails if there is a result already, which is then taken.
FirstResult(e) ==
  LET log == readLog[DInstanceOf[e]]
  IN  IF dStep[e] \in DOMAIN log THEN log[dStep[e]] ELSE dVal[e]

PutRead(e) ==
  LET log == readLog[DInstanceOf[e]]
      result == FirstResult(e)
  IN  /\ At(e, {"read"}, "put")
      /\ readLog' = [readLog EXCEPT ![DInstanceOf[e]] =
           [s \in DOMAIN log \cup {dStep[e]} |-> IF s = dStep[e] THEN result ELSE log[s]]]
      /\ rows' = Released(rows, e)
      /\ Over(e, result)
      /\ UNCHANGED <<dScenario, dDone, dRetired, collector, dCrashes, effects, grants, forgotten>>

\* wrapperInternal marks the instance DONE, with the time.
DFinish(e) ==
  /\ At(e, {"end"}, "run")
  /\ dDone' = dDone \cup {DInstanceOf[e]}
  /\ GoTo(e, "done")
  /\ UNCHANGED <<dScenario, rows, readLog, dRetired, dStep, dRow, dVal, collector, dCrashes, dHistory>>

DDie(e) ==
  /\ dPc[e] \notin {"idle", "done"}
  /\ dCrashes < dScenario.crashes
  /\ dCrashes' = dCrashes + 1
  /\ GoTo(e, "idle")
  /\ dStep' = [dStep EXCEPT ![e] = 0]
  /\ dRow' = [dRow EXCEPT ![e] = NoRow]
  /\ dVal' = [dVal EXCEPT ![e] = 0]
  /\ rows' = Released(rows, e)
  /\ UNCHANGED <<dScenario, readLog, dDone, dRetired, collector, dHistory>>

-----------------------------------------------------------------------------
(***************************************************************************)
(* The garbage collector.                                                  *)
(***************************************************************************)
Collecting(at) == collector.at = at
Old(i) == i \in dDone /\ \A e \in DOMAIN DInstanceOf : DInstanceOf[e] = i => dPc[e] \in {"idle", "done"}

\* ScanIntent: instances that are done for longer than T.
ScanIntent ==
  /\ Collecting("idle")
  /\ dRetired' = dRetired \cup {i \in DInstance : Old(i)}
  /\ collector' = [collector EXCEPT !.at = "clear"]
  /\ UNCHANGED <<dScenario, rows, readLog, dDone, dEnv, dCrashes, dHistory>>

Mine(cids) == {c \in cids : c[1] \in dRetired}

\* Mutant: the collector goes by the number of entries that are left.
Cleared_WholeRow(r) ==
  LET gone == Mine(rows[r].logs) \cup Mine(rows[r].refused)
  IN  [rows[r] EXCEPT !.logs = @ \ gone, !.refused = @ \ gone,
                      !.gcSize = IF gone # {} THEN LogSize ELSE @]

\* ClearRowDAAL: GCSIZE counts what is removed, refusals included.
Cleared(r) ==
  LET gone == Mine(rows[r].logs) \cup Mine(rows[r].refused)
  IN  [rows[r] EXCEPT !.logs = @ \ gone, !.refused = @ \ gone,
                      !.gcSize = @ + Cardinality(gone),
                      !.counted = @ \/ Mine(rows[r].refused) # {}]

ClearRowDAAL ==
  /\ Collecting("clear")
  /\ \E r \in DOMAIN rows :
       /\ Mine(rows[r].logs \cup rows[r].refused) # {}
       /\ rows' = [rows EXCEPT ![r] = Cleared(r)]
  /\ UNCHANGED <<dScenario, readLog, dDone, dRetired, dEnv, collector, dCrashes, dHistory>>

\* ClearReadLog and ClearIntent, when all rows are done.
ClearIntent ==
  /\ Collecting("clear")
  /\ \A r \in DOMAIN rows : Mine(rows[r].logs \cup rows[r].refused) = {}
  /\ readLog' = [i \in DInstance |-> IF i \in dRetired THEN [s \in {} |-> 0] ELSE readLog[i]]
  /\ dDone' = dDone \ dRetired
  /\ collector' = [collector EXCEPT !.at = "heads"]
  /\ UNCHANGED <<dScenario, rows, dRetired, dEnv, dCrashes, dHistory>>

\* MarkDangling starts at the row behind HEAD.
QueryHeads ==
  /\ Collecting("heads")
  /\ collector' = IF HEAD \in DOMAIN rows /\ rows[HEAD].next # NoRow
                  THEN [at |-> "row", prev |-> HEAD, cur |-> rows[HEAD].next]
                  ELSE [Idle EXCEPT !.at = "sweep"]
  /\ UNCHANGED <<dScenario, rows, readLog, dDone, dRetired, dEnv, dCrashes, dHistory>>

\* ClearRow: never the last row; one that is to go is unlinked ...
ClearRow ==
  LET row == rows[collector.cur]
  IN  /\ Collecting("row")
      /\ \/ /\ row.next = NoRow
            /\ collector' = [Idle EXCEPT !.at = "sweep"]
            /\ UNCHANGED <<rows, forgotten>>
         \/ /\ row.next # NoRow /\ row.gcSize = LogSize
            /\ rows' = [rows EXCEPT ![collector.prev].next = row.next]
            /\ forgotten' = IF row.counted THEN forgotten \cup row.logs ELSE forgotten
            /\ collector' = [collector EXCEPT !.at = "stamp"]
         \/ /\ row.next # NoRow /\ row.gcSize # LogSize
            /\ collector' = [collector EXCEPT !.prev = collector.cur, !.cur = row.next]
            /\ UNCHANGED <<rows, forgotten>>
      /\ UNCHANGED <<dScenario, readLog, dDone, dRetired, dEnv, dCrashes, effects, told, grants>>

\* ... and gets a TS.
StampRow ==
  LET cur == collector.cur
  IN  /\ Collecting("stamp")
      /\ rows' = [rows EXCEPT ![cur].stamped = TRUE,
                              ![cur].since = {e \in DExecutor : dPc[e] \notin {"idle", "run", "done"}}]
      /\ collector' = [collector EXCEPT !.at = "row", !.cur = rows[cur].next]
      /\ UNCHANGED <<dScenario, readLog, dDone, dRetired, dEnv, dCrashes, dHistory>>

\* ScanDangle: a TS older than T.
Dangling(r) == rows[r].stamped /\ rows[r].since = {}

ClearDangling ==
  /\ Collecting("sweep")
  /\ \/ \E r \in DOMAIN rows :
          /\ Dangling(r)
          /\ rows' = Without(r)
          /\ grants' = {g \in grants : g[2] # r}
          /\ UNCHANGED collector
     \/ /\ collector' = Idle
        /\ UNCHANGED <<rows, grants>>
  /\ UNCHANGED <<dScenario, readLog, dDone, dRetired, dEnv, dCrashes, effects, told, forgotten>>

CollectorDies ==
  /\ ~ Collecting("idle")
  /\ dCrashes < dScenario.crashes
  /\ dCrashes' = dCrashes + 1
  /\ collector' = Idle
  /\ UNCHANGED <<dScenario, rows, readLog, dDone, dRetired, dEnv, dHistory>>

-----------------------------------------------------------------------------
DaalStep(e) ==
  \/ DCall(e) \/ QuickCheckReturnLast(e) \/ InsertHead(e)
  \/ UpdateRow(e) \/ RefuseRow(e) \/ LookAtRow(e)
  \/ CopyValue(e) \/ CreateRow(e) \/ SwapRow(e) \/ DropRow(e) \/ FollowNext(e)
  \/ LastRow(e) \/ GetRow(e) \/ PutRead(e)
  \/ DFinish(e)

Collect ==
  \/ ScanIntent \/ ClearRowDAAL \/ ClearIntent \/ QueryHeads
  \/ ClearRow \/ StampRow \/ ClearDangling

DaalNext ==
  \/ \E e \in DExecutor : DaalStep(e) \/ DDie(e)
  \/ Collect \/ CollectorDies

DaalSpec == DaalInit /\ [][DaalNext]_dVars

-----------------------------------------------------------------------------
(***************************************************************************)
(* A write takes effect once, however often it is executed and whatever    *)
(* rows come and go.  The exception is a write in a row that the collector *)
(* took for empty because GCSIZE counts refusals and LOGSIZE does not.     *)
(***************************************************************************)
DaalOnce ==
  \A m, n \in DOMAIN effects :
    m # n /\ effects[m] = effects[n] => effects[m] \in forgotten

(***************************************************************************)
(* The last row has the value of the last write: none is lost when a row   *)
(* fills up and several processes append the next one, nor when rows are   *)
(* unlinked and deleted; an instance reads its own writes, and a read has  *)
(* one result, however often it is executed.  A write that is made again   *)
(* because it was forgotten may come after the read.                       *)
(***************************************************************************)
IsValue(n) == dScenario.ops[effects[n][1]][effects[n][2] + 1] = "write"

DaalKeepsValue ==
  /\ HEAD \in DOMAIN rows =>
       LET last == LastFrom(HEAD)
       IN  /\ last \in DOMAIN rows
           /\ \A n \in DOMAIN effects : IsValue(n) => rows[last].v >= n
  /\ \A i \in DInstance : \A t \in told[i] :
       dScenario.ops[i][t[1] + 1] = "read" =>
         /\ \A n \in DOMAIN effects :
              /\ effects[n][1] = i /\ effects[n][2] < t[1] /\ IsValue(n)
              /\ effects[n] \notin forgotten
              => t[2] >= n
         /\ \A u \in told[i] : u[1] = t[1] => u = t

(***************************************************************************)
(* Two transactions that were told they hold the lock were told so by      *)
(* different rows.  (A new row copies V and not HOLDER, so that a lock is  *)
(* free again when its row is full.)                                       *)
(***************************************************************************)
DaalExclusion ==
  \A g, h \in grants : g[2] = h[2] => g[1] = h[1]
=============================================================================
