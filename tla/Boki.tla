---------------------------------- MODULE Boki ---------------------------------
(***************************************************************************)
(* The client library of BokiFlow, the baseline that Halfmoon is compared  *)
(* with: src/workloads/workflow/boki/pkg/cayonlib/loglib.go, dblib.go and  *)
(* controlflow.go.                                                         *)
(*                                                                         *)
(* Appends to the stream of an instance are unconditional.  The entries of *)
(* two executions race, the first entry of a step counts, and who appended *)
(* learns by reading on which one that is.  A write logs its intent,       *)
(* writes to the table on condition that the item is older than the        *)
(* intent, and logs that it is done; an invocation logs the instance id of *)
(* the callee, and the callee logs its result into the caller's stream.    *)
(* Results do not take a step of their own.                                *)
(***************************************************************************)
EXTENDS Naturals, Sequences

CONSTANTS
  BInstance,   \* instances of functions
  BExecutor,   \* processes that execute them
  BInstanceOf, \* the instance of each
  BKey,        \* keys of the table
  BPrograms,   \* what handlers do: for each instance its operations, in order
  BMaxCrashes  \* bound on the executions that die

ASSUME BInstanceOfAssumption == BInstanceOf \in [BExecutor -> BInstance]
ASSUME BMaxCrashesAssumption == BMaxCrashes \in Nat

Operation == [type : {"Read", "PreWrite", "PreInvoke"}, key : BKey, async : BOOLEAN]
ASSUME BProgramsAssumption ==
  \A p \in BPrograms : \A i \in BInstance : p[i] \in Seq(Operation)

VARIABLES
  bProgram,  \* the one of BPrograms that is executed
  bTail,     \* the last sequence number issued
  bStream,   \* bStream[i]: the entries tagged IntentStepStreamTag(i)
  bDecided,  \* bDecided[i]: the first entry of each step (history)
  bVersion,  \* bVersion[k]: the VERSION of the item, which tells who wrote it
  bStep,     \* env.StepNumber of an execution
  bFsm,      \* its IntentFsm
  bPc,       \* where it is in an operation
  bHeld,     \* what the operation works with: an entry, or what LibRead returned
  bTold,     \* what its operations returned, in this execution (history)
  bOrphans,  \* executions of callees that nobody waits for
  bCrashes   \* executions that died

bokiVars == <<bProgram, bTail, bStream, bDecided, bVersion, bStep, bFsm, bPc, bHeld, bTold,
              bOrphans, bCrashes>>
bLog == <<bProgram, bTail, bStream, bDecided>>

\* val: the version a Read returns, or the instance id of a callee.
LogData == [type : {"Read", "PreWrite", "PreInvoke"}, key : BKey, val : Nat]
Unlogged(val) == [type |-> "none", val |-> val]
NoData == Unlogged(0)

IntentLogEntry == [seqNum : Nat, step : Nat, postStep : BOOLEAN, data : LogData \cup {NoData}]
HeldEntry(seqNum, data) == [seqNum |-> seqNum, step |-> 0, postStep |-> FALSE, data |-> data]
NoEntry == HeldEntry(0, NoData)

\* posts: the steps that have a result.
NewIntentFsm == [applied |-> 0, stepLogs |-> <<>>, posts |-> {}]

BokiInit ==
  /\ bProgram \in BPrograms
  /\ bTail = 0
  /\ bStream = [i \in BInstance |-> <<>>]
  /\ bDecided = [i \in BInstance |-> <<>>]
  /\ bVersion = [k \in BKey |-> 0]
  /\ bStep = [e \in BExecutor |-> 0]
  /\ bFsm = [e \in BExecutor |-> NewIntentFsm]
  /\ bPc = [e \in BExecutor |-> "idle"]
  /\ bHeld = [e \in BExecutor |-> NoEntry]
  /\ bTold = [e \in BExecutor |-> <<>>]
  /\ bOrphans = {}
  /\ bCrashes = 0

StreamOf(e) == bStream[BInstanceOf[e]]
HasOp(e) == bStep[e] < Len(bProgram[BInstanceOf[e]])
Op(e) == bProgram[BInstanceOf[e]][bStep[e] + 1]

-----------------------------------------------------------------------------
(***************************************************************************)
(* The log.                                                                *)
(***************************************************************************)
\* LibAppendLog: nothing is checked.  The first entry of a step decides it.
\* Results do not count in the sequence numbers, which nothing looks at.
BAppend(i, step, postStep, data) ==
  LET seqNum == IF postStep THEN 0 ELSE bTail + 1
      entry == [seqNum |-> seqNum, step |-> step, postStep |-> postStep, data |-> data]
  IN  /\ bTail' = IF postStep THEN bTail ELSE seqNum
      /\ bStream' = [bStream EXCEPT ![i] = Append(@, entry)]
      /\ bDecided' = IF ~ postStep /\ step = Len(bDecided[i])
                     THEN [bDecided EXCEPT ![i] = Append(@, entry)]
                     ELSE bDecided
      /\ UNCHANGED bProgram

\* Mutant: the last entry of a step counts.
applyLog_LastWins(fsm, entry) ==
  LET step == entry.step
  IN  IF entry.postStep
      THEN [fsm EXCEPT !.applied = @ + 1, !.posts = @ \cup {step}]
      ELSE [fsm EXCEPT !.applied = @ + 1,
                       !.stepLogs = [n \in DOMAIN @ \cup {step + 1} |->
                                       IF n = step + 1 THEN entry ELSE @[n]]]

applyLog(fsm, entry) ==
  LET step == entry.step
  IN  IF entry.postStep
      THEN [fsm EXCEPT !.applied = @ + 1, !.posts = @ \cup {step}]
      ELSE [fsm EXCEPT !.applied = @ + 1,
                       !.stepLogs = IF step = Len(@) THEN Append(@, entry) ELSE @]

\* The panic of applyLog: a first entry that is not of the next step.
Skips(fsm, entry) == ~ entry.postStep /\ entry.step > Len(fsm.stepLogs)

Seen(e) == bStep[e] < Len(bFsm[e].stepLogs)
StepLog(e) == bFsm[e].stepLogs[bStep[e] + 1]

\* Catch is called at the start, and after each append.
Catching(e) == bPc[e] \in {"idle", "catch"}
CaughtUp(e) == bFsm[e].applied = Len(StreamOf(e))

\* One round of the loop in Catch; others append between two rounds.
BCatchNext(e) ==
  LET entry == StreamOf(e)[bFsm[e].applied + 1]
  IN  /\ Catching(e) /\ ~ CaughtUp(e)
      /\ IF Skips(bFsm[e], entry) THEN bPc' = [bPc EXCEPT ![e] = "panic"] /\ UNCHANGED bFsm
         ELSE bFsm' = [bFsm EXCEPT ![e] = applyLog(@, entry)] /\ UNCHANGED bPc
      /\ UNCHANGED <<bLog, bVersion, bStep, bHeld, bTold, bOrphans, bCrashes>>

\* Call, after Catch on a fresh Env and IntentFsm: the handler starts.
BCall(e) ==
  /\ bPc[e] = "idle" /\ CaughtUp(e)
  /\ bPc' = [bPc EXCEPT ![e] = "run"]
  /\ UNCHANGED <<bLog, bVersion, bStep, bFsm, bHeld, bTold, bOrphans, bCrashes>>

-----------------------------------------------------------------------------
(***************************************************************************)
(* Operations.                                                             *)
(***************************************************************************)
\* The operation is over: the handler goes on to the next one.
Leave(e, data) ==
  /\ bStep' = [bStep EXCEPT ![e] = @ + 1]
  /\ bTold' = [bTold EXCEPT ![e] = Append(@, data)]
  /\ bPc' = [bPc EXCEPT ![e] = "run"]
  /\ bHeld' = [bHeld EXCEPT ![e] = NoEntry]

Panic(e) ==
  /\ bPc' = [bPc EXCEPT ![e] = "panic"]
  /\ UNCHANGED <<bStep, bTold, bHeld>>

\* CheckLogDataField of an entry that somebody else appended.
Matches(e, data) == data.type = Op(e).type /\ data.key = Op(e).key

\* What an operation does with the entry of its step; newLog: it is its own.
Learn(e, entry, newLog, seenResult) ==
  LET over == entry.data.type = "Read" \/ (~ newLog /\ seenResult)
  IN  \/ /\ Matches(e, entry.data)
         /\ over
         /\ Leave(e, entry.data)
      \/ /\ Matches(e, entry.data)
         /\ ~ over
         /\ bHeld' = [bHeld EXCEPT ![e] = entry]
         /\ bPc' = [bPc EXCEPT ![e] = IF entry.data.type = "PreWrite" THEN "write" ELSE "invoke"]
         /\ UNCHANGED <<bStep, bTold>>
      \/ ~ Matches(e, entry.data) /\ Panic(e)

\* The step is in the IntentFsm already.
BReplay(e) ==
  /\ bPc[e] = "run"
  /\ HasOp(e)
  /\ Seen(e)
  /\ Learn(e, StepLog(e), FALSE, bStep[e] \in bFsm[e].posts)
  /\ UNCHANGED <<bLog, bVersion, bFsm, bOrphans, bCrashes>>

\* Read: the table is read first, and what it returns is proposed.
BFetch(e) ==
  /\ bPc[e] = "run"
  /\ HasOp(e)
  /\ ~ Seen(e)
  /\ Op(e).type = "Read"
  /\ bHeld' = [bHeld EXCEPT ![e] = HeldEntry(0, Unlogged(bVersion[Op(e).key]))]
  /\ bPc' = [bPc EXCEPT ![e] = "propose"]
  /\ UNCHANGED <<bLog, bVersion, bStep, bFsm, bTold, bOrphans, bCrashes>>

\* The new instance id of shortuuid is named after the position of the entry.
Proposal(e) ==
  [type |-> Op(e).type, key |-> Op(e).key,
   val |-> CASE Op(e).type = "Read" -> bHeld[e].data.val
             [] Op(e).type = "PreInvoke" -> bTail + 1
             [] OTHER -> 0]

\* ProposeNextStep, up to the append.
BPropose(e) ==
  /\ \/ bPc[e] = "run" /\ HasOp(e) /\ ~ Seen(e) /\ Op(e).type # "Read"
     \/ bPc[e] = "propose"
  /\ BAppend(BInstanceOf[e], bStep[e], FALSE, Proposal(e))
  /\ bHeld' = [bHeld EXCEPT ![e] = HeldEntry(bTail + 1, NoData)]
  /\ bPc' = [bPc EXCEPT ![e] = "catch"]
  /\ UNCHANGED <<bVersion, bStep, bFsm, bTold, bOrphans, bCrashes>>

\* ... and after Catch, with the panic if the step is not there.
BProposed(e) ==
  /\ bPc[e] = "catch" /\ CaughtUp(e)
  /\ IF Seen(e)
     THEN Learn(e, StepLog(e), StepLog(e).seqNum = bHeld[e].seqNum, bStep[e] \in bFsm[e].posts)
     ELSE Panic(e)
  /\ UNCHANGED <<bLog, bVersion, bFsm, bOrphans, bCrashes>>

\* Mutant: the condition on VERSION is gone.
CondUpdate_Always(k, seqNum) == bVersion' = [bVersion EXCEPT ![k] = seqNum]

\* The conditional UpdateItem of CondWrite; a failed condition is no error.
CondUpdate(k, seqNum) ==
  bVersion' = IF bVersion[k] < seqNum THEN [bVersion EXCEPT ![k] = seqNum] ELSE bVersion

BWriteItem(e) ==
  /\ bPc[e] = "write"
  /\ CondUpdate(Op(e).key, bHeld[e].seqNum)
  /\ bPc' = [bPc EXCEPT ![e] = "post"]
  /\ UNCHANGED <<bLog, bStep, bFsm, bHeld, bTold, bOrphans, bCrashes>>

\* LogStepResult of a write: the entry is not read back.
BPostWrite(e) ==
  /\ bPc[e] = "post"
  /\ BAppend(BInstanceOf[e], bStep[e], TRUE, NoData)
  /\ Leave(e, bHeld[e].data)
  /\ UNCHANGED <<bVersion, bFsm, bOrphans, bCrashes>>

-----------------------------------------------------------------------------
(***************************************************************************)
(* Invocation.  Whatever executes the callee named in the entry, there may *)
(* be several, logs the result of that instance; an answer is told by the  *)
(* instance that gave it.                                                  *)
(***************************************************************************)
Orphan(e) == [caller |-> BInstanceOf[e], step |-> bStep[e]]

\* InvokeFunc, and InvokeFuncAsync, which does not wait.
BInvoke(e) ==
  /\ bPc[e] = "invoke"
  /\ IF Op(e).async
     THEN Leave(e, bHeld[e].data) /\ bOrphans' = bOrphans \cup {Orphan(e)}
     ELSE /\ bPc' = [bPc EXCEPT ![e] = "wait"]
          /\ UNCHANGED <<bStep, bTold, bHeld, bOrphans>>
  /\ UNCHANGED <<bLog, bVersion, bFsm, bCrashes>>

\* wrapperInternal of the callee: its result goes to the stream of the caller.
BLogResult(e) ==
  /\ bPc[e] = "wait"
  /\ BAppend(BInstanceOf[e], bStep[e], TRUE, NoData)
  /\ bPc' = [bPc EXCEPT ![e] = "answer"]
  /\ UNCHANGED <<bVersion, bStep, bFsm, bHeld, bTold, bOrphans, bCrashes>>

BAnswer(e) ==
  /\ bPc[e] = "answer"
  /\ Leave(e, bHeld[e].data)
  /\ UNCHANGED <<bLog, bVersion, bFsm, bOrphans, bCrashes>>

OrphanLogs(o) ==
  /\ BAppend(o.caller, o.step, TRUE, NoData)
  /\ bOrphans' = bOrphans \ {o}
  /\ UNCHANGED <<bVersion, bStep, bFsm, bPc, bHeld, bTold, bCrashes>>

-----------------------------------------------------------------------------
BFinish(e) ==
  /\ bPc[e] = "run"
  /\ ~ HasOp(e)
  /\ bPc' = [bPc EXCEPT ![e] = "done"]
  /\ bFsm' = [bFsm EXCEPT ![e] = NewIntentFsm]
  /\ UNCHANGED <<bLog, bVersion, bStep, bHeld, bTold, bOrphans, bCrashes>>

\* A process dies, or its callee fails (CHECK of InvokeFunc); a callee that runs
\* already may go on without it.
BDie(e) ==
  /\ bPc[e] \notin {"idle", "done", "panic"}
  /\ bCrashes < BMaxCrashes
  /\ bCrashes' = bCrashes + 1
  /\ bPc' = [bPc EXCEPT ![e] = "idle"]
  /\ bStep' = [bStep EXCEPT ![e] = 0]
  /\ bFsm' = [bFsm EXCEPT ![e] = NewIntentFsm]
  /\ bHeld' = [bHeld EXCEPT ![e] = NoEntry]
  /\ bTold' = [bTold EXCEPT ![e] = <<>>]
  /\ \/ bPc[e] = "wait" /\ bOrphans' = bOrphans \cup {Orphan(e)}
     \/ UNCHANGED bOrphans
  /\ UNCHANGED <<bLog, bVersion>>

BokiStep(e) ==
  \/ BCatchNext(e) \/ BCall(e) \/ BReplay(e) \/ BFetch(e) \/ BPropose(e) \/ BProposed(e)
  \/ BWriteItem(e) \/ BPostWrite(e)
  \/ BInvoke(e) \/ BLogResult(e) \/ BAnswer(e)
  \/ BFinish(e)

BokiNext ==
  \/ \E e \in BExecutor : BokiStep(e) \/ BDie(e)
  \/ \E o \in bOrphans : OrphanLogs(o)

BokiSpec == BokiInit /\ [][BokiNext]_bokiVars

-----------------------------------------------------------------------------
(***************************************************************************)
(* What an instance is told of a key never goes back: a read sees at least *)
(* what the instance read or wrote before, whoever executed it and however *)
(* often, and a write is younger than what was read before it.             *)
(***************************************************************************)
VersionAt(i, s) ==
  LET entry == bDecided[i][s]
  IN  IF entry.data.type = "Read" THEN entry.data.val ELSE entry.seqNum

BokiSessionOrder ==
  \A i \in BInstance : \A s, t \in 1 .. Len(bDecided[i]) :
    /\ s < t
    /\ "PreInvoke" \notin {bDecided[i][s].data.type, bDecided[i][t].data.type}
    /\ bDecided[i][s].data.key = bDecided[i][t].data.key
    => VersionAt(i, s) <= VersionAt(i, t)

(***************************************************************************)
(* All executions of an instance are told the same, in the same order: the *)
(* first entry of each step, whoever appended it and however late; success *)
(* means that all of it was told.  The assertions of the library, on the   *)
(* order of steps, on finding the step just appended and on the fields of  *)
(* an entry, never fail on the way.                                        *)
(***************************************************************************)
BokiOneOutcome ==
  \A e \in BExecutor :
    LET decided == bDecided[BInstanceOf[e]]
    IN  /\ bPc[e] # "panic"
        /\ Len(bTold[e]) <= Len(decided)
        /\ \A n \in DOMAIN bTold[e] : bTold[e][n] = decided[n].data
        /\ bPc[e] = "done" => Len(bTold[e]) = Len(bProgram[BInstanceOf[e]])
=============================================================================
