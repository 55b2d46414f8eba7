------------------------------ MODULE IntentLog ------------------------------
(***************************************************************************)
(* The intent step log of the Halfmoon client library:                     *)
(* src/workloads/workflow/optimal/pkg/cayonlib/loglib.go and the part of   *)
(* controlflow.go that starts, replays and ends one execution.             *)
(*                                                                         *)
(* An INSTANCE is one logical invocation of a function.  An EXECUTOR is    *)
(* one process running Call for that instance; an instance is executed     *)
(* again after a crash, and several executors may run it at once.  Every   *)
(* nondeterministic step of the handler is proposed to the stream of the   *)
(* instance with a conditional append, and an execution first replays the  *)
(* steps that earlier executions left there.                               *)
(*                                                                         *)
(* The shared log itself is a service outside the repository.  It is       *)
(* modelled by what the library uses of it: sequence numbers that grow     *)
(* over the whole log, the sub-stream of one tag, ReadNext, and an append  *)
(* that fails when a given position of a stream is already taken.          *)
(***************************************************************************)
EXTENDS Naturals, Sequences

CONSTANTS
  Instance,     \* instance ids
  Executor,     \* processes that execute an instance
  InstanceOf,   \* the instance each executor runs
  Data,         \* what a step can log: a read result, a callee id, a time
  None,         \* the nil a handler gets back when its proposal lost
  NumSteps,     \* steps the handler proposes
  CallSeqNum,   \* InputWrapper.SeqNum: where the execution starts to read
  ChecksExit,   \* does the handler look at env.Instruction after each step?
  MaxCrashes    \* bound on crashes, so that an execution can complete

ASSUME InstanceOfAssumption == InstanceOf \in [Executor -> Instance]
ASSUME NoneAssumption == None \notin Data
ASSUME NumStepsAssumption == NumSteps \in Nat \ {0}
ASSUME CallSeqNumAssumption == CallSeqNum \in Nat
ASSUME ChecksExitAssumption == ChecksExit \in BOOLEAN
ASSUME MaxCrashesAssumption == MaxCrashes \in Nat

VARIABLES
  logTail,  \* the last sequence number the shared log issued
  stream,   \* stream[i]: the entries tagged IntentStepStreamTag(i)
  pc,       \* where each executor is
  env,      \* the Env of each execution: StepNumber, SeqNum, exit
  fsm,      \* the IntentFsm of each execution
  seen,     \* what ProposeNextStep has returned to the handler, per step
  crashes   \* crashes so far

execVars == <<pc, env, fsm, seen>>
vars == <<logTail, stream, pc, env, fsm, seen, crashes>>

(***************************************************************************)
(* IntentLogEntry.  Sequence number 0 is never issued: it stands for the   *)
(* nil tail of a fresh IntentFsm.                                          *)
(***************************************************************************)
IntentLogEntry == [seqNum : Nat, stepNumber : Nat, data : Data]

NewIntentFsm == [stepNumber |-> 0, tail |-> 0, stepLogs |-> [s \in {} |-> 0]]

NewEnv == [stepNumber |-> 0, seqNum |-> CallSeqNum, exit |-> FALSE]

\* applyLog panics: the entry is for a new step that is not the next one.
NotMonotonic(f, entry) ==
  /\ entry.stepNumber \notin DOMAIN f.stepLogs
  /\ entry.stepNumber # f.stepNumber

\* applyLog: the first entry of a step is kept, later ones only move the tail.
applyLog(f, entry) ==
  LET step == entry.stepNumber
  IN  IF step \in DOMAIN f.stepLogs \/ step # f.stepNumber
      THEN [f EXCEPT !.tail = entry.seqNum]
      ELSE [stepNumber |-> f.stepNumber + 1,
            tail       |-> entry.seqNum,
            stepLogs   |-> [s \in DOMAIN f.stepLogs \cup {step} |->
                              IF s = step THEN entry ELSE f.stepLogs[s]]]

\* Mutant: one sequence number too far, so an adjacent entry is skipped.
IsNext_SkipsAdjacent(s, seq, k) ==
  /\ k \in 1 .. Len(s)
  /\ s[k].seqNum > seq + 1
  /\ \A j \in 1 .. k - 1 : s[j].seqNum <= seq + 1

\* SharedLogReadNext: the first position of s after sequence number seq.
IsNext(s, seq, k) ==
  /\ k \in 1 .. Len(s)
  /\ s[k].seqNum > seq
  /\ \A j \in 1 .. k - 1 : s[j].seqNum <= seq

\* Mutant: LibAppendLog instead of LibConditionalAppendLog.
CondOK_Unconditional(s, pos) == TRUE

\* SharedLogConditionalAppend succeeds: position pos of s is still free.
CondOK(s, pos) == Len(s) <= pos

-----------------------------------------------------------------------------
Init ==
  /\ logTail = CallSeqNum
  /\ stream = [i \in Instance |-> <<>>]
  /\ pc = [e \in Executor |-> "idle"]
  /\ env = [e \in Executor |-> NewEnv]
  /\ fsm = [e \in Executor |-> NewIntentFsm]
  /\ seen = [e \in Executor |-> <<>>]
  /\ crashes = 0

\* Mutant: the Env of the previous execution keeps its EXIT.
Call_KeepsExit(e) ==
  /\ pc[e] \notin {"catch", "run"}
  /\ pc' = [pc EXCEPT ![e] = "catch"]
  /\ env' = [env EXCEPT ![e] = [NewEnv EXCEPT !.exit = env[e].exit]]
  /\ fsm' = [fsm EXCEPT ![e] = NewIntentFsm]
  /\ seen' = [seen EXCEPT ![e] = <<>>]
  /\ UNCHANGED <<logTail, stream, crashes>>

\* Call up to Catch: a fresh Env and a fresh IntentFsm for this execution.
Call(e) ==
  /\ pc[e] \notin {"catch", "run"}
  /\ pc' = [pc EXCEPT ![e] = "catch"]
  /\ env' = [env EXCEPT ![e] = NewEnv]
  /\ fsm' = [fsm EXCEPT ![e] = NewIntentFsm]
  /\ seen' = [seen EXCEPT ![e] = <<>>]
  /\ UNCHANGED <<logTail, stream, crashes>>

\* One round of Catch: read the next entry of the stream and apply it.
CatchNext(e) ==
  LET s == stream[InstanceOf[e]]
  IN  /\ pc[e] = "catch"
      /\ \E k \in 1 .. Len(s) :
           /\ IsNext(s, fsm[e].tail, k)
           /\ fsm' = [fsm EXCEPT ![e] = applyLog(@, s[k])]
           /\ pc' = [pc EXCEPT ![e] = IF NotMonotonic(fsm[e], s[k])
                                      THEN "panic" ELSE "catch"]
      /\ UNCHANGED <<logTail, stream, env, seen, crashes>>

\* Catch found no further entry: the handler starts.
CatchDone(e) ==
  LET s == stream[InstanceOf[e]]
  IN  /\ pc[e] = "catch"
      /\ \A k \in 1 .. Len(s) : ~ IsNext(s, fsm[e].tail, k)
      /\ pc' = [pc EXCEPT ![e] = "run"]
      /\ UNCHANGED <<logTail, stream, env, fsm, seen, crashes>>

\* Only a callee is given a cursor by its caller.
IsRoot == CallSeqNum = 0

\* After a lost step: a handler that looks at env.Instruction returns, and
\* wrapperInternal does so after the intent log it proposes as step 0.
Returns(e) ==
  env[e].exit /\ (ChecksExit \/ (IsRoot /\ env[e].stepNumber = 1))

\* The handler is about to propose another step.
MayPropose(e) ==
  /\ pc[e] = "run"
  /\ env[e].stepNumber < NumSteps
  /\ ~ Returns(e)

\* What ProposeNextStep hands back for the step it was called for.
Return(e, result) == seen' = [seen EXCEPT ![e] = Append(@, result)]

\* Mutant: a replayed step does not move env.SeqNum.
ReplayStep_StaleCursor(e) ==
  LET step == env[e].stepNumber
  IN  /\ MayPropose(e)
      /\ step \in DOMAIN fsm[e].stepLogs
      /\ env' = [env EXCEPT ![e].stepNumber = step + 1]
      /\ Return(e, fsm[e].stepLogs[step].data)
      /\ UNCHANGED <<logTail, stream, pc, fsm, crashes>>

\* Mutant: the replay returns the newest step of the IntentFsm.
ReplayStep_Newest(e) ==
  LET step == env[e].stepNumber
  IN  /\ MayPropose(e)
      /\ step \in DOMAIN fsm[e].stepLogs
      /\ env' = [env EXCEPT ![e].stepNumber = step + 1,
                            ![e].seqNum = fsm[e].stepLogs[step].seqNum]
      /\ Return(e, fsm[e].stepLogs[fsm[e].stepNumber - 1].data)
      /\ UNCHANGED <<logTail, stream, pc, fsm, crashes>>

\* ProposeNextStep, the step is already in the log this execution replayed.
ReplayStep(e) ==
  LET step == env[e].stepNumber
  IN  /\ MayPropose(e)
      /\ step \in DOMAIN fsm[e].stepLogs
      /\ env' = [env EXCEPT ![e].stepNumber = step + 1,
                            ![e].seqNum = fsm[e].stepLogs[step].seqNum]
      /\ Return(e, fsm[e].stepLogs[step].data)
      /\ UNCHANGED <<logTail, stream, pc, fsm, crashes>>

\* The conditional append of this step succeeds and adds entry to the stream.
AppendOK(e, entry) ==
  LET i == InstanceOf[e]
  IN  /\ MayPropose(e)
      /\ entry.stepNumber \notin DOMAIN fsm[e].stepLogs
      /\ CondOK(stream[i], entry.stepNumber)
      /\ logTail' = entry.seqNum
      /\ stream' = [stream EXCEPT ![i] = Append(@, entry)]
      /\ fsm' = [fsm EXCEPT ![e] = applyLog(@, entry)]
      /\ UNCHANGED crashes

\* The IntentLogEntry that e proposes for its next step.
Proposal(e, d) ==
  [seqNum |-> logTail + 1, stepNumber |-> env[e].stepNumber, data |-> d]

\* ProposeNextStep, the conditional append succeeds and the entry is applied.
AppendStep(e, d) ==
  LET entry == Proposal(e, d)
  IN  /\ AppendOK(e, entry)
      /\ ~ NotMonotonic(fsm[e], entry)
      /\ env' = [env EXCEPT ![e].stepNumber = @ + 1, ![e].seqNum = entry.seqNum]
      /\ Return(e, d)
      /\ UNCHANGED pc

\* The same, but applyLog panics: the entry is in the log, the process is dead.
AppendPanic(e, d) ==
  LET entry == Proposal(e, d)
  IN  /\ AppendOK(e, entry)
      /\ NotMonotonic(fsm[e], entry)
      /\ env' = [env EXCEPT ![e].stepNumber = @ + 1]
      /\ pc' = [pc EXCEPT ![e] = "panic"]
      /\ UNCHANGED seen

\* Mutant: a lost step does not set env.Instruction to EXIT.
LoseStep_NoExit(e) ==
  LET step == env[e].stepNumber
  IN  /\ MayPropose(e)
      /\ step \notin DOMAIN fsm[e].stepLogs
      /\ ~ CondOK(stream[InstanceOf[e]], step)
      /\ env' = [env EXCEPT ![e].stepNumber = step + 1]
      /\ Return(e, None)
      /\ UNCHANGED <<logTail, stream, pc, fsm, crashes>>

\* ProposeNextStep, another execution took this position first.
LoseStep(e) ==
  LET step == env[e].stepNumber
  IN  /\ MayPropose(e)
      /\ step \notin DOMAIN fsm[e].stepLogs
      /\ ~ CondOK(stream[InstanceOf[e]], step)
      /\ env' = [env EXCEPT ![e].stepNumber = step + 1, ![e].exit = TRUE]
      /\ Return(e, None)
      /\ UNCHANGED <<logTail, stream, pc, fsm, crashes>>

\* Mutant: wrapperInternal does not look at env.Instruction.
Finish_IgnoresExit(e) ==
  /\ pc[e] = "run"
  /\ ~ MayPropose(e)
  /\ pc' = [pc EXCEPT ![e] = "done"]
  /\ UNCHANGED <<logTail, stream, env, fsm, seen, crashes>>

\* The handler returns; wrapperInternal turns EXIT into an error.
Finish(e) ==
  /\ pc[e] = "run"
  /\ ~ MayPropose(e)
  /\ pc' = [pc EXCEPT ![e] = IF env[e].exit THEN "exit" ELSE "done"]
  /\ UNCHANGED <<logTail, stream, env, fsm, seen, crashes>>

\* The process of an execution dies; only the shared log survives.
Crash(e) ==
  /\ pc[e] \in {"catch", "run"}
  /\ crashes < MaxCrashes
  /\ crashes' = crashes + 1
  /\ pc' = [pc EXCEPT ![e] = "idle"]
  /\ UNCHANGED <<logTail, stream, env, fsm, seen>>

ProposeNextStep(e) ==
  \/ ReplayStep(e)
  \/ \E d \in Data : AppendStep(e, d) \/ AppendPanic(e, d)
  \/ LoseStep(e)

Execute(e) ==
  Call(e) \/ CatchNext(e) \/ CatchDone(e) \/ ProposeNextStep(e) \/ Finish(e)

Next == \E e \in Executor : Execute(e) \/ Crash(e)

Spec == Init /\ [][Next]_vars

(***************************************************************************)
(* A process that is not crashed keeps running, and whoever invoked an     *)
(* instance invokes it again until an execution of it succeeds.            *)
(***************************************************************************)
FairSpec == Spec /\ \A e \in Executor : WF_vars(Execute(e))
-----------------------------------------------------------------------------
IsIntentFsm(f) == f \in [stepNumber : Nat, tail : Nat, stepLogs : {f.stepLogs}]

TypeOK ==
  /\ logTail \in Nat /\ logTail >= CallSeqNum
  /\ stream \in [Instance -> Seq(IntentLogEntry)]
  /\ pc \in [Executor -> {"idle", "catch", "run", "done", "exit", "panic"}]
  /\ env \in [Executor -> [stepNumber : Nat, seqNum : Nat, exit : BOOLEAN]]
  /\ fsm = [e \in Executor |-> fsm[e]]
  /\ \A e \in Executor : IsIntentFsm(fsm[e])
  /\ seen \in [Executor -> Seq(Data \cup {None})]
  /\ crashes \in 0 .. MaxCrashes

(***************************************************************************)
(* Position k of a stream holds step k - 1 and nothing else, in the order  *)
(* of the log: what Catch relies on when it replays, and what the          *)
(* condition of the append must ensure however many executions race.       *)
(***************************************************************************)
OneEntryPerStep ==
  \A i \in Instance : \A k \in 1 .. Len(stream[i]) :
    /\ stream[i][k].stepNumber = k - 1
    /\ stream[i][k].seqNum \in CallSeqNum + 1 .. logTail
    /\ \A j \in 1 .. k - 1 : stream[i][j].seqNum < stream[i][k].seqNum

(***************************************************************************)
(* Exactly-once: whatever an execution was told a step returned, in this   *)
(* or another process, before or after a crash, is what the log says that  *)
(* step returned.  Only a proposal that lost returns nil.                  *)
(***************************************************************************)
Told(e) ==
  LET log == stream[InstanceOf[e]]
  IN  \A s \in 1 .. Len(seen[e]) :
        /\ s <= Len(log)
        /\ seen[e][s] \in {log[s].data, None}
        /\ ~ env[e].exit => seen[e][s] = log[s].data

ReplayAgreement == \A e \in Executor : Told(e)

(***************************************************************************)
(* The cursor env.SeqNum, which decides the versions a log-free read sees  *)
(* and a log-free write is ordered by, depends only on the step reached:   *)
(* two executions of an instance at the same step have the same cursor.    *)
(***************************************************************************)
CursorAgreement ==
  \A e1, e2 \in Executor :
    /\ InstanceOf[e1] = InstanceOf[e2]
    /\ env[e1].stepNumber = env[e2].stepNumber
    /\ ~ env[e1].exit /\ ~ env[e2].exit
    => env[e1].seqNum = env[e2].seqNum

(***************************************************************************)
(* The "StepNumber is not monotonic" panic of applyLog: replaying a log    *)
(* never raises it, an execution that has not lost a step never does.      *)
(***************************************************************************)
PanicOnlyAfterExit == \A e \in Executor : pc[e] = "panic" => env[e].exit

(***************************************************************************)
(* What the panic in applyLog asserts: it is never reached.                *)
(***************************************************************************)
StepNumberMonotonic == \A e \in Executor : pc[e] # "panic"

(***************************************************************************)
(* An execution that reports success has been through every step, and its  *)
(* view of all of them is the log's.                                       *)
(***************************************************************************)
DoneIsComplete ==
  \A e \in Executor : pc[e] = "done" =>
    /\ Len(stream[InstanceOf[e]]) = NumSteps
    /\ seen[e] = [k \in 1 .. NumSteps |-> stream[InstanceOf[e]][k].data]

(***************************************************************************)
(* The inductive invariant.  Until a process dies its IntentFsm is a       *)
(* prefix of the stream, its cursor is that of the step it reached, and as *)
(* long as it has not lost a step it is not ahead of its IntentFsm.        *)
(***************************************************************************)
IsPrefix(f, s) ==
  /\ f.stepNumber <= Len(s)
  /\ DOMAIN f.stepLogs = 0 .. f.stepNumber - 1
  /\ \A k \in 0 .. f.stepNumber - 1 : f.stepLogs[k] = s[k + 1]
  /\ f.tail = IF f.stepNumber = 0 THEN 0 ELSE s[f.stepNumber].seqNum

AtStep(e) ==
  LET s == stream[InstanceOf[e]]
      n == env[e].stepNumber
  IN  /\ n <= Len(s)
      /\ Len(seen[e]) = n
      /\ ~ env[e].exit =>
           /\ n <= fsm[e].stepNumber
           /\ env[e].seqNum = IF n = 0 THEN CallSeqNum ELSE s[n].seqNum

ExecOK(e) ==
  /\ Told(e)
  /\ pc[e] = "panic" => env[e].exit
  /\ pc[e] # "panic" => IsPrefix(fsm[e], stream[InstanceOf[e]]) /\ AtStep(e)
  /\ pc[e] = "catch" => env[e] = NewEnv
  /\ pc[e] = "done" => ~ env[e].exit /\ env[e].stepNumber = NumSteps

IndInv ==
  /\ TypeOK
  /\ OneEntryPerStep
  /\ \A i \in Instance : Len(stream[i]) <= NumSteps
  /\ \A e \in Executor : ExecOK(e)

(***************************************************************************)
(* The log-backed library implements the abstract promise: decisions are   *)
(* the entries of the stream, success is a return without EXIT.            *)
(***************************************************************************)
Decided ==
  [i \in Instance |-> [k \in 1 .. Len(stream[i]) |-> stream[i][k].data]]

Succeeded == [e \in Executor |-> pc[e] = "done"]

Promise == INSTANCE ExactlyOnce WITH
  decided <- Decided, observed <- seen, success <- Succeeded

ImplementsExactlyOnce == Promise!Spec

(***************************************************************************)
(* Every instance is executed to the end in spite of crashes and of the    *)
(* executions that race for its steps and exit.                            *)
(***************************************************************************)
EventuallyDone ==
  \A i \in Instance : <>(\E e \in Executor : InstanceOf[e] = i /\ pc[e] = "done")
=============================================================================
