-------------------------------- MODULE Invoke --------------------------------
(***************************************************************************)
(* Functions that invoke functions:                                        *)
(* src/workloads/workflow/optimal/pkg/cayonlib/controlflow.go, SyncInvoke, *)
(* ProposeInvoke with AssignedSyncInvoke, AsyncInvoke, and the end of      *)
(* wrapperInternal in a callee.                                            *)
(*                                                                         *)
(* An invocation is a step of the caller: a PreInvoke entry in the log of  *)
(* the caller fixes the instance id of the callee and the cursor it starts *)
(* with.  The callee may run several times, for several executions of the  *)
(* caller at once; when it has its result it overwrites the PreInvoke      *)
(* entry with it and then answers.                                         *)
(*                                                                         *)
(* The callers are executors of IntentLog, whose actions are used as they  *)
(* are.  A callee is taken as what ExactlyOnce promises of an instance:    *)
(* its executions agree on one result, and any of them may fail at any     *)
(* point.  An overwrite of the shared log, which is external, replaces the *)
(* data of an entry and leaves its sequence number.  The branches for a    *)
(* replayed InvokeResult (controlflow.go 138-141) are not reachable: Catch *)
(* ends the process before it applies such an entry, see HashCollision.    *)
(***************************************************************************)
EXTENDS IntentLog, FiniteSets

CONSTANTS
  CalleeId,  \* what shortuuid.New() gives
  Output,    \* results of callees
  NoCaller,  \* nobody waits for the answer of an execution
  Program    \* Program[i]: what the handler of i does, step by step

Kind == {"sync", "fork", "async"}

ASSUME ProgramKinds == Program \in [Instance -> [1 .. NumSteps -> Kind]]
ASSUME NoCallerAssumption == NoCaller \notin Executor

VARIABLES
  calls,    \* calls[e]: invocations of e that have no answer yet
  runs,     \* executions of callees
  result,   \* result[c]: the result of callee c, None before it has one
  told,     \* told[i][s]: what the invocation at step s ever returned: output, id
  started   \* callees that have been started

invokeVars == <<calls, runs, result, told, started>>
allVars == <<logTail, stream, pc, env, fsm, seen, crashes, calls, runs, result, told, started>>

\* What callers log.
InvokeData == [type : {"PreInvoke"}, callee : CalleeId]

PreInvokeData(c) == [type |-> "PreInvoke", callee |-> c]

\* LogStepResultForCaller logs its data bare, without an IntentLogEntry around
\* it: read as one, it has step 0 and the instance id of the callee.
ResultEntry(entry, c) ==
  [seqNum |-> entry.seqNum, stepNumber |-> 0,
   data |-> [type |-> "InvokeResult", callee |-> c, output |-> result[c]]]

IsForeign(entry) == entry.data.type = "InvokeResult"

InvokeInit ==
  /\ Init
  /\ calls = [e \in Executor |-> {}]
  /\ runs = {}
  /\ result = [c \in CalleeId |-> None]
  /\ told = [i \in Instance |-> [s \in 0 .. NumSteps - 1 |-> {}]]
  /\ started = {}

-----------------------------------------------------------------------------
(***************************************************************************)
(* The caller.                                                             *)
(***************************************************************************)
\* What the handler of e does next.
KindOf(e) == Program[InstanceOf[e]][env[e].stepNumber + 1]

\* A synchronous invocation blocks the handler, forked ones do not.
Blocked(e) == \E c \in calls[e] : c.kind \in {"sync", "async"}

\* A uuid that no entry of a log has.
Fresh(c) ==
  \A i \in Instance : \A k \in 1 .. Len(stream[i]) :
    stream[i][k].data.callee # c

CallOf(e, c, seq) ==
  [step |-> env[e].stepNumber, seqNum |-> seq, callee |-> c, kind |-> KindOf(e), sent |-> FALSE]

AddCall(e, c, seq) == calls' = [calls EXCEPT ![e] = @ \cup {CallOf(e, c, seq)}]

\* The handler makes its next invocation.
MayInvoke(e) == MayPropose(e) /\ ~ Blocked(e)

\* The PreInvoke entry is new ...
PreInvoke(e, c) ==
  /\ MayInvoke(e)
  /\ Fresh(c)
  /\ AppendStep(e, PreInvokeData(c))
  /\ AddCall(e, c, logTail + 1)
  /\ UNCHANGED <<runs, result, told, started>>

\* Mutant: the id made for this execution, not the one in the log.
SeenPreInvoke_NewId(e) ==
  /\ MayInvoke(e)
  /\ ReplayStep(e)
  /\ \E c \in CalleeId :
       Fresh(c) /\ AddCall(e, c, fsm[e].stepLogs[env[e].stepNumber].seqNum)
  /\ UNCHANGED <<runs, result, told, started>>

\* ... or replayed: the callee is the one in the log.
SeenPreInvoke(e) ==
  LET entry == fsm[e].stepLogs[env[e].stepNumber]
  IN  /\ MayInvoke(e)
      /\ ReplayStep(e)
      /\ AddCall(e, entry.data.callee, entry.seqNum)
      /\ UNCHANGED <<runs, result, told, started>>

\* ... or lost, and nothing is invoked.
LoseInvoke(e) == MayInvoke(e) /\ LoseStep(e) /\ UNCHANGED invokeVars

\* The caller dies; the callees it started go on.
Abandon(e) ==
  /\ calls' = [calls EXCEPT ![e] = {}]
  /\ runs' = {[r EXCEPT !.by = IF @ = e THEN NoCaller ELSE @] : r \in runs}
  /\ UNCHANGED <<result, told, started>>

\* The append of any step may be followed by the panic of applyLog.
ProposePanic(e) ==
  /\ MayInvoke(e)
  /\ \E c \in CalleeId : Fresh(c) /\ AppendPanic(e, PreInvokeData(c))
  /\ Abandon(e)

-----------------------------------------------------------------------------
(***************************************************************************)
(* Invocations and the executions of callees.                              *)
(***************************************************************************)
\* The InputWrapper of an execution of a callee, and how far it is.  The callee
\* of a caller that lost a step, or saw a callee fail, gets its EXIT as well;
\* AsyncInvoke leaves Instruction empty.
RunOf(e, c) ==
  [callee |-> c.callee, callerId |-> InstanceOf[e], callerStep |-> c.step,
   seqNum |-> c.seqNum, at |-> "run",
   by |-> IF c.kind = "async" THEN NoCaller ELSE e,
   exit |-> env[e].exit /\ c.kind # "async"]

\* InvokeFunc, or InvokeFuncAsync, which returns when the request is accepted.
Invoke(e) ==
  \E c \in calls[e] :
    /\ pc[e] = "run"
    /\ ~ c.sent
    /\ runs' = runs \cup {RunOf(e, c)}
    /\ started' = started \cup {c.callee}
    /\ calls' = [calls EXCEPT ![e] =
                   IF c.kind = "async" THEN @ \ {c}
                   ELSE (@ \ {c}) \cup {[c EXCEPT !.sent = TRUE]}]
    /\ UNCHANGED <<vars, result, told>>

\* The steps of the callee are decided, and so is its result.
CalleeDecides(r) ==
  /\ r.at = "run"
  /\ result[r.callee] = None
  /\ \E o \in Output : result' = [result EXCEPT ![r.callee] = o]
  /\ UNCHANGED <<vars, calls, runs, told, started>>

\* LogStepResultForCaller.
Overwrite(i, step, c) ==
  stream' = [stream EXCEPT ![i][step + 1] = ResultEntry(@, c)]

\* The handler of the callee is through and logs its result for the caller.
CalleeLogs(r) ==
  /\ r.at = "run"
  /\ ~ r.exit
  /\ result[r.callee] # None
  /\ Overwrite(r.callerId, r.callerStep, r.callee)
  /\ runs' = (runs \ {r}) \cup {q \in {[r EXCEPT !.at = "logged"]} : q.by # NoCaller}
  /\ UNCHANGED <<logTail, pc, env, fsm, seen, crashes, calls, result, told, started>>

\* The call of e that r is an execution for.
Answered(e, r) ==
  {c \in calls[e] : c.sent /\ c.step = r.callerStep /\ c.callee = r.callee}

\* The callee answers with its output, to whoever still waits.
CalleeReturns(r) ==
  /\ r.at = "logged"
  /\ runs' = runs \ {r}
  /\ IF r.by = NoCaller
     THEN UNCHANGED <<calls, told>>
     ELSE /\ calls' = [calls EXCEPT ![r.by] = @ \ Answered(r.by, r)]
          /\ told' = [told EXCEPT ![r.callerId][r.callerStep] =
                        @ \cup {<<result[r.callee], r.callee>>}]
  /\ UNCHANGED <<vars, result, started>>

\* Mutant: the error of InvokeFunc is ignored.
CalleeFails_Ignored(r) ==
  /\ runs' = runs \ {r}
  /\ IF r.by = NoCaller
     THEN UNCHANGED calls
     ELSE calls' = [calls EXCEPT ![r.by] = @ \ Answered(r.by, r)]
  /\ UNCHANGED <<vars, result, told, started>>

\* An execution of a callee exits or dies, or its answer is lost: the caller
\* gets an error and is to exit.
CalleeFails(r) ==
  /\ runs' = runs \ {r}
  /\ IF r.by = NoCaller
     THEN UNCHANGED <<calls, env>>
     ELSE /\ calls' = [calls EXCEPT ![r.by] = @ \ Answered(r.by, r)]
          /\ env' = [env EXCEPT ![r.by].exit = TRUE]
  /\ UNCHANGED <<logTail, stream, pc, fsm, seen, crashes, result, told, started>>

CalleeStep(r) == CalleeDecides(r) \/ CalleeLogs(r) \/ CalleeReturns(r) \/ CalleeFails(r)
-----------------------------------------------------------------------------
(***************************************************************************)
(* The life of an execution of a caller.                                   *)
(***************************************************************************)
Begin(e) == Call(e) /\ UNCHANGED invokeVars

\* The next entry Catch reads names another instance.
NextIsForeign(e) ==
  LET s == stream[InstanceOf[e]]
  IN  \E k \in 1 .. Len(s) : IsNext(s, fsm[e].tail, k) /\ IsForeign(s[k])

\* Catch reads an entry of its own instance, or finds no more ...
Replay(e) ==
  /\ ~ NextIsForeign(e)
  /\ CatchNext(e) \/ CatchDone(e)
  /\ UNCHANGED invokeVars

\* ... or reads one of another instance, and kills the process.
HashCollision(e) ==
  /\ pc[e] = "catch"
  /\ NextIsForeign(e)
  /\ pc' = [pc EXCEPT ![e] = "fatal"]
  /\ UNCHANGED <<logTail, stream, env, fsm, seen, crashes, invokeVars>>

\* Forked invocations are joined before the handler returns.
End(e) == calls[e] = {} /\ Finish(e) /\ UNCHANGED invokeVars

\* A crash at any point.
Die(e) == Crash(e) /\ Abandon(e)

Caller(e) ==
  \/ Begin(e) \/ Replay(e) \/ HashCollision(e) \/ End(e)
  \/ SeenPreInvoke(e) \/ LoseInvoke(e) \/ ProposePanic(e)
  \/ \E c \in CalleeId : PreInvoke(e, c)
  \/ Invoke(e)

InvokeNext ==
  \/ \E e \in Executor : Caller(e) \/ Die(e)
  \/ \E r \in runs : CalleeStep(r)

InvokeSpec == InvokeInit /\ [][InvokeNext]_allVars
-----------------------------------------------------------------------------
(***************************************************************************)
(* However many executions of a caller race, only the callee that the log  *)
(* names for a step is ever started for it, all its executions start from  *)
(* the cursor of that entry, and every execution of the caller that gets   *)
(* an answer to the invocation gets the same one.                          *)
(***************************************************************************)
CalleesAreLogged ==
  \A r \in runs :
    \E k \in DOMAIN stream[r.callerId] :
      /\ k = r.callerStep + 1
      /\ stream[r.callerId][k].data.callee = r.callee
      /\ stream[r.callerId][k].seqNum = r.seqNum

OneResult ==
  /\ CalleesAreLogged
  /\ \A i \in Instance : \A s \in DOMAIN told[i] : Cardinality(told[i][s]) <= 1

(***************************************************************************)
(* A caller that reports success has invoked everything its log says it    *)
(* invokes, and has waited for the result where it had to.                 *)
(***************************************************************************)
SuccessIncludesCallees ==
  \A e \in Executor : pc[e] = "done" =>
    \A s \in 0 .. NumSteps - 1 :
      LET i == InstanceOf[e]
          c == stream[i][s + 1].data.callee
      IN  /\ c \in started
          /\ Program[i][s + 1] \in {"sync", "fork"} => result[c] # None /\ told[i][s] = {<<result[c], c>>}

(***************************************************************************)
(* What the log.Fatalf in Catch asserts: the entries of the stream of an   *)
(* instance are its own.                                                   *)
(***************************************************************************)
NoHashCollision == \A e \in Executor : pc[e] # "fatal"
=============================================================================
