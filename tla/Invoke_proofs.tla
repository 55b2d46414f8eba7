----------------------------- MODULE Invoke_proofs -----------------------------
(***************************************************************************)
(* Proofs about Invoke: the executions of a caller get one result per      *)
(* invocation, and a caller that succeeds has all of them, for any number  *)
(* of callers, executions, callees and crashes.                            *)
(***************************************************************************)
EXTENDS Invoke, FiniteSetTheorems, TLAPS

StepIndex == 0 .. NumSteps - 1

\* What a stream of a caller holds: steps, and results of callees over them.
LogEntry ==
  [seqNum : Nat, stepNumber : Nat,
   data : InvokeData \cup [type : {"InvokeResult"}, callee : CalleeId, output : Output]]

CallRecord ==
  [step : StepIndex, seqNum : Nat, callee : CalleeId, kind : Kind, sent : BOOLEAN]

RunRecord ==
  [callee : CalleeId, callerId : Instance, callerStep : StepIndex, seqNum : Nat,
   at : {"run", "logged"}, by : Executor \cup {NoCaller}, exit : BOOLEAN]

InvokeTypeOK ==
  /\ logTail \in Nat /\ logTail >= CallSeqNum
  /\ stream \in [Instance -> Seq(LogEntry)]
  /\ pc \in [Executor -> {"idle", "catch", "run", "done", "exit", "panic", "fatal"}]
  /\ env \in [Executor -> [stepNumber : Nat, seqNum : Nat, exit : BOOLEAN]]
  /\ fsm = [e \in Executor |-> fsm[e]]
  /\ \A e \in Executor : IsIntentFsm(fsm[e])
  /\ calls \in [Executor -> SUBSET CallRecord]
  /\ runs \in SUBSET RunRecord
  /\ result \in [CalleeId -> Output \cup {None}]
  /\ told \in [Instance -> [StepIndex -> SUBSET (Output \X CalleeId)]]
  /\ started \in SUBSET CalleeId

(***************************************************************************)
(* A stream is ordered, position k holds step k - 1 until the result of    *)
(* its callee replaces it.                                                 *)
(***************************************************************************)
StreamOK(s) ==
  \A k \in 1 .. Len(s) :
    /\ s[k].seqNum > 0 /\ s[k].seqNum <= logTail
    /\ \A j \in 1 .. k - 1 : s[j].seqNum < s[k].seqNum
    /\ ~ IsForeign(s[k]) => s[k].stepNumber = k - 1

\* Entry x of an execution is the one that the stream has or had at position k.
SameStep(x, s, k) == x.data.callee = s[k].data.callee /\ x.seqNum = s[k].seqNum

(***************************************************************************)
(* An execution that is alive has replayed a prefix of its stream, and is  *)
(* not ahead of the stream.                                                *)
(***************************************************************************)
Follows(f, s) ==
  /\ f.stepNumber <= Len(s)
  /\ DOMAIN f.stepLogs = 0 .. f.stepNumber - 1
  /\ \A k \in 0 .. f.stepNumber - 1 :
       /\ f.stepLogs[k] \in LogEntry
       /\ SameStep(f.stepLogs[k], s, k + 1)
  /\ f.tail = IF f.stepNumber = 0 THEN 0 ELSE s[f.stepNumber].seqNum

AliveOK(e) ==
  LET s == stream[InstanceOf[e]]
  IN  /\ Follows(fsm[e], s)
      /\ env[e].stepNumber <= Len(s)
      /\ pc[e] = "catch" => env[e].stepNumber = 0

(***************************************************************************)
(* The invocations of an execution are steps of its log, one behind the    *)
(* other; one that was sent has started its callee, and it waits for it.   *)
(***************************************************************************)
CallOK(e, x) ==
  LET s == stream[InstanceOf[e]]
  IN  /\ x.step < Len(s)
      /\ x.callee = s[x.step + 1].data.callee
      /\ x.seqNum = s[x.step + 1].seqNum
      /\ x.kind = Program[InstanceOf[e]][x.step + 1]
      /\ x.sent => x.callee \in started /\ x.kind # "async"

\* An execution of a callee is one of the callee that the log of the caller names.
RunOK(r) ==
  LET s == stream[r.callerId]
  IN  /\ r.callerStep < Len(s)
      /\ r.callee = s[r.callerStep + 1].data.callee
      /\ r.seqNum = s[r.callerStep + 1].seqNum
      /\ r.by # NoCaller => InstanceOf[r.by] = r.callerId
      /\ r.at = "logged" => result[r.callee] # None

\* What the invocation at step s returned is the result of its callee.
ToldOK(i, s) ==
  \A t \in told[i][s] :
    /\ s < Len(stream[i])
    /\ LET c == stream[i][s + 1].data.callee
       IN  result[c] # None /\ t = <<result[c], c>>

\* Step s of i has been invoked, and answered unless nobody waits for it.
StepOver(i, s) ==
  LET c == stream[i][s + 1].data.callee
  IN  /\ c \in started
      /\ Program[i][s + 1] # "async" => result[c] # None /\ told[i][s] = {<<result[c], c>>}

(***************************************************************************)
(* What an execution has behind it that lost no step and saw no callee     *)
(* fail: every step is over, or its invocation still waits.                *)
(***************************************************************************)
Waits(e, s) == \E x \in calls[e] : x.step = s

ProgressOK(e) ==
  /\ pc[e] = "run" /\ ~ env[e].exit =>
       \A s \in StepIndex : s < env[e].stepNumber =>
         Waits(e, s) \/ StepOver(InstanceOf[e], s)
  /\ pc[e] = "done" =>
       /\ NumSteps <= Len(stream[InstanceOf[e]])
       /\ \A s \in StepIndex : StepOver(InstanceOf[e], s)

InvokeInv ==
  /\ InvokeTypeOK
  /\ \A i \in Instance : StreamOK(stream[i])
  /\ \A e \in Executor : pc[e] \in {"catch", "run"} => AliveOK(e)
  /\ \A e \in Executor : \A x \in calls[e] : CallOK(e, x)
  /\ \A r \in runs : RunOK(r)
  /\ \A i \in Instance : \A s \in StepIndex : ToldOK(i, s)
  /\ \A e \in Executor : ProgressOK(e)
-----------------------------------------------------------------------------
USE InstanceOfAssumption, NumStepsAssumption, CallSeqNumAssumption

(***************************************************************************)
(* What no step undoes: entries stay at their position and keep callee and *)
(* sequence number, a callee that was started or has a result stays so,    *)
(* and an answer is not taken back.                                        *)
(***************************************************************************)
Grows ==
  /\ \A i \in Instance :
       /\ Len(stream[i]) <= Len(stream'[i])
       /\ \A k \in 1 .. Len(stream[i]) : SameStep(stream'[i][k], stream[i], k)
  /\ started \subseteq started'
  /\ \A c \in CalleeId : result[c] # None => result'[c] = result[c]
  /\ \A i \in Instance : \A s \in StepIndex : told[i][s] \subseteq told'[i][s]

LEMMA Entries ==
  ASSUME InvokeTypeOK, NEW i \in Instance
  PROVE  /\ stream[i] \in Seq(LogEntry) /\ Len(stream[i]) \in Nat
         /\ \A k \in 1 .. Len(stream[i]) :
              /\ stream[i][k] \in LogEntry
              /\ stream[i][k].seqNum \in Nat /\ stream[i][k].stepNumber \in Nat
              /\ stream[i][k].data.callee \in CalleeId
<1>1. stream[i] \in Seq(LogEntry) /\ Len(stream[i]) \in Nat
  BY DEF InvokeTypeOK
<1>2. ASSUME NEW k \in 1 .. Len(stream[i])
      PROVE  stream[i][k] \in LogEntry
  BY <1>1
<1>3. ASSUME NEW x \in LogEntry
      PROVE  x.seqNum \in Nat /\ x.stepNumber \in Nat /\ x.data.callee \in CalleeId
  BY DEF LogEntry, InvokeData
<1> QED BY <1>1, <1>2, <1>3

\* An execution that is left alone keeps following its stream.
LEMMA KeepAlive ==
  ASSUME InvokeTypeOK, InvokeTypeOK', Grows, NEW e \in Executor, AliveOK(e),
         fsm'[e] = fsm[e], env'[e].stepNumber = env[e].stepNumber,
         pc'[e] = "catch" => pc[e] = "catch"
  PROVE  AliveOK(e)'
<1> DEFINE i == InstanceOf[e]
           f == fsm[e]
<1>1. i \in Instance
  OBVIOUS
<1>2. /\ Len(stream[i]) \in Nat /\ Len(stream'[i]) \in Nat
      /\ Len(stream[i]) <= Len(stream'[i])
      /\ \A k \in 1 .. Len(stream[i]) : SameStep(stream'[i][k], stream[i], k)
  BY <1>1 DEF InvokeTypeOK, Grows
<1>3. f.stepNumber \in Nat /\ env[e].stepNumber \in Nat
  BY DEF InvokeTypeOK, IsIntentFsm
<1> HIDE DEF i, f
<1>4. ASSUME Follows(f, stream[i]) PROVE Follows(f, stream'[i])
  <2>1. f.stepNumber <= Len(stream'[i])
    BY <1>2, <1>3, <1>4 DEF Follows
  <2>2. ASSUME NEW k \in 0 .. f.stepNumber - 1
        PROVE  f.stepLogs[k] \in LogEntry /\ SameStep(f.stepLogs[k], stream'[i], k + 1)
    <3>1. k + 1 \in 1 .. Len(stream[i])
      BY <1>2, <1>3, <1>4 DEF Follows
    <3> QED BY <1>2, <1>4, <3>1 DEF Follows, SameStep
  <2>3. f.tail = IF f.stepNumber = 0 THEN 0 ELSE stream'[i][f.stepNumber].seqNum
    <3>1. CASE f.stepNumber = 0
      BY <1>4, <3>1 DEF Follows
    <3>2. CASE f.stepNumber # 0
      <4>1. f.stepNumber \in 1 .. Len(stream[i])
        BY <1>2, <1>3, <1>4, <3>2 DEF Follows
      <4> QED BY <1>2, <1>4, <3>2, <4>1 DEF Follows, SameStep
    <3> QED BY <3>1, <3>2
  <2> QED BY <1>4, <2>1, <2>2, <2>3 DEF Follows
<1>5. Follows(f, stream'[i])
  BY <1>4 DEF AliveOK, i, f
<1>6. env[e].stepNumber <= Len(stream'[i])
  BY <1>2, <1>3 DEF AliveOK, i
<1> QED BY <1>5, <1>6 DEF AliveOK, i, f

\* A step of a stream names the same callee ever after.
LEMMA KeepEntry ==
  ASSUME InvokeTypeOK, InvokeTypeOK', Grows,
         NEW i \in Instance, NEW s \in StepIndex, s < Len(stream[i])
  PROVE  /\ s + 1 \in 1 .. Len(stream[i]) /\ s < Len(stream'[i])
         /\ stream'[i][s + 1].data.callee = stream[i][s + 1].data.callee
         /\ stream'[i][s + 1].seqNum = stream[i][s + 1].seqNum
<1>1. s \in Nat /\ Len(stream[i]) \in Nat /\ Len(stream'[i]) \in Nat
  BY Entries DEF StepIndex, InvokeTypeOK
<1>2. s + 1 \in 1 .. Len(stream[i])
  BY <1>1
<1>3. SameStep(stream'[i][s + 1], stream[i], s + 1) /\ Len(stream[i]) <= Len(stream'[i])
  BY <1>2 DEF Grows
<1> QED BY <1>1, <1>2, <1>3 DEF SameStep

LEMMA KeepCall ==
  ASSUME InvokeTypeOK, InvokeTypeOK', Grows, NEW e \in Executor, NEW x \in CallRecord, CallOK(e, x)
  PROVE  CallOK(e, x)'
<1>1. InstanceOf[e] \in Instance /\ x.step \in StepIndex /\ x.step < Len(stream[InstanceOf[e]])
  BY DEF CallOK, CallRecord
<1>2. Len(stream'[InstanceOf[e]]) \in Nat
  BY <1>1 DEF InvokeTypeOK
<1>3. started \subseteq started'
  BY DEF Grows
<1> QED BY <1>1, <1>2, <1>3, KeepEntry DEF CallOK

LEMMA KeepRun ==
  ASSUME InvokeTypeOK, InvokeTypeOK', Grows, NEW r \in RunRecord, RunOK(r)
  PROVE  RunOK(r)'
<1>1. /\ r.callerId \in Instance /\ r.callerStep \in StepIndex /\ r.callee \in CalleeId
      /\ r.callerStep < Len(stream[r.callerId])
  BY DEF RunOK, RunRecord
<1>2. Len(stream'[r.callerId]) \in Nat
  BY <1>1 DEF InvokeTypeOK
<1>3. result[r.callee] # None => result'[r.callee] # None
  BY <1>1 DEF Grows
<1> QED BY <1>1, <1>2, <1>3, KeepEntry DEF RunOK

LEMMA KeepTold ==
  ASSUME InvokeTypeOK, InvokeTypeOK', Grows, NEW i \in Instance, NEW s \in StepIndex,
         ToldOK(i, s), told'[i][s] = told[i][s]
  PROVE  ToldOK(i, s)'
<1> SUFFICES ASSUME NEW t \in told[i][s]
             PROVE  /\ s < Len(stream'[i])
                    /\ result'[stream'[i][s + 1].data.callee] # None
                    /\ t = <<result'[stream'[i][s + 1].data.callee], stream'[i][s + 1].data.callee>>
  BY DEF ToldOK
<1>1. s < Len(stream[i]) /\ Len(stream'[i]) \in Nat
  BY DEF ToldOK, InvokeTypeOK
<1>2. /\ s < Len(stream'[i]) /\ s + 1 \in 1 .. Len(stream[i])
      /\ stream'[i][s + 1].data.callee = stream[i][s + 1].data.callee
  BY <1>1, KeepEntry
<1>3. stream[i][s + 1].data.callee \in CalleeId
  BY <1>2, Entries
<1> QED BY <1>2, <1>3 DEF ToldOK, Grows

LEMMA KeepOver ==
  ASSUME InvokeTypeOK, InvokeTypeOK', Grows, NEW i \in Instance, NEW s \in StepIndex,
         ToldOK(i, s)', s < Len(stream[i]), StepOver(i, s)
  PROVE  StepOver(i, s)'
<1> DEFINE c == stream[i][s + 1].data.callee
<1>1. Len(stream'[i]) \in Nat
  BY DEF InvokeTypeOK
<1>2. c \in CalleeId /\ stream'[i][s + 1].data.callee = c
  BY <1>1, KeepEntry, Entries
<1>3. c \in started /\ (Program[i][s + 1] # "async" => result[c] # None /\ told[i][s] = {<<result[c], c>>})
  BY DEF StepOver
<1>4. \A t \in told'[i][s] : t = <<result'[c], c>>
  BY <1>2 DEF ToldOK
<1> HIDE DEF c
<1>5. /\ c \in started' /\ told[i][s] \subseteq told'[i][s]
      /\ result[c] # None => result'[c] = result[c]
  BY <1>2, <1>3 DEF Grows
<1>6. Program[i][s + 1] # "async" => result'[c] # None /\ told'[i][s] = {<<result'[c], c>>}
  BY <1>3, <1>4, <1>5
<1> QED BY <1>2, <1>5, <1>6 DEF StepOver
(***************************************************************************)
(* How a step keeps the invariant: nothing is undone, and each part of it  *)
(* that the step does not leave alone is shown for the next state.         *)
(***************************************************************************)
LeavesAlone(e) ==
  /\ pc[e] \in {"catch", "run"} /\ (pc'[e] = "catch" => pc[e] = "catch")
  /\ fsm'[e] = fsm[e] /\ env'[e].stepNumber = env[e].stepNumber

GoesOn(e) ==
  /\ pc'[e] \in {"run", "done"} => pc[e] = pc'[e]
  /\ env'[e].stepNumber = env[e].stepNumber
  /\ ~ env'[e].exit => ~ env[e].exit
  /\ \A s \in StepIndex : Waits(e, s) => Waits(e, s)' \/ StepOver(InstanceOf[e], s)'

LEMMA Combine ==
  ASSUME InvokeInv, InvokeTypeOK', Grows,
         \A i \in Instance : StreamOK(stream[i])',
         \A e \in Executor : pc'[e] \in {"catch", "run"} => AliveOK(e)' \/ LeavesAlone(e),
         \A e \in Executor : \A x \in calls'[e] : x \in calls[e] \/ CallOK(e, x)',
         \A r \in runs' : r \in runs \/ RunOK(r)',
         \A i \in Instance : \A s \in StepIndex : told'[i][s] = told[i][s] \/ ToldOK(i, s)',
         \A e \in Executor : ProgressOK(e)' \/ GoesOn(e)
  PROVE  InvokeInv'
<1>0. InvokeTypeOK
  BY DEF InvokeInv
<1>1. ASSUME NEW e \in Executor, pc'[e] \in {"catch", "run"} PROVE AliveOK(e)'
  BY <1>0, <1>1, KeepAlive DEF InvokeInv, LeavesAlone
<1>2. ASSUME NEW e \in Executor, NEW x \in calls'[e] PROVE CallOK(e, x)'
  <2>1. CASE CallOK(e, x)'
    BY <2>1
  <2>2. CASE x \in calls[e]
    <3>1. x \in CallRecord /\ CallOK(e, x)
      BY <1>0, <2>2 DEF InvokeInv, InvokeTypeOK
    <3> QED BY <1>0, <3>1, KeepCall
  <2> QED BY <2>1, <2>2
<1>3. ASSUME NEW r \in runs' PROVE RunOK(r)'
  <2>1. CASE RunOK(r)'
    BY <2>1
  <2>2. CASE r \in runs
    <3>1. r \in RunRecord /\ RunOK(r)
      BY <1>0, <2>2 DEF InvokeInv, InvokeTypeOK
    <3> QED BY <1>0, <3>1, KeepRun
  <2> QED BY <2>1, <2>2
<1>4. ASSUME NEW i \in Instance, NEW s \in StepIndex PROVE ToldOK(i, s)'
  BY <1>0, KeepTold DEF InvokeInv
<1>5. ASSUME NEW e \in Executor PROVE ProgressOK(e)'
  <2>1. SUFFICES ASSUME GoesOn(e) PROVE ProgressOK(e)'
    OBVIOUS
  <2> DEFINE i == InstanceOf[e]
  <2>2. i \in Instance /\ Len(stream[i]) \in Nat /\ Len(stream'[i]) \in Nat
    BY <1>0 DEF InvokeTypeOK
  <2>3. env[e].stepNumber \in Nat /\ Len(stream[i]) <= Len(stream'[i])
    BY <1>0, <2>2 DEF InvokeTypeOK, Grows
  <2>4. ProgressOK(e)
    BY DEF InvokeInv
  <2> HIDE DEF i
  <2>5. ASSUME NEW s \in StepIndex, s < Len(stream[i]), StepOver(i, s) PROVE StepOver(i, s)'
    BY <1>0, <1>4, <2>2, <2>5, KeepOver
  <2>6. ASSUME pc'[e] = "run", ~ env'[e].exit, NEW s \in StepIndex, s < env'[e].stepNumber
        PROVE  Waits(e, s)' \/ StepOver(i, s)'
    <3>1. pc[e] = "run" /\ ~ env[e].exit /\ s < env[e].stepNumber
      BY <2>1, <2>6 DEF GoesOn
    <3>2. Waits(e, s) \/ StepOver(i, s)
      BY <2>4, <3>1 DEF ProgressOK, i
    <3>3. env[e].stepNumber <= Len(stream[i]) /\ s \in Nat
      BY <3>1 DEF InvokeInv, AliveOK, i, StepIndex
    <3>4. s < Len(stream[i])
      BY <2>2, <2>3, <3>1, <3>3
    <3>5. CASE Waits(e, s)
      BY <2>1, <3>5 DEF GoesOn, i
    <3>6. CASE StepOver(i, s)
      BY <2>5, <3>4, <3>6
    <3> QED BY <3>2, <3>5, <3>6
  <2>7. ASSUME pc'[e] = "done"
        PROVE  NumSteps <= Len(stream'[i]) /\ \A s \in StepIndex : StepOver(i, s)'
    <3>1. pc[e] = "done"
      BY <2>1, <2>7 DEF GoesOn
    <3>2. NumSteps <= Len(stream[i]) /\ \A s \in StepIndex : StepOver(i, s)
      BY <2>4, <3>1 DEF ProgressOK, i
    <3>3. \A s \in StepIndex : s < Len(stream[i])
      BY <2>2, <3>2 DEF StepIndex
    <3> QED BY <2>2, <2>3, <2>5, <3>2, <3>3
  <2> QED BY <2>6, <2>7 DEF ProgressOK, i
<1> QED BY <1>1, <1>2, <1>3, <1>4, <1>5 DEF InvokeInv

LEMMA InvokeInitOK == InvokeInit => InvokeInv
<1> SUFFICES ASSUME InvokeInit PROVE InvokeInv
  OBVIOUS
<1>1. IsIntentFsm(NewIntentFsm) /\ NewEnv \in [stepNumber : Nat, seqNum : Nat, exit : BOOLEAN]
  BY DEF IsIntentFsm, NewIntentFsm, NewEnv
<1>2. InvokeTypeOK
  <2>1. calls \in [Executor -> SUBSET CallRecord] /\ runs \in SUBSET RunRecord
    BY DEF InvokeInit
  <2>2. result \in [CalleeId -> Output \cup {None}] /\ started \in SUBSET CalleeId
    BY DEF InvokeInit
  <2>3. told \in [Instance -> [StepIndex -> SUBSET (Output \X CalleeId)]]
    BY DEF InvokeInit, StepIndex
  <2>4. /\ logTail \in Nat /\ logTail >= CallSeqNum
        /\ stream \in [Instance -> Seq(LogEntry)]
    BY DEF InvokeInit, Init
  <2>5. /\ pc \in [Executor -> {"idle", "catch", "run", "done", "exit", "panic", "fatal"}]
        /\ env \in [Executor -> [stepNumber : Nat, seqNum : Nat, exit : BOOLEAN]]
        /\ fsm = [e \in Executor |-> fsm[e]]
        /\ \A e \in Executor : IsIntentFsm(fsm[e])
    BY <1>1 DEF InvokeInit, Init
  <2> QED BY <2>1, <2>2, <2>3, <2>4, <2>5 DEF InvokeTypeOK
<1>3. \A i \in Instance : StreamOK(stream[i])
  BY DEF InvokeInit, Init, StreamOK
<1>4. \A e \in Executor : pc[e] = "idle" /\ calls[e] = {}
  BY DEF InvokeInit, Init
<1>5. \A i \in Instance : \A s \in StepIndex : ToldOK(i, s)
  BY DEF InvokeInit, ToldOK, StepIndex
<1>6. runs = {}
  BY DEF InvokeInit
<1> QED BY <1>2, <1>3, <1>4, <1>5, <1>6 DEF InvokeInv, ProgressOK
-----------------------------------------------------------------------------
(***************************************************************************)
(* The actions.  Most leave the streams alone, and touch one execution.    *)
(***************************************************************************)
LEMMA StreamAlone ==
  ASSUME InvokeInv, UNCHANGED <<logTail, stream>>, started \subseteq started',
         \A c \in CalleeId : result[c] # None => result'[c] = result[c],
         \A i \in Instance : \A s \in StepIndex : told[i][s] \subseteq told'[i][s]
  PROVE  Grows /\ \A i \in Instance : StreamOK(stream[i])'
<1>1. \A i \in Instance : Len(stream[i]) \in Nat
  BY Entries DEF InvokeInv
<1>2. Grows
  BY <1>1 DEF Grows, SameStep
<1>3. \A i \in Instance : StreamOK(stream[i])'
  BY DEF InvokeInv, StreamOK
<1> QED BY <1>2, <1>3

Untouched(x) ==
  /\ pc'[x] = pc[x] /\ env'[x] = env[x]
  /\ fsm'[x] = fsm[x] /\ calls'[x] = calls[x]

LEMMA StepOf ==
  ASSUME InvokeInv, InvokeTypeOK', Grows,
         \A i \in Instance : StreamOK(stream[i])',
         NEW e \in Executor, \A x \in Executor \ {e} : Untouched(x),
         pc'[e] \in {"catch", "run"} => AliveOK(e)' \/ LeavesAlone(e),
         \A x \in calls'[e] : x \in calls[e] \/ CallOK(e, x)',
         \A r \in runs' : r \in runs \/ RunOK(r)',
         \A i \in Instance : \A s \in StepIndex : told'[i][s] = told[i][s] \/ ToldOK(i, s)',
         ProgressOK(e)' \/ GoesOn(e)
  PROVE  InvokeInv'
<1>1. ASSUME NEW y \in Executor, pc'[y] \in {"catch", "run"} PROVE AliveOK(y)' \/ LeavesAlone(y)
  BY <1>1 DEF Untouched, LeavesAlone
<1>2. ASSUME NEW y \in Executor, NEW x \in calls'[y] PROVE x \in calls[y] \/ CallOK(y, x)'
  BY <1>2 DEF Untouched
<1>3. ASSUME NEW y \in Executor PROVE ProgressOK(y)' \/ GoesOn(y)
  <2>1. CASE y # e
    <3>1. \A s \in StepIndex : Waits(y, s) => Waits(y, s)'
      BY <2>1 DEF Untouched, Waits
    <3> QED BY <2>1, <3>1 DEF Untouched, GoesOn
  <2> QED BY <2>1
<1> QED BY <1>1, <1>2, <1>3, Combine

EnvRecord == [stepNumber : Nat, seqNum : Nat, exit : BOOLEAN]

LEMMA BeginStep == ASSUME InvokeInv, NEW e \in Executor, Begin(e) PROVE InvokeInv'
<1>1. InvokeTypeOK /\ Call(e) /\ UNCHANGED <<logTail, stream, calls, runs, result, told, started>>
  BY DEF InvokeInv, Begin, Call, invokeVars
<1>2. IsIntentFsm(NewIntentFsm) /\ NewEnv \in EnvRecord
  BY DEF IsIntentFsm, NewIntentFsm, NewEnv, EnvRecord
<1>3. InvokeTypeOK'
  <2>1. pc' \in [Executor -> {"idle", "catch", "run", "done", "exit", "panic", "fatal"}]
    BY <1>1 DEF Call, InvokeTypeOK
  <2>2. env' \in [Executor -> EnvRecord]
    BY <1>1, <1>2 DEF Call, InvokeTypeOK, EnvRecord
  <2>3. fsm' = [x \in Executor |-> fsm'[x]] /\ \A x \in Executor : IsIntentFsm(fsm'[x])
    BY <1>1, <1>2 DEF Call, InvokeTypeOK
  <2> QED BY <1>1, <2>1, <2>2, <2>3 DEF InvokeTypeOK, EnvRecord
<1>4. Grows /\ \A i \in Instance : StreamOK(stream[i])'
  BY <1>1, StreamAlone
<1>5. /\ pc'[e] = "catch" /\ env'[e] = NewEnv /\ fsm'[e] = NewIntentFsm
      /\ \A x \in Executor \ {e} : Untouched(x)
  BY <1>1 DEF Call, InvokeTypeOK, Untouched
<1>6. AliveOK(e)'
  <2>1. InstanceOf[e] \in Instance /\ Len(stream[InstanceOf[e]]) \in Nat
    BY <1>1 DEF InvokeTypeOK
  <2> QED BY <1>1, <1>5, <2>1 DEF AliveOK, Follows, NewEnv, NewIntentFsm
<1>7. ProgressOK(e)'
  BY <1>5 DEF ProgressOK
<1> QED BY <1>1, <1>3, <1>4, <1>5, <1>6, <1>7, StepOf

(***************************************************************************)
(* Catch: what is next to read is the step behind those already read.      *)
(***************************************************************************)
LEMMA NextStep ==
  ASSUME InvokeInv, NEW e \in Executor, AliveOK(e),
         NEW k \in 1 .. Len(stream[InstanceOf[e]]), IsNext(stream[InstanceOf[e]], fsm[e].tail, k)
  PROVE  k = fsm[e].stepNumber + 1
<1> DEFINE s == stream[InstanceOf[e]]
           n == fsm[e].stepNumber
<1>1. InvokeTypeOK /\ InstanceOf[e] \in Instance
  BY DEF InvokeInv
<1>2. /\ Len(s) \in Nat /\ n \in Nat /\ k \in Nat
      /\ \A j \in 1 .. Len(s) : s[j].seqNum \in Nat
  BY <1>1, Entries DEF InvokeTypeOK, IsIntentFsm
<1>3. StreamOK(s) /\ Follows(fsm[e], s)
  BY <1>1 DEF InvokeInv, AliveOK
<1> HIDE DEF s
<1>4. n <= Len(s) /\ fsm[e].tail = IF n = 0 THEN 0 ELSE s[n].seqNum
  BY <1>3 DEF Follows
<1>5. k \in 1 .. Len(s) /\ IsNext(s, fsm[e].tail, k)
  BY DEF s
<1> HIDE DEF n
<1>6. ~ k <= n
  <2>1. SUFFICES ASSUME k <= n PROVE FALSE
    OBVIOUS
  <2>2. n # 0 /\ n \in 1 .. Len(s) /\ s[k].seqNum > s[n].seqNum
    BY <1>2, <1>4, <1>5, <2>1 DEF IsNext
  <2>3. CASE k = n
    BY <1>2, <2>2, <2>3
  <2>4. CASE k # n
    <3>1. k \in 1 .. n - 1
      BY <1>2, <1>5, <2>1, <2>4
    <3>2. s[k].seqNum < s[n].seqNum
      BY <1>3, <2>2, <3>1 DEF StreamOK
    <3> QED BY <1>2, <1>5, <2>2, <3>2
  <2> QED BY <2>3, <2>4
<1>7. ~ k > n + 1
  <2>1. SUFFICES ASSUME k > n + 1 PROVE FALSE
    OBVIOUS
  <2>2. n + 1 \in 1 .. Len(s) /\ n + 1 \in 1 .. k - 1
    BY <1>2, <1>5, <2>1
  <2>3. s[n + 1].seqNum <= fsm[e].tail /\ s[n + 1].seqNum > 0
    BY <1>3, <1>5, <2>2 DEF IsNext, StreamOK
  <2>4. CASE n = 0
    BY <1>2, <1>4, <2>2, <2>3, <2>4
  <2>5. CASE n # 0
    <3>1. n \in 1 .. (n + 1) - 1 /\ n \in 1 .. Len(s)
      BY <1>2, <1>4, <2>5
    <3>2. s[n].seqNum < s[n + 1].seqNum
      BY <1>3, <2>2, <3>1 DEF StreamOK
    <3> QED BY <1>2, <1>4, <2>2, <2>3, <2>5, <3>1, <3>2
  <2> QED BY <2>4, <2>5
<1>8. k = n + 1
  BY <1>2, <1>6, <1>7
<1> QED BY <1>8 DEF n

\* Applying the step behind a prefix extends the prefix by it.
LEMMA ApplyNext ==
  ASSUME NEW s \in Seq(LogEntry), NEW f, IsIntentFsm(f), Follows(f, s),
         NEW entry \in LogEntry, entry.stepNumber = f.stepNumber,
         f.stepNumber < Len(s), SameStep(entry, s, f.stepNumber + 1)
  PROVE  /\ ~ NotMonotonic(f, entry)
         /\ IsIntentFsm(applyLog(f, entry))
         /\ Follows(applyLog(f, entry), s)
         /\ applyLog(f, entry).stepNumber = f.stepNumber + 1
<1> DEFINE n == f.stepNumber
<1>1. n \in Nat /\ Len(s) \in Nat /\ n \notin DOMAIN f.stepLogs /\ DOMAIN f.stepLogs = 0 .. n - 1
  BY DEF IsIntentFsm, Follows
<1>2. applyLog(f, entry) =
        [stepNumber |-> n + 1, tail |-> entry.seqNum,
         stepLogs |-> [t \in DOMAIN f.stepLogs \cup {n} |->
                         IF t = n THEN entry ELSE f.stepLogs[t]]]
  BY <1>1 DEF applyLog
<1>3. entry.seqNum \in Nat
  BY DEF LogEntry
<1>4. IsIntentFsm(applyLog(f, entry))
  BY <1>1, <1>2, <1>3 DEF IsIntentFsm
<1> DEFINE g == applyLog(f, entry)
<1>5. /\ g.stepNumber = n + 1 /\ g.tail = entry.seqNum
      /\ DOMAIN g.stepLogs = 0 .. n
      /\ g.stepLogs[n] = entry
      /\ \A k \in 0 .. n - 1 : g.stepLogs[k] = f.stepLogs[k]
  BY <1>1, <1>2
<1>6. ~ NotMonotonic(f, entry)
  BY DEF NotMonotonic
<1> HIDE DEF g
<1>7. ASSUME NEW k \in 0 .. n PROVE g.stepLogs[k] \in LogEntry /\ SameStep(g.stepLogs[k], s, k + 1)
  <2>1. CASE k = n
    BY <1>5, <2>1
  <2>2. CASE k # n
    <3>1. k \in 0 .. n - 1
      BY <1>1, <2>2
    <3> QED BY <1>5, <3>1 DEF Follows
  <2> QED BY <2>1, <2>2
<1>8. g.tail = s[n + 1].seqNum
  BY <1>5 DEF SameStep
<1>9. g.stepNumber <= Len(s) /\ g.stepNumber # 0 /\ g.stepNumber - 1 = n
  BY <1>1, <1>5
<1>10. Follows(g, s)
  BY <1>5, <1>7, <1>8, <1>9 DEF Follows
<1> QED BY <1>4, <1>5, <1>6, <1>10 DEF g

LEMMA CatchNextStep ==
  ASSUME InvokeInv, NEW e \in Executor, ~ NextIsForeign(e), CatchNext(e), UNCHANGED invokeVars
  PROVE  InvokeInv'
<1> DEFINE s == stream[InstanceOf[e]]
<1>1. /\ InvokeTypeOK /\ pc[e] = "catch" /\ AliveOK(e) /\ InstanceOf[e] \in Instance
      /\ UNCHANGED <<logTail, stream, env, calls, runs, result, told, started>>
  BY DEF InvokeInv, CatchNext, invokeVars
<1>2. PICK k \in 1 .. Len(s) :
        /\ IsNext(s, fsm[e].tail, k)
        /\ fsm' = [fsm EXCEPT ![e] = applyLog(@, s[k])]
        /\ pc' = [pc EXCEPT ![e] = IF NotMonotonic(fsm[e], s[k]) THEN "panic" ELSE "catch"]
  BY DEF CatchNext
<1>3. k = fsm[e].stepNumber + 1 /\ ~ IsForeign(s[k])
  BY <1>1, <1>2, NextStep DEF NextIsForeign
<1>4. /\ s \in Seq(LogEntry) /\ Len(s) \in Nat /\ s[k] \in LogEntry
      /\ IsIntentFsm(fsm[e]) /\ fsm[e].stepNumber \in Nat
  BY <1>1, Entries DEF InvokeTypeOK, IsIntentFsm
<1>5. StreamOK(s) /\ Follows(fsm[e], s)
  BY <1>1 DEF InvokeInv, AliveOK
<1>6. s[k].stepNumber = fsm[e].stepNumber
  <2>1. s[k].stepNumber = k - 1
    BY <1>3, <1>5 DEF StreamOK
  <2> QED BY <1>3, <1>4, <2>1
<1>7. /\ ~ NotMonotonic(fsm[e], s[k])
      /\ IsIntentFsm(applyLog(fsm[e], s[k]))
      /\ Follows(applyLog(fsm[e], s[k]), s)
  <2>1. fsm[e].stepNumber < Len(s) /\ SameStep(s[k], s, fsm[e].stepNumber + 1)
    BY <1>3, <1>4 DEF SameStep
  <2> HIDE DEF s
  <2> QED BY <1>4, <1>5, <1>6, <2>1, ApplyNext
<1>8. /\ fsm'[e] = applyLog(fsm[e], s[k]) /\ pc'[e] = "catch"
      /\ \A x \in Executor \ {e} : Untouched(x)
  BY <1>1, <1>2, <1>7 DEF InvokeTypeOK, Untouched
<1>9. InvokeTypeOK'
  <2>1. pc' \in [Executor -> {"idle", "catch", "run", "done", "exit", "panic", "fatal"}]
    BY <1>1, <1>2 DEF InvokeTypeOK
  <2>2. fsm' = [x \in Executor |-> fsm'[x]]
    BY <1>1, <1>2 DEF InvokeTypeOK
  <2>3. \A x \in Executor : IsIntentFsm(fsm'[x])
    BY <1>1, <1>7, <1>8 DEF InvokeTypeOK, Untouched
  <2> QED BY <1>1, <2>1, <2>2, <2>3 DEF InvokeTypeOK
<1>10. Grows /\ \A i \in Instance : StreamOK(stream[i])'
  BY <1>1, StreamAlone
<1>11. AliveOK(e)'
  BY <1>1, <1>7, <1>8 DEF AliveOK
<1>12. ProgressOK(e)'
  BY <1>8 DEF ProgressOK
<1> QED BY <1>1, <1>8, <1>9, <1>10, <1>11, <1>12, StepOf

(***************************************************************************)
(* Catch is through or meets a foreign entry, the handler returns, the     *)
(* process dies: only the state of one execution changes, and its calls.   *)
(***************************************************************************)
LEMMA ForgetRun ==
  ASSUME NEW e \in Executor, NEW r \in RunRecord, RunOK(r)
  PROVE  LET q == [r EXCEPT !.by = IF @ = e THEN NoCaller ELSE @]
         IN  q \in RunRecord /\ RunOK(q)
BY DEF RunRecord, RunOK

LEMMA CatchDoneStep ==
  ASSUME InvokeInv, NEW e \in Executor,
         (Replay(e) /\ CatchDone(e)) \/ HashCollision(e)
  PROVE  InvokeInv'
<1>1. /\ InvokeTypeOK /\ pc[e] = "catch" /\ AliveOK(e)
      /\ UNCHANGED <<logTail, stream, env, fsm, calls, runs, result, told, started>>
  BY DEF InvokeInv, Replay, CatchDone, HashCollision, invokeVars
<1>2. PICK p \in {"run", "fatal"} : pc' = [pc EXCEPT ![e] = p]
  BY DEF CatchDone, HashCollision
<1>3. /\ pc' \in [Executor -> {"idle", "catch", "run", "done", "exit", "panic", "fatal"}]
      /\ pc'[e] \in {"run", "fatal"}
      /\ \A x \in Executor \ {e} : Untouched(x)
  BY <1>1, <1>2 DEF InvokeTypeOK, Untouched
<1>4. InvokeTypeOK'
  BY <1>1, <1>3 DEF InvokeTypeOK
<1>5. Grows /\ \A i \in Instance : StreamOK(stream[i])'
  BY <1>1, StreamAlone
<1>6. env'[e].stepNumber = 0
  BY <1>1 DEF AliveOK
<1>7. ProgressOK(e)'
  BY <1>3, <1>6 DEF ProgressOK, StepIndex
<1>8. LeavesAlone(e)
  BY <1>1, <1>3 DEF LeavesAlone
<1> QED BY <1>1, <1>3, <1>4, <1>5, <1>7, <1>8, StepOf

LEMMA EndStep == ASSUME InvokeInv, NEW e \in Executor, End(e) PROVE InvokeInv'
<1>1. /\ InvokeTypeOK /\ pc[e] = "run" /\ AliveOK(e) /\ calls[e] = {} /\ ~ MayPropose(e)
      /\ UNCHANGED <<logTail, stream, env, fsm, calls, runs, result, told, started>>
      /\ pc' = [pc EXCEPT ![e] = IF env[e].exit THEN "exit" ELSE "done"]
  BY DEF InvokeInv, End, Finish, invokeVars
<1>2. /\ pc' \in [Executor -> {"idle", "catch", "run", "done", "exit", "panic", "fatal"}]
      /\ pc'[e] = (IF env[e].exit THEN "exit" ELSE "done")
      /\ \A x \in Executor \ {e} : Untouched(x)
  BY <1>1 DEF InvokeTypeOK, Untouched
<1>3. InvokeTypeOK'
  BY <1>1, <1>2 DEF InvokeTypeOK
<1>4. Grows /\ \A i \in Instance : StreamOK(stream[i])'
  BY <1>1, StreamAlone
<1>5. ASSUME ~ env[e].exit
      PROVE  /\ NumSteps <= Len(stream[InstanceOf[e]])
             /\ \A s \in StepIndex : StepOver(InstanceOf[e], s)
  <2>1. env[e].stepNumber \in Nat /\ env[e].stepNumber >= NumSteps
    BY <1>1, <1>5 DEF MayPropose, Returns, InvokeTypeOK
  <2>2. InstanceOf[e] \in Instance /\ Len(stream[InstanceOf[e]]) \in Nat
    BY <1>1, Entries
  <2>3. NumSteps <= Len(stream[InstanceOf[e]])
    BY <1>1, <2>1, <2>2 DEF AliveOK
  <2>4. ASSUME NEW s \in StepIndex PROVE StepOver(InstanceOf[e], s)
    <3>1. s < env[e].stepNumber
      BY <2>1 DEF StepIndex
    <3>2. ~ Waits(e, s)
      BY <1>1 DEF Waits
    <3> QED BY <1>1, <1>5, <3>1, <3>2 DEF InvokeInv, ProgressOK
  <2> QED BY <2>3, <2>4
<1>6. ProgressOK(e)'
  BY <1>1, <1>2, <1>5 DEF ProgressOK, StepOver
<1>7. pc'[e] \notin {"catch", "run"}
  BY <1>2
<1> QED BY <1>1, <1>2, <1>3, <1>4, <1>6, <1>7, StepOf

LEMMA AbandonRuns ==
  ASSUME InvokeInv, NEW e \in Executor, Abandon(e)
  PROVE  /\ calls' \in [Executor -> SUBSET CallRecord] /\ calls'[e] = {}
         /\ \A x \in Executor \ {e} : calls'[x] = calls[x]
         /\ runs' \in SUBSET RunRecord
         /\ \A r \in runs' : RunOK(r)
<1>1. InvokeTypeOK /\ calls' = [calls EXCEPT ![e] = {}]
  BY DEF InvokeInv, Abandon
<1>2. \A r \in runs : r \in RunRecord /\ RunOK(r)
  BY DEF InvokeInv, InvokeTypeOK
<1>3. ASSUME NEW r \in runs' PROVE r \in RunRecord /\ RunOK(r)
  <2>1. PICK q \in runs : r = [q EXCEPT !.by = IF @ = e THEN NoCaller ELSE @]
    BY DEF Abandon
  <2> QED BY <1>2, <2>1, ForgetRun
<1> QED BY <1>1, <1>3 DEF InvokeTypeOK

LEMMA DieStep == ASSUME InvokeInv, NEW e \in Executor, Die(e) PROVE InvokeInv'
<1>1. /\ InvokeTypeOK
      /\ UNCHANGED <<logTail, stream, env, fsm, result, told, started>>
      /\ pc' = [pc EXCEPT ![e] = "idle"]
  BY DEF InvokeInv, Die, Crash, Abandon
<1>2. /\ calls' \in [Executor -> SUBSET CallRecord] /\ calls'[e] = {}
      /\ \A x \in Executor \ {e} : calls'[x] = calls[x]
      /\ runs' \in SUBSET RunRecord
      /\ \A r \in runs' : RunOK(r)
  BY AbandonRuns DEF Die
<1>3. /\ pc' \in [Executor -> {"idle", "catch", "run", "done", "exit", "panic", "fatal"}]
      /\ pc'[e] = "idle"
      /\ \A x \in Executor \ {e} : Untouched(x)
  BY <1>1, <1>2 DEF InvokeTypeOK, Untouched
<1>4. InvokeTypeOK'
  BY <1>1, <1>2, <1>3 DEF InvokeTypeOK
<1>5. Grows /\ \A i \in Instance : StreamOK(stream[i])'
  BY <1>1, StreamAlone
<1>6. ASSUME NEW r \in runs' PROVE RunOK(r)'
  <2>1. r \in RunRecord /\ RunOK(r)
    BY <1>2
  <2> QED BY <1>1, <1>4, <1>5, <2>1, KeepRun
<1>7. ProgressOK(e)'
  BY <1>3 DEF ProgressOK
<1> QED BY <1>1, <1>2, <1>3, <1>4, <1>5, <1>6, <1>7, StepOf

(***************************************************************************)
(* The steps of the handler.                                               *)
(***************************************************************************)
LEMMA LoseStepStep == ASSUME InvokeInv, NEW e \in Executor, LoseInvoke(e) PROVE InvokeInv'
<1> DEFINE n == env[e].stepNumber
           s == stream[InstanceOf[e]]
<1>1. /\ InvokeTypeOK /\ pc[e] = "run" /\ AliveOK(e)
      /\ ~ CondOK(s, n)
      /\ UNCHANGED <<logTail, stream, pc, fsm, calls, runs, result, told, started>>
      /\ env' = [env EXCEPT ![e].stepNumber = n + 1, ![e].exit = TRUE]
  BY DEF InvokeInv, LoseInvoke, LoseStep, MayPropose, invokeVars
<1>2. n \in Nat /\ Len(s) \in Nat /\ env \in [Executor -> EnvRecord] /\ n + 1 \in Nat
  BY <1>1 DEF InvokeTypeOK, EnvRecord
<1>3. /\ env'[e] = [stepNumber |-> n + 1, seqNum |-> env[e].seqNum, exit |-> TRUE]
      /\ \A x \in Executor \ {e} : env'[x] = env[x]
  BY <1>1, <1>2, Zenon DEF EnvRecord
<1>4. InvokeTypeOK'
  <2>1. env' = [x \in Executor |-> env'[x]]
    BY <1>1, <1>2
  <2>2. env[e].seqNum \in Nat
    BY <1>2 DEF EnvRecord
  <2>3. env'[e] \in EnvRecord
    BY <1>2, <1>3, <2>2 DEF EnvRecord
  <2>4. env' \in [Executor -> EnvRecord]
    BY <1>2, <1>3, <2>1, <2>3
  <2> QED BY <1>1, <2>4 DEF InvokeTypeOK, EnvRecord
<1>5. Grows /\ \A i \in Instance : StreamOK(stream[i])'
  BY <1>1, StreamAlone
<1>6. n + 1 <= Len(s)
  BY <1>1, <1>2 DEF CondOK
<1>7. AliveOK(e)'
  BY <1>1, <1>3, <1>6 DEF AliveOK
<1>8. ProgressOK(e)'
  BY <1>1, <1>3 DEF ProgressOK
<1>9. \A x \in Executor \ {e} : Untouched(x)
  BY <1>1, <1>3 DEF Untouched
<1> QED BY <1>1, <1>4, <1>5, <1>7, <1>8, <1>9, StepOf

(***************************************************************************)
(* An invocation of e for the step it reached, by the id and the cursor of *)
(* an entry at that position of its stream.                                *)
(***************************************************************************)
LogNames(e, c, seq) ==
  LET s == stream'[InstanceOf[e]]
      n == env[e].stepNumber
  IN  n < Len(s) /\ c = s[n + 1].data.callee /\ seq = s[n + 1].seqNum

StepsOn(e) ==
  /\ pc[e] = "run" /\ pc'[e] = "run"
  /\ env'[e].stepNumber = env[e].stepNumber + 1 /\ env'[e].exit = env[e].exit

LEMMA NewCall ==
  ASSUME InvokeInv, InvokeTypeOK', Grows, UNCHANGED told,
         NEW e \in Executor, env[e].stepNumber \in StepIndex, StepsOn(e),
         NEW c, NEW seq, AddCall(e, c, seq), LogNames(e, c, seq)
  PROVE  /\ \A x \in calls'[e] : x \in calls[e] \/ CallOK(e, x)'
         /\ \A x \in Executor \ {e} : calls'[x] = calls[x]
         /\ ProgressOK(e)'
<1> DEFINE n == env[e].stepNumber
<1>0. PICK new : new = CallOf(e, c, seq)
  OBVIOUS
<1>1. InvokeTypeOK /\ pc[e] = "run" /\ n \in Nat /\ n \in StepIndex
  BY DEF InvokeInv, StepsOn, StepIndex
<1>2. /\ calls'[e] = calls[e] \cup {new}
      /\ \A x \in Executor \ {e} : calls'[x] = calls[x]
  <2>1. calls' = [calls EXCEPT ![e] = @ \cup {new}]
    BY <1>0 DEF AddCall
  <2>2. calls \in [Executor -> SUBSET CallRecord]
    BY <1>1 DEF InvokeTypeOK
  <2> QED BY <2>1, <2>2
<1>3. CallOK(e, new)'
  <2>1. /\ new.step = n /\ new.callee = c /\ new.seqNum = seq /\ ~ new.sent
        /\ new.kind = Program[InstanceOf[e]][n + 1]
    BY <1>0 DEF CallOf, KindOf
  <2> QED BY <2>1 DEF CallOK, LogNames
<1>4. new.step = n
  BY <1>0 DEF CallOf
<1>5. ASSUME ~ env'[e].exit, NEW s \in StepIndex, s < env'[e].stepNumber
      PROVE  Waits(e, s)' \/ StepOver(InstanceOf[e], s)'
  <2>0. ~ env[e].exit /\ s < n + 1 /\ s \in Nat
    BY <1>5 DEF StepsOn, StepIndex
  <2> HIDE DEF n
  <2>1. CASE s = n
    BY <1>2, <1>4, <2>1 DEF Waits
  <2>2. CASE s # n
    <3>1. s \in Nat /\ s < n
      BY <1>1, <2>0, <2>2
    <3>2. Waits(e, s) \/ StepOver(InstanceOf[e], s)
      BY <1>1, <1>5, <2>0, <3>1 DEF InvokeInv, ProgressOK, n
    <3>3. Waits(e, s) => Waits(e, s)'
      BY <1>2 DEF Waits
    <3>4. ASSUME StepOver(InstanceOf[e], s) PROVE StepOver(InstanceOf[e], s)'
      <4>1. InstanceOf[e] \in Instance /\ Len(stream[InstanceOf[e]]) \in Nat /\ n <= Len(stream[InstanceOf[e]])
        BY <1>1, Entries DEF InvokeInv, AliveOK, n
      <4>2. s < Len(stream[InstanceOf[e]])
        BY <1>1, <3>1, <4>1
      <4>3. started \subseteq started' /\ ToldOK(InstanceOf[e], s)
        BY <4>1 DEF Grows, InvokeInv
      <4>4. ToldOK(InstanceOf[e], s)'
        BY <1>1, <4>1, <4>3, KeepTold
      <4> QED BY <1>1, <3>4, <4>1, <4>2, <4>4, KeepOver
    <3> QED BY <3>2, <3>3, <3>4
  <2> QED BY <2>1, <2>2
<1>6. ProgressOK(e)'
  BY <1>5 DEF ProgressOK, StepsOn
<1> QED BY <1>2, <1>3, <1>6

LEMMA SeenPreInvokeStep == ASSUME InvokeInv, NEW e \in Executor, SeenPreInvoke(e) PROVE InvokeInv'
<1> DEFINE n == env[e].stepNumber
           s == stream[InstanceOf[e]]
<1>0. PICK entry : entry = fsm[e].stepLogs[n]
  OBVIOUS
<1>1. /\ InvokeTypeOK /\ pc[e] = "run" /\ AliveOK(e) /\ MayInvoke(e)
      /\ n \in DOMAIN fsm[e].stepLogs
      /\ UNCHANGED <<logTail, stream, pc, fsm, runs, result, told, started>>
      /\ env' = [env EXCEPT ![e].stepNumber = n + 1, ![e].seqNum = entry.seqNum]
      /\ AddCall(e, entry.data.callee, entry.seqNum)
  BY <1>0 DEF InvokeInv, SeenPreInvoke, ReplayStep, MayInvoke, MayPropose
<1>2. /\ n \in Nat /\ Len(s) \in Nat /\ n + 1 \in Nat /\ env \in [Executor -> EnvRecord]
      /\ fsm[e].stepNumber \in Nat /\ InstanceOf[e] \in Instance
  BY <1>1, Entries DEF InvokeTypeOK, EnvRecord, IsIntentFsm
<1>3. Follows(fsm[e], s)
  BY <1>1 DEF AliveOK
<1> HIDE DEF s
<1>4. n \in 0 .. fsm[e].stepNumber - 1 /\ n < Len(s) /\ n + 1 <= Len(s)
  BY <1>1, <1>2, <1>3 DEF Follows
<1>5. /\ entry \in LogEntry
      /\ entry.data.callee = s[n + 1].data.callee /\ entry.seqNum = s[n + 1].seqNum
  BY <1>0, <1>3, <1>4 DEF Follows, SameStep
<1>6. /\ entry.seqNum \in Nat /\ entry.data.callee \in CalleeId
  BY <1>5 DEF LogEntry, InvokeData
<1>7. /\ env'[e] = [stepNumber |-> n + 1, seqNum |-> entry.seqNum, exit |-> env[e].exit]
      /\ \A x \in Executor \ {e} : env'[x] = env[x]
  BY <1>1, <1>2, Zenon DEF EnvRecord
<1>8. env' \in [Executor -> EnvRecord]
  <2>1. env' = [x \in Executor |-> env'[x]]
    BY <1>1, <1>2
  <2>2. env[e].exit \in BOOLEAN
    BY <1>2 DEF EnvRecord
  <2>3. env'[e] \in EnvRecord
    BY <1>2, <1>6, <1>7, <2>2 DEF EnvRecord
  <2> QED BY <1>2, <1>7, <2>1, <2>3
<1>9. calls' \in [Executor -> SUBSET CallRecord]
  <2>1. CallOf(e, entry.data.callee, entry.seqNum) \in CallRecord
    <3>1. n \in StepIndex /\ n + 1 \in 1 .. NumSteps
      BY <1>1, <1>2 DEF MayInvoke, MayPropose, StepIndex
    <3>2. KindOf(e) \in Kind
      BY <1>2, <3>1, ProgramKinds DEF KindOf
    <3> QED BY <1>6, <3>1, <3>2 DEF CallOf, CallRecord
  <2> QED BY <1>1, <2>1 DEF AddCall, InvokeTypeOK
<1>10. InvokeTypeOK'
  BY <1>1, <1>8, <1>9 DEF InvokeTypeOK, EnvRecord
<1>11. Grows /\ \A i \in Instance : StreamOK(stream[i])'
  BY <1>1, StreamAlone
<1>12. /\ \A x \in calls'[e] : x \in calls[e] \/ CallOK(e, x)'
       /\ \A x \in Executor \ {e} : calls'[x] = calls[x]
       /\ ProgressOK(e)'
  <2>1. /\ pc'[e] = "run" /\ env'[e].stepNumber = n + 1 /\ env'[e].exit = env[e].exit
    BY <1>1, <1>7
  <2>2. /\ n < Len(stream'[InstanceOf[e]])
        /\ entry.data.callee = stream'[InstanceOf[e]][n + 1].data.callee
        /\ entry.seqNum = stream'[InstanceOf[e]][n + 1].seqNum
    BY <1>1, <1>4, <1>5 DEF s
  <2>3. n \in StepIndex
    BY <1>1, <1>2 DEF MayInvoke, MayPropose, StepIndex
  <2>4. StepsOn(e) /\ LogNames(e, entry.data.callee, entry.seqNum)
    BY <1>1, <2>1, <2>2 DEF StepsOn, LogNames
  <2> QED BY <1>1, <1>10, <1>11, <2>3, <2>4, NewCall
<1>13. AliveOK(e)'
  <2>1. n + 1 <= Len(stream[InstanceOf[e]])
    BY <1>4 DEF s
  <2> QED BY <1>1, <1>7, <2>1 DEF AliveOK
<1>14. \A x \in Executor \ {e} : Untouched(x)
  BY <1>1, <1>7, <1>12 DEF Untouched
<1> QED BY <1>1, <1>10, <1>11, <1>12, <1>13, <1>14, StepOf

(***************************************************************************)
(* The conditional append of e succeeds: its stream held the steps before  *)
(* this one and no more, and the new entry is behind them.                 *)
(***************************************************************************)
LEMMA Appended ==
  ASSUME InvokeInv, NEW e \in Executor, NEW c \in CalleeId, NEW entry,
         entry = Proposal(e, PreInvokeData(c)), AppendOK(e, entry),
         UNCHANGED <<result, told, started>>
  PROVE  LET n == env[e].stepNumber
             i == InstanceOf[e]
         IN  /\ entry \in LogEntry /\ entry.stepNumber = n
             /\ entry.seqNum = logTail + 1 /\ entry.data.callee = c
             /\ logTail' \in Nat /\ logTail' >= CallSeqNum
             /\ stream' \in [Instance -> Seq(LogEntry)]
             /\ n = Len(stream[i]) /\ Len(stream'[i]) = n + 1 /\ stream'[i][n + 1] = entry
             /\ \A k \in 1 .. n : stream'[i][k] = stream[i][k]
             /\ Grows
             /\ \A j \in Instance : StreamOK(stream[j])'
<1> DEFINE n == env[e].stepNumber
           i == InstanceOf[e]
<1>1. /\ InvokeTypeOK /\ AliveOK(e) /\ i \in Instance
      /\ CondOK(stream[i], entry.stepNumber)
      /\ logTail' = entry.seqNum
      /\ stream' = [stream EXCEPT ![i] = Append(@, entry)]
  BY DEF InvokeInv, AppendOK, MayPropose
<1>2. /\ n \in Nat /\ logTail \in Nat /\ logTail + 1 \in Nat /\ logTail + 1 >= CallSeqNum
      /\ stream[i] \in Seq(LogEntry) /\ Len(stream[i]) \in Nat
  BY <1>1, Entries DEF InvokeTypeOK
<1>3. /\ entry = [seqNum |-> logTail + 1, stepNumber |-> n, data |-> PreInvokeData(c)]
  BY DEF Proposal
<1>4. PreInvokeData(c) \in InvokeData /\ PreInvokeData(c).callee = c
  BY DEF PreInvokeData, InvokeData
<1>5. /\ entry \in LogEntry /\ entry.stepNumber = n /\ entry.seqNum = logTail + 1
      /\ entry.data.callee = c
  BY <1>2, <1>3, <1>4 DEF LogEntry
<1>6. n = Len(stream[i])
  BY <1>1, <1>2, <1>5 DEF CondOK, AliveOK
<1>7. /\ stream' \in [Instance -> Seq(LogEntry)]
      /\ stream'[i] = Append(stream[i], entry)
      /\ \A j \in Instance \ {i} : stream'[j] = stream[j]
  BY <1>1, <1>2, <1>5 DEF InvokeTypeOK
<1>8. /\ Len(stream'[i]) = n + 1 /\ stream'[i][n + 1] = entry
      /\ \A k \in 1 .. n : stream'[i][k] = stream[i][k]
  BY <1>2, <1>6, <1>7
<1>9. Grows
  <2>1. ASSUME NEW j \in Instance
        PROVE  /\ Len(stream[j]) <= Len(stream'[j])
               /\ \A k \in 1 .. Len(stream[j]) : SameStep(stream'[j][k], stream[j], k)
    <3>1. CASE j = i
      BY <1>2, <1>6, <1>8, <3>1 DEF SameStep
    <3>2. CASE j # i
      <4>1. Len(stream[j]) \in Nat /\ stream'[j] = stream[j]
        BY <1>1, <1>7, <3>2, Entries
      <4> QED BY <4>1 DEF SameStep
    <3> QED BY <3>1, <3>2
  <2> QED BY <2>1 DEF Grows
<1>10. ASSUME NEW j \in Instance PROVE StreamOK(stream[j])'
  <2> SUFFICES ASSUME NEW k \in 1 .. Len(stream'[j])
               PROVE  /\ stream'[j][k].seqNum > 0 /\ stream'[j][k].seqNum <= logTail'
                      /\ \A m \in 1 .. k - 1 : stream'[j][m].seqNum < stream'[j][k].seqNum
                      /\ ~ IsForeign(stream'[j][k]) => stream'[j][k].stepNumber = k - 1
    BY DEF StreamOK, IsForeign
  <2>1. StreamOK(stream[j]) /\ Len(stream[j]) \in Nat
    BY <1>1, Entries DEF InvokeInv
  <2>2. \A m \in 1 .. Len(stream[j]) : stream[j][m].seqNum \in Nat /\ stream[j][m].seqNum <= logTail
    BY <1>1, <2>1, Entries DEF StreamOK
  <2>3. CASE k \in 1 .. Len(stream[j]) /\ (j = i \/ j # i)
    <3>1. \A m \in 1 .. Len(stream[j]) : stream'[j][m] = stream[j][m]
      BY <1>6, <1>7, <1>8
    <3>2. \A m \in 1 .. k - 1 : m \in 1 .. Len(stream[j])
      BY <2>1, <2>3
    <3>3. logTail' = logTail + 1
      BY <1>1, <1>5
    <3>4. stream'[j][k] = stream[j][k] /\ \A m \in 1 .. k - 1 : stream'[j][m] = stream[j][m]
      BY <2>3, <3>1, <3>2
    <3>5. stream[j][k].seqNum > 0 /\ stream[j][k].seqNum <= logTail'
      BY <1>2, <2>1, <2>2, <2>3, <3>3 DEF StreamOK
    <3> QED BY <2>1, <2>3, <3>4, <3>5 DEF StreamOK
  <2>4. CASE k \notin 1 .. Len(stream[j])
    <3>1. j = i /\ k = n + 1
      BY <1>2, <1>6, <1>7, <1>8, <2>1, <2>4
    <3>2. \A m \in 1 .. k - 1 : m \in 1 .. n /\ m \in 1 .. Len(stream[j])
      BY <1>2, <1>6, <3>1
    <3>3. stream'[j][k] = entry /\ logTail' = logTail + 1
      BY <1>1, <1>5, <1>8, <3>1
    <3>4. ASSUME NEW m \in 1 .. k - 1 PROVE stream'[j][m].seqNum < logTail + 1
      <4>1. stream'[j][m] = stream[j][m]
        BY <1>8, <3>1, <3>2
      <4> QED BY <1>2, <2>2, <3>2, <4>1
    <3>5. entry.seqNum > 0 /\ entry.seqNum <= logTail' /\ entry.stepNumber = k - 1
      BY <1>2, <1>5, <3>1, <3>3
    <3> QED BY <1>5, <3>3, <3>4, <3>5
  <2> QED BY <2>3, <2>4
<1> QED BY <1>1, <1>2, <1>5, <1>6, <1>7, <1>8, <1>9, <1>10

LEMMA PreInvokeStep ==
  ASSUME InvokeInv, NEW e \in Executor, NEW c \in CalleeId, PreInvoke(e, c) PROVE InvokeInv'
<1> DEFINE n == env[e].stepNumber
           i == InstanceOf[e]
<1>0. PICK entry : entry = Proposal(e, PreInvokeData(c))
  OBVIOUS
<1>1. /\ InvokeTypeOK /\ pc[e] = "run" /\ AliveOK(e) /\ MayInvoke(e) /\ i \in Instance
      /\ AppendOK(e, entry) /\ ~ NotMonotonic(fsm[e], entry)
      /\ env' = [env EXCEPT ![e].stepNumber = @ + 1, ![e].seqNum = entry.seqNum]
      /\ fsm' = [fsm EXCEPT ![e] = applyLog(@, entry)]
      /\ AddCall(e, c, logTail + 1)
      /\ UNCHANGED <<pc, runs, result, told, started>>
  BY <1>0 DEF InvokeInv, PreInvoke, AppendStep, AppendOK, MayInvoke, MayPropose
<1>2. /\ entry \in LogEntry /\ entry.stepNumber = n
      /\ entry.seqNum = logTail + 1 /\ entry.data.callee = c
      /\ logTail' \in Nat /\ logTail' >= CallSeqNum
      /\ stream' \in [Instance -> Seq(LogEntry)]
      /\ n = Len(stream[i]) /\ Len(stream'[i]) = n + 1 /\ stream'[i][n + 1] = entry
      /\ \A k \in 1 .. n : stream'[i][k] = stream[i][k]
      /\ Grows
      /\ \A j \in Instance : StreamOK(stream[j])'
  BY <1>0, <1>1, Appended
<1>3. /\ n \in Nat /\ n + 1 \in Nat /\ env \in [Executor -> EnvRecord] /\ logTail + 1 \in Nat
      /\ fsm[e].stepNumber \in Nat /\ IsIntentFsm(fsm[e])
  BY <1>1 DEF InvokeTypeOK, EnvRecord, IsIntentFsm
<1>4. n = fsm[e].stepNumber
  <2>1. entry.stepNumber \notin DOMAIN fsm[e].stepLogs
    BY <1>1 DEF AppendOK
  <2> QED BY <1>1, <1>2, <2>1 DEF NotMonotonic
<1>5. /\ IsIntentFsm(applyLog(fsm[e], entry))
      /\ Follows(applyLog(fsm[e], entry), stream'[i])
  <2>1. Follows(fsm[e], stream'[i])
    <3>1. Follows(fsm[e], stream[i])
      BY <1>1 DEF AliveOK
    <3>2. n <= Len(stream'[i])
      BY <1>2, <1>3
    <3>3. ASSUME NEW k \in 0 .. n - 1
          PROVE  fsm[e].stepLogs[k] \in LogEntry /\ SameStep(fsm[e].stepLogs[k], stream'[i], k + 1)
      <4>1. k + 1 \in 1 .. n
        BY <1>3
      <4> QED BY <1>2, <1>4, <3>1, <4>1 DEF Follows, SameStep
    <3>4. n # 0 => stream'[i][n] = stream[i][n]
      <4>1. n # 0 => n \in 1 .. n
        BY <1>3
      <4> QED BY <1>2, <4>1
    <3> QED BY <1>4, <3>1, <3>2, <3>3, <3>4 DEF Follows
  <2>2. stream'[i] \in Seq(LogEntry) /\ n < Len(stream'[i]) /\ SameStep(entry, stream'[i], n + 1)
    BY <1>1, <1>2, <1>3 DEF SameStep
  <2> QED BY <1>2, <1>3, <1>4, <2>1, <2>2, ApplyNext
<1>6. /\ env'[e] = [stepNumber |-> n + 1, seqNum |-> entry.seqNum, exit |-> env[e].exit]
      /\ \A x \in Executor \ {e} : env'[x] = env[x]
  BY <1>1, <1>3, Zenon DEF EnvRecord
<1>7. env' \in [Executor -> EnvRecord]
  <2>1. env' = [x \in Executor |-> env'[x]]
    BY <1>1, <1>3
  <2>2. env[e].exit \in BOOLEAN
    BY <1>3 DEF EnvRecord
  <2>3. env'[e] \in EnvRecord
    BY <1>2, <1>3, <1>6, <2>2 DEF EnvRecord
  <2> QED BY <1>3, <1>6, <2>1, <2>3
<1>8. calls' \in [Executor -> SUBSET CallRecord]
  <2>1. CallOf(e, c, logTail + 1) \in CallRecord
    <3>1. n \in StepIndex /\ n + 1 \in 1 .. NumSteps
      BY <1>1, <1>3 DEF MayInvoke, MayPropose, StepIndex
    <3>2. KindOf(e) \in Kind
      BY <1>1, <3>1, ProgramKinds DEF KindOf
    <3> QED BY <1>3, <3>1, <3>2 DEF CallOf, CallRecord
  <2> QED BY <1>1, <2>1 DEF AddCall, InvokeTypeOK
<1>9. /\ fsm' = [x \in Executor |-> fsm'[x]] /\ fsm'[e] = applyLog(fsm[e], entry)
      /\ \A x \in Executor \ {e} : fsm'[x] = fsm[x]
  BY <1>1 DEF InvokeTypeOK
<1>10. InvokeTypeOK'
  <2>1. \A x \in Executor : IsIntentFsm(fsm'[x])
    BY <1>1, <1>5, <1>9 DEF InvokeTypeOK
  <2> QED BY <1>1, <1>2, <1>7, <1>8, <1>9, <2>1 DEF InvokeTypeOK, EnvRecord
<1>11. /\ \A x \in calls'[e] : x \in calls[e] \/ CallOK(e, x)'
       /\ \A x \in Executor \ {e} : calls'[x] = calls[x]
       /\ ProgressOK(e)'
  <2>1. /\ pc'[e] = "run" /\ env'[e].stepNumber = n + 1 /\ env'[e].exit = env[e].exit
    BY <1>1, <1>6
  <2>2. /\ n < Len(stream'[i])
        /\ c = stream'[i][n + 1].data.callee /\ logTail + 1 = stream'[i][n + 1].seqNum
    BY <1>2, <1>3
  <2>3. n \in StepIndex
    BY <1>1, <1>3 DEF MayInvoke, MayPropose, StepIndex
  <2>4. StepsOn(e) /\ LogNames(e, c, logTail + 1)
    BY <1>1, <2>1, <2>2 DEF StepsOn, LogNames
  <2> QED BY <1>1, <1>2, <1>10, <2>3, <2>4, NewCall
<1>12. AliveOK(e)'
  <2>1. n + 1 <= Len(stream'[i])
    BY <1>2, <1>3
  <2> QED BY <1>1, <1>5, <1>6, <1>9, <2>1 DEF AliveOK
<1>13. \A x \in Executor \ {e} : Untouched(x)
  BY <1>1, <1>6, <1>9, <1>11 DEF Untouched
<1> QED BY <1>1, <1>2, <1>10, <1>11, <1>12, <1>13, StepOf

LEMMA ProposePanicStep ==
  ASSUME InvokeInv, NEW e \in Executor, ProposePanic(e) PROVE InvokeInv'
<1> DEFINE n == env[e].stepNumber
<1>0. PICK c \in CalleeId : AppendPanic(e, PreInvokeData(c))
  BY DEF ProposePanic
<1>1. PICK entry : entry = Proposal(e, PreInvokeData(c))
  OBVIOUS
<1>2. /\ InvokeTypeOK /\ AppendOK(e, entry)
      /\ env' = [env EXCEPT ![e].stepNumber = @ + 1]
      /\ fsm' = [fsm EXCEPT ![e] = applyLog(@, entry)]
      /\ pc' = [pc EXCEPT ![e] = "panic"]
      /\ UNCHANGED <<result, told, started>>
  BY <1>0, <1>1 DEF InvokeInv, ProposePanic, AppendPanic, AppendOK, Abandon
<1>3. /\ entry \in LogEntry
      /\ logTail' \in Nat /\ logTail' >= CallSeqNum
      /\ stream' \in [Instance -> Seq(LogEntry)]
      /\ Grows
      /\ \A j \in Instance : StreamOK(stream[j])'
  BY <1>1, <1>2, Appended
<1>4. /\ calls' \in [Executor -> SUBSET CallRecord] /\ calls'[e] = {}
      /\ \A x \in Executor \ {e} : calls'[x] = calls[x]
      /\ runs' \in SUBSET RunRecord
      /\ \A r \in runs' : RunOK(r)
  BY AbandonRuns DEF ProposePanic
<1>5. /\ n \in Nat /\ n + 1 \in Nat /\ env \in [Executor -> EnvRecord] /\ IsIntentFsm(fsm[e])
  BY <1>2 DEF InvokeTypeOK, EnvRecord
<1>6. /\ env' \in [Executor -> EnvRecord]
      /\ \A x \in Executor \ {e} : env'[x] = env[x]
  BY <1>2, <1>5 DEF EnvRecord
<1>7. /\ fsm' = [x \in Executor |-> fsm'[x]] /\ fsm'[e] = applyLog(fsm[e], entry)
      /\ \A x \in Executor \ {e} : fsm'[x] = fsm[x]
  BY <1>2 DEF InvokeTypeOK
<1>8. IsIntentFsm(applyLog(fsm[e], entry))
  <2>1. entry.seqNum \in Nat
    BY <1>3 DEF LogEntry
  <2> QED BY <1>5, <2>1 DEF applyLog, IsIntentFsm
<1>9. /\ pc' \in [Executor -> {"idle", "catch", "run", "done", "exit", "panic", "fatal"}]
      /\ pc'[e] = "panic" /\ \A x \in Executor \ {e} : pc'[x] = pc[x]
  BY <1>2 DEF InvokeTypeOK
<1>10. InvokeTypeOK'
  <2>1. \A x \in Executor : IsIntentFsm(fsm'[x])
    BY <1>2, <1>7, <1>8 DEF InvokeTypeOK
  <2> QED BY <1>2, <1>3, <1>4, <1>6, <1>7, <1>9, <2>1 DEF InvokeTypeOK, EnvRecord
<1>11. ASSUME NEW r \in runs' PROVE RunOK(r)'
  <2>1. r \in RunRecord /\ RunOK(r)
    BY <1>4
  <2> QED BY <1>2, <1>3, <1>10, <2>1, KeepRun
<1>12. ProgressOK(e)'
  BY <1>9 DEF ProgressOK
<1>13. \A x \in Executor \ {e} : Untouched(x)
  BY <1>4, <1>6, <1>7, <1>9 DEF Untouched
<1> QED BY <1>2, <1>3, <1>4, <1>9, <1>10, <1>11, <1>12, <1>13, StepOf
-----------------------------------------------------------------------------
(***************************************************************************)
(* Invocations and the executions of callees.                              *)
(***************************************************************************)
LEMMA InvokeStep == ASSUME InvokeInv, NEW e \in Executor, Invoke(e) PROVE InvokeInv'
<1>1. PICK c \in calls[e] :
        /\ ~ c.sent
        /\ runs' = runs \cup {RunOf(e, c)}
        /\ started' = started \cup {c.callee}
        /\ calls' = [calls EXCEPT ![e] =
                       IF c.kind = "async" THEN calls[e] \ {c}
                       ELSE (calls[e] \ {c}) \cup {[c EXCEPT !.sent = TRUE]}]
        /\ UNCHANGED <<vars, result, told>>
  BY DEF Invoke
<1>2. /\ InvokeTypeOK /\ c \in CallRecord /\ CallOK(e, c) /\ InstanceOf[e] \in Instance
      /\ UNCHANGED <<logTail, stream, pc, env, fsm, result, told>>
  BY <1>1 DEF InvokeInv, InvokeTypeOK, vars
<1>3. PICK new : new = RunOf(e, c)
  OBVIOUS
<1>4. PICK sent : sent = [c EXCEPT !.sent = TRUE]
  OBVIOUS
<1>5. /\ c.callee \in CalleeId /\ c.step \in StepIndex /\ c.seqNum \in Nat /\ c.kind \in Kind
      /\ sent \in CallRecord /\ sent.step = c.step /\ sent.callee = c.callee
      /\ sent.seqNum = c.seqNum /\ sent.kind = c.kind /\ sent.sent
  BY <1>2, <1>4 DEF CallRecord
<1>6. /\ new.callee = c.callee /\ new.callerId = InstanceOf[e] /\ new.callerStep = c.step
      /\ new.seqNum = c.seqNum /\ new.at = "run" /\ new.by \in {NoCaller, e}
  BY <1>3 DEF RunOf
<1>7. new \in RunRecord
  <2>1. (env[e].exit /\ c.kind # "async") \in BOOLEAN
    OBVIOUS
  <2>2. (IF c.kind = "async" THEN NoCaller ELSE e) \in Executor \cup {NoCaller}
    OBVIOUS
  <2> QED BY <1>2, <1>3, <1>5, <2>1, <2>2 DEF RunOf, RunRecord
<1>8. /\ calls' \in [Executor -> SUBSET CallRecord]
      /\ \A x \in Executor \ {e} : calls'[x] = calls[x]
      /\ calls'[e] = IF c.kind = "async" THEN calls[e] \ {c} ELSE (calls[e] \ {c}) \cup {sent}
  BY <1>1, <1>2, <1>4, <1>5 DEF InvokeTypeOK
<1>9. InvokeTypeOK'
  <2>1. runs' \in SUBSET RunRecord /\ started' \in SUBSET CalleeId
    BY <1>1, <1>2, <1>3, <1>5, <1>7 DEF InvokeTypeOK
  <2> QED BY <1>2, <1>8, <2>1 DEF InvokeTypeOK
<1>10. Grows /\ \A i \in Instance : StreamOK(stream[i])'
  BY <1>1, <1>2, StreamAlone
<1>11. ASSUME NEW x \in calls'[e] PROVE x \in calls[e] \/ CallOK(e, x)'
  <2>1. CASE c.kind # "async" /\ x = sent
    BY <1>1, <1>2, <1>5, <2>1 DEF CallOK
  <2> QED BY <1>8, <2>1
<1>12. ASSUME NEW r \in runs' PROVE r \in runs \/ RunOK(r)'
  <2>1. CASE r = new
    <3>1. InstanceOf[e] = new.callerId /\ (new.by # NoCaller => new.by = e) /\ new.at # "logged"
      BY <1>6
    <3> QED BY <1>2, <1>6, <2>1, <3>1 DEF CallOK, RunOK
  <2> QED BY <1>1, <1>3, <2>1
<1>13. GoesOn(e)
  <2>1. ASSUME NEW s \in StepIndex, Waits(e, s)
        PROVE  Waits(e, s)' \/ StepOver(InstanceOf[e], s)'
    <3>1. PICK x \in calls[e] : x.step = s
      BY <2>1 DEF Waits
    <3>2. CASE x # c
      BY <1>8, <3>1, <3>2 DEF Waits
    <3>3. CASE x = c /\ c.kind # "async"
      BY <1>5, <1>8, <3>1, <3>3 DEF Waits
    <3>4. CASE x = c /\ c.kind = "async"
      <4>1. /\ c.callee = stream'[InstanceOf[e]][s + 1].data.callee /\ c.callee \in started'
            /\ Program[InstanceOf[e]][s + 1] = "async"
        BY <1>1, <1>2, <3>1, <3>4 DEF CallOK
      <4> QED BY <4>1 DEF StepOver
    <3> QED BY <3>2, <3>3, <3>4
  <2> QED BY <1>2, <2>1 DEF GoesOn
<1>14. pc'[e] \in {"catch", "run"} => LeavesAlone(e)
  BY <1>2 DEF LeavesAlone
<1>15. \A x \in Executor \ {e} : Untouched(x)
  BY <1>2, <1>8 DEF Untouched
<1> QED BY <1>2, <1>9, <1>10, <1>11, <1>12, <1>13, <1>14, <1>15, StepOf

LEMMA CalleeDecidesStep ==
  ASSUME InvokeInv, NEW r \in runs, CalleeDecides(r) PROVE InvokeInv'
<1>1. /\ InvokeTypeOK /\ r \in RunRecord /\ r.callee \in CalleeId /\ result[r.callee] = None
      /\ UNCHANGED <<logTail, stream, pc, env, fsm, calls, runs, told, started>>
  BY DEF InvokeInv, InvokeTypeOK, CalleeDecides, vars, RunRecord
<1>2. PICK o \in Output : result' = [result EXCEPT ![r.callee] = o]
  BY DEF CalleeDecides
<1>3. /\ result' \in [CalleeId -> Output \cup {None}]
      /\ \A c \in CalleeId : result[c] # None => result'[c] = result[c]
  BY <1>1, <1>2 DEF InvokeTypeOK
<1>4. InvokeTypeOK'
  BY <1>1, <1>3 DEF InvokeTypeOK
<1>5. Grows /\ \A i \in Instance : StreamOK(stream[i])'
  BY <1>1, <1>3, StreamAlone
<1>6. \A e \in Executor : GoesOn(e) /\ (pc'[e] \in {"catch", "run"} => LeavesAlone(e))
  BY <1>1 DEF GoesOn, LeavesAlone, Waits
<1> QED BY <1>1, <1>4, <1>5, <1>6, Combine

LEMMA CalleeLogsStep ==
  ASSUME InvokeInv, NEW r \in runs, CalleeLogs(r) PROVE InvokeInv'
<1> DEFINE i == r.callerId
           k == r.callerStep + 1
<1>1. /\ InvokeTypeOK /\ r \in RunRecord /\ RunOK(r) /\ result[r.callee] # None
      /\ UNCHANGED <<logTail, pc, env, fsm, calls, result, told, started>>
      /\ runs' = (runs \ {r}) \cup {q \in {[r EXCEPT !.at = "logged"]} : q.by # NoCaller}
  BY DEF InvokeInv, InvokeTypeOK, CalleeLogs
<1>2. /\ i \in Instance /\ r.callee \in CalleeId /\ r.callerStep \in Nat
      /\ stream[i] \in Seq(LogEntry) /\ Len(stream[i]) \in Nat
      /\ result[r.callee] \in Output
  BY <1>1, Entries DEF RunRecord, StepIndex, InvokeTypeOK
<1>3. k \in 1 .. Len(stream[i]) /\ r.callee = stream[i][k].data.callee
  BY <1>1, <1>2 DEF RunOK
<1>4. PICK new : new = ResultEntry(stream[i][k], r.callee)
  OBVIOUS
<1>5. stream' = [stream EXCEPT ![i] = [stream[i] EXCEPT ![k] = new]]
  BY <1>4 DEF CalleeLogs, Overwrite
<1>6. /\ new \in LogEntry /\ new.seqNum = stream[i][k].seqNum /\ new.data.callee = r.callee
      /\ IsForeign(new)
  <2>1. stream[i][k].seqNum \in Nat
    BY <1>1, <1>2, <1>3, Entries
  <2> QED BY <1>2, <1>4, <2>1 DEF ResultEntry, LogEntry, IsForeign
<1>7. /\ stream'[i] = [stream[i] EXCEPT ![k] = new]
      /\ \A j \in Instance \ {i} : stream'[j] = stream[j]
      /\ stream' \in [Instance -> Seq(LogEntry)]
  <2>1. [stream[i] EXCEPT ![k] = new] \in Seq(LogEntry)
    BY <1>2, <1>3, <1>6
  <2> HIDE DEF i, k
  <2> QED BY <1>1, <1>2, <1>5, <2>1 DEF InvokeTypeOK
<1>8. /\ Len(stream'[i]) = Len(stream[i]) /\ stream'[i][k] = new
      /\ \A m \in 1 .. Len(stream[i]) : m # k => stream'[i][m] = stream[i][m]
  BY <1>2, <1>3, <1>7
<1>9. Grows
  <2>1. ASSUME NEW j \in Instance
        PROVE  /\ Len(stream[j]) <= Len(stream'[j])
               /\ \A m \in 1 .. Len(stream[j]) : SameStep(stream'[j][m], stream[j], m)
    <3>1. CASE j = i
      <4>1. \A m \in 1 .. Len(stream[i]) :
              /\ stream'[i][m].seqNum = stream[i][m].seqNum
              /\ stream'[i][m].data.callee = stream[i][m].data.callee
        BY <1>3, <1>6, <1>8
      <4> HIDE DEF i, k
      <4> QED BY <1>2, <1>8, <3>1, <4>1 DEF SameStep
    <3>2. CASE j # i
      <4>1. Len(stream[j]) \in Nat /\ stream'[j] = stream[j]
        BY <1>1, <1>7, <3>2, Entries
      <4> QED BY <4>1 DEF SameStep
    <3> QED BY <3>1, <3>2
  <2> QED BY <1>1, <2>1 DEF Grows
<1>10. ASSUME NEW j \in Instance PROVE StreamOK(stream[j])'
  <2>1. StreamOK(stream[j])
    BY DEF InvokeInv
  <2>2. CASE j # i
    BY <1>1, <1>7, <2>1, <2>2 DEF StreamOK, IsForeign
  <2>3. CASE j = i
    <3>1. \A m \in 1 .. Len(stream[i]) : stream'[i][m].seqNum = stream[i][m].seqNum
      BY <1>6, <1>8
    <3>2. \A m \in 1 .. Len(stream[i]) :
            ~ IsForeign(stream'[i][m]) => stream'[i][m].stepNumber = m - 1
      BY <1>6, <1>8, <2>1, <2>3 DEF StreamOK
    <3>3. \A m \in 1 .. Len(stream[i]) : \A l \in 1 .. m - 1 : l \in 1 .. Len(stream[i])
      BY <1>2
    <3> HIDE DEF i, k
    <3>4. \A m \in 1 .. Len(stream[i]) : \A l \in 1 .. m - 1 :
            stream'[i][l].seqNum < stream'[i][m].seqNum
      BY <2>1, <2>3, <3>1, <3>3 DEF StreamOK
    <3>5. \A m \in 1 .. Len(stream[i]) : stream'[i][m].seqNum > 0 /\ stream'[i][m].seqNum <= logTail'
      BY <1>1, <2>1, <2>3, <3>1 DEF StreamOK
    <3> QED BY <1>8, <2>3, <3>2, <3>4, <3>5 DEF StreamOK, IsForeign
  <2> QED BY <2>2, <2>3
<1>11. /\ runs' \in SUBSET RunRecord
       /\ \A q \in runs' : RunOK(q)
  <2>1. [r EXCEPT !.at = "logged"] \in RunRecord
    BY <1>1 DEF RunRecord
  <2>2. RunOK([r EXCEPT !.at = "logged"])
    BY <1>1 DEF RunRecord, RunOK
  <2>3. \A q \in runs : q \in RunRecord /\ RunOK(q)
    BY <1>1 DEF InvokeInv, InvokeTypeOK
  <2> QED BY <1>1, <2>1, <2>2, <2>3
<1>12. InvokeTypeOK'
  BY <1>1, <1>7, <1>11 DEF InvokeTypeOK
<1>13. \A q \in runs' : RunOK(q)'
  BY <1>1, <1>9, <1>11, <1>12, KeepRun
<1>14. \A e \in Executor : GoesOn(e) /\ (pc'[e] \in {"catch", "run"} => LeavesAlone(e))
  BY <1>1 DEF GoesOn, LeavesAlone, Waits
<1> QED BY <1>1, <1>9, <1>10, <1>12, <1>13, <1>14, Combine

LEMMA CalleeReturnsStep ==
  ASSUME InvokeInv, NEW r \in runs, CalleeReturns(r) PROVE InvokeInv'
<1>1. /\ InvokeTypeOK /\ r \in RunRecord /\ RunOK(r) /\ r.at = "logged"
      /\ UNCHANGED <<logTail, stream, pc, env, fsm, result, started>>
      /\ runs' = runs \ {r}
  BY DEF InvokeInv, InvokeTypeOK, CalleeReturns, vars
<1>2. /\ r.callerId \in Instance /\ r.callerStep \in StepIndex /\ r.callee \in CalleeId
      /\ result[r.callee] # None /\ result[r.callee] \in Output
      /\ r.callerStep < Len(stream[r.callerId])
      /\ r.callee = stream[r.callerId][r.callerStep + 1].data.callee
  BY <1>1 DEF RunRecord, RunOK, InvokeTypeOK
<1>3. CASE r.by = NoCaller
  <2>1. UNCHANGED <<calls, told>>
    BY <1>3 DEF CalleeReturns
  <2>2. InvokeTypeOK'
    BY <1>1, <2>1 DEF InvokeTypeOK
  <2>3. Grows /\ \A i \in Instance : StreamOK(stream[i])'
    BY <1>1, <2>1, StreamAlone
  <2>4. \A e \in Executor : GoesOn(e) /\ (pc'[e] \in {"catch", "run"} => LeavesAlone(e))
    BY <1>1, <2>1 DEF GoesOn, LeavesAlone, Waits
  <2> QED BY <1>1, <2>1, <2>2, <2>3, <2>4, Combine
<1>4. CASE r.by # NoCaller
  <2> DEFINE e == r.by
             i == r.callerId
             answer == <<result[r.callee], r.callee>>
  <2>1. e \in Executor /\ InstanceOf[e] = i
    BY <1>1, <1>4 DEF RunOK, RunRecord
  <2>2. /\ calls' = [calls EXCEPT ![e] = calls[e] \ Answered(e, r)]
        /\ told' = [told EXCEPT ![i] = [told[i] EXCEPT ![r.callerStep] =
                                          told[i][r.callerStep] \cup {answer}]]
    BY <1>4 DEF CalleeReturns
  <2>3. answer \in Output \X CalleeId
    BY <1>2
  <2>4. told[i] \in [StepIndex -> SUBSET (Output \X CalleeId)]
    BY <1>1, <1>2 DEF InvokeTypeOK
  <2>0. PICK a : a = answer
    OBVIOUS
  <2> HIDE DEF answer
  <2>5. /\ told'[i] \in [StepIndex -> SUBSET (Output \X CalleeId)]
        /\ told'[i][r.callerStep] = told[i][r.callerStep] \cup {a}
        /\ \A s \in StepIndex \ {r.callerStep} : told'[i][s] = told[i][s]
        /\ \A j \in Instance \ {i} : told'[j] = told[j]
        /\ told' = [j \in Instance |-> told'[j]]
    BY <1>1, <1>2, <2>0, <2>2, <2>3, <2>4 DEF InvokeTypeOK
  <2>6. /\ calls'[e] = calls[e] \ Answered(e, r)
        /\ calls' \in [Executor -> SUBSET CallRecord]
        /\ \A x \in Executor \ {e} : calls'[x] = calls[x]
    BY <1>1, <2>1, <2>2 DEF InvokeTypeOK
  <2>7. InvokeTypeOK'
    <3>1. told' \in [Instance -> [StepIndex -> SUBSET (Output \X CalleeId)]]
      BY <1>1, <2>5 DEF InvokeTypeOK
    <3> QED BY <1>1, <2>6, <3>1 DEF InvokeTypeOK
  <2>8. Grows /\ \A j \in Instance : StreamOK(stream[j])'
    <3>1. \A j \in Instance : \A s \in StepIndex : told[j][s] \subseteq told'[j][s]
      BY <2>5
    <3> QED BY <1>1, <3>1, StreamAlone
  <2>9. ASSUME NEW j \in Instance, NEW s \in StepIndex
        PROVE  told'[j][s] = told[j][s] \/ ToldOK(j, s)'
    <3>1. CASE j = i /\ s = r.callerStep
      <4>1. ToldOK(i, s)
        BY <1>2 DEF InvokeInv
      <4>2. a = <<result[r.callee], r.callee>>
        BY <2>0 DEF answer
      <4> HIDE DEF i
      <4> SUFFICES ASSUME NEW t \in told'[j][s]
                   PROVE  /\ s < Len(stream[j])
                          /\ result[stream[j][s + 1].data.callee] # None
                          /\ t = <<result[stream[j][s + 1].data.callee], stream[j][s + 1].data.callee>>
        BY <1>1 DEF ToldOK
      <4>3. s < Len(stream[j]) /\ r.callee = stream[j][s + 1].data.callee
        BY <1>2, <3>1 DEF i
      <4>4. t \in told[i][s] \/ t = a
        BY <2>5, <3>1
      <4> QED BY <1>2, <3>1, <4>1, <4>2, <4>3, <4>4 DEF ToldOK
    <3> QED BY <2>5, <3>1
  <2>10. GoesOn(e)
    <3>1. ASSUME NEW s \in StepIndex, Waits(e, s)
          PROVE  Waits(e, s)' \/ StepOver(InstanceOf[e], s)'
      <4>1. PICK x \in calls[e] : x.step = s
        BY <3>1 DEF Waits
      <4>2. CASE x \notin Answered(e, r)
        BY <2>6, <4>1, <4>2 DEF Waits
      <4>3. CASE x \in Answered(e, r)
        <5>1. s = r.callerStep /\ x.sent /\ x.callee = r.callee
          BY <4>1, <4>3 DEF Answered
        <5>2. x.callee \in started
          BY <2>1, <5>1 DEF InvokeInv, CallOK
        <5>3. a \in told'[i][s] /\ a = <<result[r.callee], r.callee>>
          BY <2>0, <2>5, <5>1 DEF answer
        <5>4. \A t \in told'[i][s] : t = a
          <6>1. \A t \in told[i][s] : t = <<result[r.callee], r.callee>>
            BY <1>2, <5>1, SMTT(30) DEF InvokeInv, ToldOK
          <6> QED BY <2>5, <5>1, <5>3, <6>1
        <5>5. told'[i][s] = {<<result[r.callee], r.callee>>}
          BY <5>3, <5>4
        <5>6. r.callee = stream'[i][s + 1].data.callee /\ r.callee \in started'
          BY <1>1, <1>2, <5>1, <5>2
        <5>7. StepOver(i, s)'
          BY <1>1, <1>2, <5>5, <5>6 DEF StepOver
        <5> QED BY <2>1, <5>7
      <4> QED BY <4>2, <4>3
    <3> QED BY <1>1, <3>1 DEF GoesOn
  <2>11. pc'[e] \in {"catch", "run"} => LeavesAlone(e)
    BY <1>1 DEF LeavesAlone
  <2>12. \A x \in Executor \ {e} : Untouched(x)
    BY <1>1, <2>6 DEF Untouched
  <2> HIDE DEF e
  <2> QED BY <1>1, <2>1, <2>6, <2>7, <2>8, <2>9, <2>10, <2>11, <2>12, StepOf
<1> QED BY <1>3, <1>4

LEMMA CalleeFailsStep ==
  ASSUME InvokeInv, NEW r \in runs, CalleeFails(r) PROVE InvokeInv'
<1>1. /\ InvokeTypeOK /\ r \in RunRecord
      /\ UNCHANGED <<logTail, stream, pc, fsm, result, told, started>>
      /\ runs' = runs \ {r}
  BY DEF InvokeInv, InvokeTypeOK, CalleeFails
<1>2. Grows /\ \A i \in Instance : StreamOK(stream[i])'
  BY <1>1, StreamAlone
<1>3. CASE r.by = NoCaller
  <2>1. UNCHANGED <<calls, env>>
    BY <1>3 DEF CalleeFails
  <2>2. InvokeTypeOK'
    BY <1>1, <2>1 DEF InvokeTypeOK
  <2>3. \A e \in Executor : GoesOn(e) /\ (pc'[e] \in {"catch", "run"} => LeavesAlone(e))
    BY <1>1, <2>1 DEF GoesOn, LeavesAlone, Waits
  <2> QED BY <1>1, <1>2, <2>1, <2>2, <2>3, Combine
<1>4. CASE r.by # NoCaller
  <2>0. PICK e \in Executor : e = r.by
    BY <1>1, <1>4 DEF RunRecord
  <2>1. /\ calls' = [calls EXCEPT ![e] = calls[e] \ Answered(e, r)]
        /\ env' = [env EXCEPT ![e].exit = TRUE]
    BY <1>4, <2>0 DEF CalleeFails
  <2>2. env \in [Executor -> EnvRecord]
    BY <1>1 DEF InvokeTypeOK, EnvRecord
  <2>3. /\ env' \in [Executor -> EnvRecord]
        /\ env'[e].stepNumber = env[e].stepNumber /\ env'[e].exit
        /\ \A x \in Executor \ {e} : env'[x] = env[x]
    BY <2>1, <2>2 DEF EnvRecord
  <2>4. /\ calls'[e] \subseteq calls[e]
        /\ calls' \in [Executor -> SUBSET CallRecord]
        /\ \A x \in Executor \ {e} : calls'[x] = calls[x]
    BY <1>1, <2>1 DEF InvokeTypeOK
  <2>5. InvokeTypeOK'
    BY <1>1, <2>3, <2>4 DEF InvokeTypeOK, EnvRecord
  <2>6. ProgressOK(e)'
    <3>1. CASE pc'[e] = "done"
      <4>1. pc[e] = "done" /\ InstanceOf[e] \in Instance /\ Len(stream[InstanceOf[e]]) \in Nat
        BY <1>1, <3>1, Entries
      <4>2. NumSteps <= Len(stream[InstanceOf[e]]) /\ \A s \in StepIndex : StepOver(InstanceOf[e], s)
        BY <4>1 DEF InvokeInv, ProgressOK
      <4>3. \A s \in StepIndex : StepOver(InstanceOf[e], s)'
        BY <1>1, <4>2 DEF StepOver
      <4> QED BY <1>1, <2>3, <4>2, <4>3 DEF ProgressOK
    <3>2. CASE pc'[e] # "done"
      BY <2>3, <3>2 DEF ProgressOK
    <3> QED BY <3>1, <3>2
  <2>7. pc'[e] \in {"catch", "run"} => LeavesAlone(e)
    BY <1>1, <2>3 DEF LeavesAlone
  <2>8. \A x \in Executor \ {e} : Untouched(x)
    BY <1>1, <2>3, <2>4 DEF Untouched
  <2> QED BY <1>1, <1>2, <2>4, <2>5, <2>6, <2>7, <2>8, StepOf
<1> QED BY <1>3, <1>4
-----------------------------------------------------------------------------
(***************************************************************************)
(* The invariant holds in every reachable state, for any number of         *)
(* callers, executions, callees and crashes: streams are ordered, live     *)
(* executions follow them, every invocation and every execution of a       *)
(* callee is one the log names, and what was answered is its result.       *)
(***************************************************************************)
THEOREM InvokeInvHolds == InvokeSpec => []InvokeInv
<1>1. InvokeInit => InvokeInv
  BY InvokeInitOK
<1>2. InvokeInv /\ [InvokeNext]_allVars => InvokeInv'
  <2> SUFFICES ASSUME InvokeInv, [InvokeNext]_allVars PROVE InvokeInv'
    OBVIOUS
  <2>1. CASE UNCHANGED allVars
    <3>1. /\ InvokeTypeOK
          /\ UNCHANGED <<logTail, stream, pc, env, fsm, calls, runs, result, told, started>>
      BY <2>1 DEF allVars, InvokeInv
    <3>2. InvokeTypeOK'
      BY <3>1 DEF InvokeTypeOK
    <3>3. Grows /\ \A i \in Instance : StreamOK(stream[i])'
      BY <3>1, StreamAlone
    <3>4. \A e \in Executor : GoesOn(e) /\ (pc'[e] \in {"catch", "run"} => LeavesAlone(e))
      BY <3>1 DEF GoesOn, LeavesAlone, Waits
    <3> QED BY <3>1, <3>2, <3>3, <3>4, Combine
  <2>2. ASSUME NEW e \in Executor, Caller(e) PROVE InvokeInv'
    <3>1. Replay(e) => InvokeInv'
      BY CatchNextStep, CatchDoneStep DEF Replay
    <3> QED BY <2>2, <3>1, BeginStep, CatchDoneStep, EndStep, SeenPreInvokeStep,
               LoseStepStep, ProposePanicStep, PreInvokeStep, InvokeStep DEF Caller
  <2>3. ASSUME NEW e \in Executor, Die(e) PROVE InvokeInv'
    BY <2>3, DieStep
  <2>4. ASSUME NEW r \in runs, CalleeStep(r) PROVE InvokeInv'
    BY <2>4, CalleeDecidesStep, CalleeLogsStep, CalleeReturnsStep, CalleeFailsStep DEF CalleeStep
  <2> QED BY <2>1, <2>2, <2>3, <2>4 DEF InvokeNext
<1> QED BY <1>1, <1>2, PTL DEF InvokeSpec

(***************************************************************************)
(* However many executions of a caller race, only the callee that its log  *)
(* names is started for a step, from the cursor of that entry, and all of  *)
(* them get one answer (PreInvoke, ProposeInvoke and                       *)
(* LogStepResultForCaller).                                                *)
(***************************************************************************)
THEOREM OneResultHolds == InvokeSpec => []OneResult
<1>1. InvokeInv => OneResult
  <2> SUFFICES ASSUME InvokeInv PROVE OneResult
    OBVIOUS
  <2>1. InvokeTypeOK
    BY DEF InvokeInv
  <2>2. CalleesAreLogged
    <3> SUFFICES ASSUME NEW r \in runs
                 PROVE  /\ r.callerStep + 1 \in DOMAIN stream[r.callerId]
                        /\ stream[r.callerId][r.callerStep + 1].data.callee = r.callee
                        /\ stream[r.callerId][r.callerStep + 1].seqNum = r.seqNum
      BY DEF CalleesAreLogged
    <3>1. r.callerId \in Instance /\ r.callerStep \in Nat /\ RunOK(r)
      BY <2>1 DEF InvokeInv, InvokeTypeOK, RunRecord, StepIndex
    <3>2. /\ Len(stream[r.callerId]) \in Nat
          /\ DOMAIN stream[r.callerId] = 1 .. Len(stream[r.callerId])
      BY <2>1, <3>1, Entries
    <3> QED BY <3>1, <3>2 DEF RunOK
  <2>3. ASSUME NEW i \in Instance, NEW s \in DOMAIN told[i]
        PROVE  Cardinality(told[i][s]) <= 1
    <3>1. s \in StepIndex
      BY <2>1 DEF InvokeTypeOK
    <3>2. ToldOK(i, s)
      BY <3>1 DEF InvokeInv
    <3>3. PICK t : t = <<result[stream[i][s + 1].data.callee], stream[i][s + 1].data.callee>>
      OBVIOUS
    <3>4. told[i][s] = {} \/ told[i][s] = {t}
      BY <3>2, <3>3 DEF ToldOK
    <3>5. Cardinality({}) = 0 /\ Cardinality({t}) = 1
      BY FS_EmptySet, FS_Singleton
    <3>6. Cardinality(told[i][s]) = 0 \/ Cardinality(told[i][s]) = 1
      BY <3>4, <3>5, Zenon
    <3> QED BY <3>6
  <2> QED BY <2>2, <2>3 DEF OneResult
<1> QED BY <1>1, InvokeInvHolds, PTL

(***************************************************************************)
(* A caller that reports success has invoked everything its log says, and  *)
(* has the one result of each callee that it had to wait for (SyncInvoke,  *)
(* AssignedSyncInvoke and the end of wrapperInternal).                     *)
(***************************************************************************)
THEOREM SuccessHasCallees == InvokeSpec => []SuccessIncludesCallees
<1>1. InvokeInv => SuccessIncludesCallees
  <2> SUFFICES ASSUME InvokeInv, NEW e \in Executor, pc[e] = "done", NEW s \in 0 .. NumSteps - 1
               PROVE  LET i == InstanceOf[e]
                          c == stream[i][s + 1].data.callee
                      IN  /\ c \in started
                          /\ Program[i][s + 1] \in {"sync", "fork"} =>
                               result[c] # None /\ told[i][s] = {<<result[c], c>>}
    BY DEF SuccessIncludesCallees
  <2>1. s \in StepIndex /\ ProgressOK(e)
    BY DEF StepIndex, InvokeInv
  <2>2. StepOver(InstanceOf[e], s)
    BY <2>1 DEF ProgressOK
  <2> QED BY <2>2 DEF StepOver
<1> QED BY <1>1, InvokeInvHolds, PTL
=============================================================================
