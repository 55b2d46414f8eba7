--------------------------- MODULE IntentLog_proofs ---------------------------
(***************************************************************************)
(* Proofs about IntentLog, for any number of instances, executors, steps   *)
(* and crashes, and for handlers that do or do not check env.Instruction.  *)
(***************************************************************************)
EXTENDS IntentLog, TLAPS

USE InstanceOfAssumption, NoneAssumption, NumStepsAssumption,
    CallSeqNumAssumption, ChecksExitAssumption, MaxCrashesAssumption

(***************************************************************************)
(* What Catch relies on: the entry after the tail of a prefix is the       *)
(* prefix's next step, so applying it extends the prefix by one and never  *)
(* panics.                                                                 *)
(***************************************************************************)
WellFormed(s) ==
  \A k \in 1 .. Len(s) :
    /\ s[k].stepNumber = k - 1
    /\ s[k].seqNum > 0
    /\ \A j \in 1 .. k - 1 : s[j].seqNum < s[k].seqNum

\* In a stream ordered by sequence number, the next entry to read after a
\* prefix is the entry right behind that prefix.
LEMMA NextOfPrefix ==
  ASSUME NEW s \in Seq(IntentLogEntry), WellFormed(s),
         NEW f, IsIntentFsm(f), IsPrefix(f, s), NEW k \in 1 .. Len(s), IsNext(s, f.tail, k)
  PROVE  /\ k = f.stepNumber + 1
         /\ ~ NotMonotonic(f, s[k])
         /\ IsPrefix(applyLog(f, s[k]), s)
         /\ IsIntentFsm(applyLog(f, s[k]))
<1> DEFINE n == f.stepNumber
<1>1. n \in Nat /\ Len(s) \in Nat /\ k \in Nat /\ f.tail \in Nat /\ n <= Len(s)
  BY DEF IsPrefix, IsIntentFsm
<1>0. ASSUME NEW j \in 1 .. Len(s)
      PROVE  s[j].seqNum \in Nat /\ s[j].stepNumber \in Nat
  <2>1. s[j] \in IntentLogEntry
    OBVIOUS
  <2> QED BY <2>1 DEF IntentLogEntry
<1>2. s[k].seqNum \in Nat /\ s[k].stepNumber \in Nat
  BY <1>0
<1>3. k > n
  <2>1. CASE n = 0
    BY <2>1, <1>1
  <2>2. CASE n > 0
    <3>1. f.tail = s[n].seqNum
      BY <2>2, <1>1 DEF IsPrefix
    <3>2. SUFFICES ASSUME k <= n PROVE FALSE
      BY <1>1
    <3>3. s[k].seqNum > s[n].seqNum
      BY <3>1 DEF IsNext
    <3>4. CASE k = n
      BY <3>4, <3>3, <1>2
    <3>5. CASE k < n
      <4>1. n \in 1 .. Len(s) /\ k \in 1 .. n - 1
        BY <3>5, <1>1
      <4>2. s[k].seqNum < s[n].seqNum
        BY <4>1 DEF WellFormed
      <4>3. s[n].seqNum \in Nat
        BY <4>1, <1>0
      <4> QED BY <4>2, <4>3, <3>3, <1>2
    <3> QED BY <3>2, <3>4, <3>5, <1>1
  <2> QED BY <2>1, <2>2, <1>1
<1>4. k <= n + 1
  <2>1. SUFFICES ASSUME k > n + 1 PROVE FALSE
    BY <1>1
  <2>2. n + 1 \in 1 .. k - 1 /\ n + 1 \in 1 .. Len(s)
    BY <2>1, <1>1
  <2>3. s[n + 1].seqNum <= f.tail
    BY <2>2 DEF IsNext
  <2>4. s[n + 1].seqNum \in Nat
    BY <2>2, <1>0
  <2>5. CASE n = 0
    BY <2>5, <2>2, <2>3, <2>4, <1>1 DEF IsPrefix, WellFormed
  <2>6. CASE n > 0
    <3>1. f.tail = s[n].seqNum /\ n \in 1 .. (n + 1) - 1
      BY <2>6, <1>1 DEF IsPrefix
    <3>2. s[n].seqNum < s[n + 1].seqNum
      BY <3>1, <2>2 DEF WellFormed
    <3> QED BY <3>1, <3>2, <2>3, <2>4, <1>1
  <2> QED BY <2>5, <2>6, <1>1
<1>5. k = n + 1
  BY <1>1, <1>3, <1>4
<1>6. s[k].stepNumber = n
  BY <1>1, <1>5 DEF WellFormed
<1>7. n \notin DOMAIN f.stepLogs
  BY <1>1 DEF IsPrefix
<1>8. applyLog(f, s[k]) =
        [stepNumber |-> n + 1, tail |-> s[k].seqNum,
         stepLogs |-> [t \in DOMAIN f.stepLogs \cup {n} |->
                         IF t = n THEN s[k] ELSE f.stepLogs[t]]]
  BY <1>6, <1>7 DEF applyLog
<1>9. ~ NotMonotonic(f, s[k])
  BY <1>6 DEF NotMonotonic
<1>10. IsPrefix(applyLog(f, s[k]), s)
  BY <1>1, <1>5, <1>8 DEF IsPrefix
<1> QED BY <1>1, <1>2, <1>5, <1>8, <1>9, <1>10 DEF IsIntentFsm

(***************************************************************************)
(* Another entry in the stream disturbs no execution that did not put it   *)
(* there.                                                                  *)
(***************************************************************************)
LEMMA Frame ==
  ASSUME TypeOK, NEW x \in Executor, ExecOK(x), NEW entry,
         stream' \in [Instance -> Seq(IntentLogEntry)],
         \/ stream'[InstanceOf[x]] = stream[InstanceOf[x]]
         \/ stream'[InstanceOf[x]] = Append(stream[InstanceOf[x]], entry),
         pc'[x] = pc[x], env'[x] = env[x], fsm'[x] = fsm[x], seen'[x] = seen[x]
  PROVE  ExecOK(x)'
<1> DEFINE s == stream[InstanceOf[x]]
           t == stream'[InstanceOf[x]]
<1>1. /\ s \in Seq(IntentLogEntry) /\ t \in Seq(IntentLogEntry)
      /\ seen[x] \in Seq(Data \cup {None})
      /\ env[x].stepNumber \in Nat /\ env[x].exit \in BOOLEAN
      /\ IsIntentFsm(fsm[x])
  BY DEF TypeOK
<1>2. /\ Len(s) \in Nat /\ Len(t) \in Nat /\ Len(seen[x]) \in Nat
      /\ Len(s) <= Len(t)
      /\ \A k \in 1 .. Len(s) : t[k] = s[k]
  BY <1>1
<1>3. Told(x)'
  BY <1>1, <1>2 DEF ExecOK, Told
<1>4. ASSUME IsPrefix(fsm[x], s)
      PROVE  IsPrefix(fsm[x], t)
  BY <1>1, <1>2, <1>4 DEF IsPrefix, IsIntentFsm
<1>5. ASSUME AtStep(x)
      PROVE  AtStep(x)'
  BY <1>1, <1>2, <1>5 DEF AtStep
<1> QED BY <1>3, <1>4, <1>5 DEF ExecOK

(***************************************************************************)
(* The initial states satisfy the invariant.                               *)
(***************************************************************************)
LEMMA InitIndInv == Init => IndInv
<1> SUFFICES ASSUME Init PROVE IndInv
  OBVIOUS
<1>1. IsIntentFsm(NewIntentFsm) /\ NewEnv \in [stepNumber : Nat, seqNum : Nat, exit : BOOLEAN]
  BY DEF IsIntentFsm, NewIntentFsm, NewEnv
<1>2. TypeOK
  BY <1>1 DEF Init, TypeOK
<1>3. \A i \in Instance : Len(stream[i]) = 0
  BY DEF Init
<1>4. OneEntryPerStep
  BY <1>3 DEF OneEntryPerStep
<1>5. ASSUME NEW e \in Executor PROVE ExecOK(e)
  <2>1. stream[InstanceOf[e]] = <<>> /\ seen[e] = <<>> /\ pc[e] = "idle"
    BY DEF Init
  <2>2. IsPrefix(fsm[e], stream[InstanceOf[e]])
    BY <2>1 DEF Init, NewIntentFsm, IsPrefix
  <2>3. AtStep(e)
    BY <2>1 DEF Init, NewEnv, NewIntentFsm, AtStep
  <2> QED BY <2>1, <2>2, <2>3 DEF ExecOK, Told
<1> QED BY <1>2, <1>3, <1>4, <1>5 DEF IndInv

(***************************************************************************)
(* A step of e that leaves the log alone has only e's own part to prove.   *)
(***************************************************************************)
LEMMA LocalStep ==
  ASSUME IndInv, NEW e \in Executor, UNCHANGED <<logTail, stream>>, TypeOK',
         \A x \in Executor \ {e} :
           /\ pc'[x] = pc[x] /\ env'[x] = env[x]
           /\ fsm'[x] = fsm[x] /\ seen'[x] = seen[x],
         ExecOK(e)'
  PROVE  IndInv'
<1>1. OneEntryPerStep'
  BY DEF IndInv, OneEntryPerStep
<1>2. \A i \in Instance : Len(stream'[i]) <= NumSteps
  BY DEF IndInv
<1>3. ASSUME NEW x \in Executor \ {e} PROVE ExecOK(x)'
  <2>1. TypeOK /\ ExecOK(x) /\ stream' \in [Instance -> Seq(IntentLogEntry)]
    BY DEF IndInv, TypeOK
  <2> QED BY <2>1, Frame
<1> QED BY <1>1, <1>2, <1>3 DEF IndInv

(***************************************************************************)
(* The invariant, action by action.                                        *)
(***************************************************************************)
LEMMA CallStep == ASSUME IndInv, NEW e \in Executor, Call(e) PROVE IndInv'
<1>1. TypeOK /\ InstanceOf[e] \in Instance
  BY DEF IndInv
<1>2. IsIntentFsm(NewIntentFsm) /\ NewEnv \in [stepNumber : Nat, seqNum : Nat, exit : BOOLEAN]
  BY DEF IsIntentFsm, NewIntentFsm, NewEnv
<1>3. TypeOK'
  <2>1. fsm' = [x \in Executor |-> fsm'[x]]
    BY <1>1 DEF TypeOK, Call
  <2>2. \A x \in Executor : IsIntentFsm(fsm'[x])
    BY <1>1, <1>2 DEF TypeOK, Call
  <2>3. seen' \in [Executor -> Seq(Data \cup {None})]
    BY <1>1 DEF TypeOK, Call
  <2>4. /\ env' \in [Executor -> [stepNumber : Nat, seqNum : Nat, exit : BOOLEAN]]
        /\ pc' \in [Executor -> {"idle", "catch", "run", "done", "exit", "panic"}]
    BY <1>1, <1>2 DEF TypeOK, Call
  <2> QED BY <1>1, <2>1, <2>2, <2>3, <2>4 DEF TypeOK, Call
<1>4. /\ pc'[e] = "catch" /\ env'[e] = NewEnv /\ fsm'[e] = NewIntentFsm
      /\ seen'[e] = <<>> /\ stream' = stream
  BY <1>1 DEF TypeOK, Call
<1>5. Len(stream[InstanceOf[e]]) \in Nat
  BY <1>1 DEF TypeOK
<1>6. IsPrefix(fsm[e], stream[InstanceOf[e]])'
  BY <1>4, <1>5 DEF NewIntentFsm, IsPrefix
<1>7. AtStep(e)'
  BY <1>4, <1>5 DEF NewEnv, NewIntentFsm, AtStep
<1>8. ExecOK(e)'
  BY <1>4, <1>6, <1>7 DEF ExecOK, Told
<1> QED BY <1>1, <1>3, <1>8, LocalStep DEF Call, TypeOK

\* Reading one entry of the stream keeps the invariant and does not panic.
LEMMA CatchNextStep ==
  ASSUME IndInv, NEW e \in Executor, CatchNext(e) PROVE IndInv'
<1> DEFINE s == stream[InstanceOf[e]]
<1>1. TypeOK /\ ExecOK(e) /\ pc[e] = "catch" /\ IsPrefix(fsm[e], s) /\ AtStep(e)
  BY DEF IndInv, CatchNext, ExecOK
<1>2. s \in Seq(IntentLogEntry) /\ IsIntentFsm(fsm[e])
  BY <1>1 DEF TypeOK
<1>3. WellFormed(s)
  <2>1. ASSUME NEW k \in 1 .. Len(s) PROVE s[k].seqNum > 0
    BY DEF IndInv, OneEntryPerStep, TypeOK
  <2> QED BY <2>1 DEF WellFormed, IndInv, OneEntryPerStep
<1>4. PICK k \in 1 .. Len(s) :
        /\ IsNext(s, fsm[e].tail, k)
        /\ fsm' = [fsm EXCEPT ![e] = applyLog(@, s[k])]
        /\ pc' = [pc EXCEPT ![e] = IF NotMonotonic(fsm[e], s[k]) THEN "panic" ELSE "catch"]
  BY DEF CatchNext
<1>5. /\ ~ NotMonotonic(fsm[e], s[k])
      /\ IsPrefix(applyLog(fsm[e], s[k]), s)
      /\ IsIntentFsm(applyLog(fsm[e], s[k]))
      /\ k = fsm[e].stepNumber + 1
  BY <1>1, <1>2, <1>3, <1>4, NextOfPrefix
<1>6. /\ fsm'[e] = applyLog(fsm[e], s[k]) /\ pc' = pc
      /\ UNCHANGED <<logTail, stream, env, seen, crashes>>
  BY <1>1, <1>4, <1>5 DEF CatchNext, TypeOK
<1>7. \A x \in Executor \ {e} : fsm'[x] = fsm[x]
  BY <1>1, <1>4 DEF TypeOK
<1>8. TypeOK'
  <2>1. fsm' = [x \in Executor |-> fsm'[x]]
    BY <1>1, <1>4 DEF TypeOK
  <2>2. \A x \in Executor : IsIntentFsm(fsm'[x])
    BY <1>1, <1>5, <1>6, <1>7 DEF TypeOK
  <2> QED BY <1>1, <1>6, <2>1, <2>2 DEF TypeOK
<1>9. AtStep(e)'
  <2>1. env[e] = NewEnv /\ fsm'[e].stepNumber \in Nat /\ Len(s) \in Nat
    BY <1>1, <1>2, <1>5, <1>6 DEF ExecOK, IsIntentFsm
  <2> QED BY <1>1, <1>6, <2>1 DEF AtStep, NewEnv
<1>10. ExecOK(e)'
  BY <1>1, <1>5, <1>6, <1>9 DEF ExecOK, Told
<1> QED BY <1>6, <1>7, <1>8, <1>10, LocalStep

\* Call, the end of Catch, the return of the handler and a crash keep the
\* invariant: they leave the log alone and restart or stop one execution.
LEMMA QuietStep ==
  ASSUME IndInv, NEW e \in Executor, CatchDone(e) \/ Finish(e) \/ Crash(e)
  PROVE  IndInv'
<1>1. /\ TypeOK /\ ExecOK(e) /\ pc[e] \in {"catch", "run"}
      /\ UNCHANGED <<logTail, stream, env, fsm, seen>>
  BY DEF IndInv, CatchDone, Finish, Crash
<1>2. /\ TypeOK'
      /\ pc'[e] \in {"run", "exit", "done", "idle"}
      /\ \A x \in Executor \ {e} : pc'[x] = pc[x]
  <2>1. PICK p \in {"run", "exit", "done", "idle"} : pc' = [pc EXCEPT ![e] = p]
    BY DEF CatchDone, Finish, Crash
  <2>2. crashes' \in 0 .. MaxCrashes
    BY <1>1 DEF TypeOK, CatchDone, Finish, Crash
  <2>3. pc \in [Executor -> {"idle", "catch", "run", "done", "exit", "panic"}]
    BY <1>1 DEF TypeOK
  <2>4. pc' \in [Executor -> {"idle", "catch", "run", "done", "exit", "panic"}]
    BY <2>1, <2>3
  <2>5. TypeOK'
    BY <1>1, <2>2, <2>4 DEF TypeOK
  <2> QED BY <2>1, <2>3, <2>5
<1>3. IsPrefix(fsm[e], stream[InstanceOf[e]])' /\ AtStep(e)' /\ Told(e)'
  BY <1>1 DEF ExecOK, AtStep, Told
<1>4. ASSUME pc'[e] = "done" PROVE ~ env'[e].exit /\ env'[e].stepNumber = NumSteps
  <2>1. Finish(e) /\ ~ env[e].exit /\ pc[e] = "run"
    BY <1>1, <1>4 DEF CatchDone, Finish, Crash, TypeOK
  <2>2. env[e].stepNumber >= NumSteps
    BY <1>1, <2>1 DEF Finish, MayPropose, Returns, TypeOK
  <2>3. env[e].stepNumber <= NumSteps
    <3>1. Len(stream[InstanceOf[e]]) <= NumSteps /\ Len(stream[InstanceOf[e]]) \in Nat
      BY <1>1 DEF IndInv, TypeOK
    <3> QED BY <1>1, <2>1, <3>1 DEF ExecOK, AtStep, TypeOK
  <2> QED BY <1>1, <2>1, <2>2, <2>3 DEF TypeOK
<1>5. ExecOK(e)'
  BY <1>2, <1>3, <1>4 DEF ExecOK
<1> QED BY <1>1, <1>2, <1>5, LocalStep

\* A replayed step keeps the invariant: the handler is told what the log says.
LEMMA ReplayStepStep ==
  ASSUME IndInv, NEW e \in Executor, ReplayStep(e) PROVE IndInv'
<1> DEFINE s == stream[InstanceOf[e]]
           n == env[e].stepNumber
<1>1. /\ TypeOK /\ ExecOK(e) /\ pc[e] = "run" /\ IsPrefix(fsm[e], s) /\ AtStep(e)
      /\ UNCHANGED <<logTail, stream, pc, fsm, crashes>>
  BY DEF IndInv, ReplayStep, MayPropose, ExecOK
<1>2. /\ n \in Nat /\ s \in Seq(IntentLogEntry) /\ Len(s) \in Nat
      /\ seen[e] \in Seq(Data \cup {None}) /\ fsm[e].stepNumber \in Nat
  BY <1>1 DEF TypeOK, IsIntentFsm
<1>3. /\ n < fsm[e].stepNumber /\ n + 1 \in 1 .. Len(s)
      /\ fsm[e].stepLogs[n] = s[n + 1]
  <2>1. n \in DOMAIN fsm[e].stepLogs
    BY DEF ReplayStep
  <2>2. n \in 0 .. fsm[e].stepNumber - 1 /\ fsm[e].stepNumber <= Len(s)
    BY <1>1, <2>1 DEF IsPrefix
  <2>3. fsm[e].stepLogs[n] = s[n + 1]
    BY <1>1, <2>2 DEF IsPrefix
  <2> HIDE DEF n, s
  <2> QED BY <1>2, <2>2, <2>3
<1>4. s[n + 1] \in IntentLogEntry
  BY <1>2, <1>3
<1>5. s[n + 1].seqNum \in Nat /\ s[n + 1].data \in Data
  BY <1>4 DEF IntentLogEntry
<1>6. /\ env'[e] = [stepNumber |-> n + 1, seqNum |-> s[n + 1].seqNum, exit |-> env[e].exit]
      /\ seen'[e] = Append(seen[e], s[n + 1].data)
      /\ \A x \in Executor \ {e} : env'[x] = env[x] /\ seen'[x] = seen[x]
  <2>1. /\ env' = [env EXCEPT ![e].stepNumber = n + 1, ![e].seqNum = s[n + 1].seqNum]
        /\ seen' = [seen EXCEPT ![e] = Append(@, s[n + 1].data)]
    BY <1>3 DEF ReplayStep, Return
  <2>2. /\ env \in [Executor -> [stepNumber : Nat, seqNum : Nat, exit : BOOLEAN]]
        /\ seen \in [Executor -> Seq(Data \cup {None})]
    BY <1>1 DEF TypeOK
  <2> HIDE DEF s, n
  <2> QED BY <2>1, <2>2
<1>7. TypeOK'
  <2>1. env' \in [Executor -> [stepNumber : Nat, seqNum : Nat, exit : BOOLEAN]]
    <3>1. env' = [x \in Executor |-> env'[x]]
      BY <1>1 DEF TypeOK, ReplayStep
    <3>2. env'[e] \in [stepNumber : Nat, seqNum : Nat, exit : BOOLEAN]
      <4>1. env[e].exit \in BOOLEAN
        BY <1>1 DEF TypeOK
      <4>2. n + 1 \in Nat /\ s[n + 1].seqNum \in Nat
        BY <1>2, <1>5
      <4> QED BY <4>1, <4>2, <1>6
    <3> QED BY <1>1, <1>6, <3>1, <3>2 DEF TypeOK
  <2>2. seen' \in [Executor -> Seq(Data \cup {None})]
    <3>1. seen' = [seen EXCEPT ![e] = Append(seen[e], s[n + 1].data)]
      BY <1>3 DEF ReplayStep, Return
    <3>2. seen \in [Executor -> Seq(Data \cup {None})]
      BY <1>1 DEF TypeOK
    <3>3. Append(seen[e], s[n + 1].data) \in Seq(Data \cup {None})
      BY <1>2, <1>5
    <3> HIDE DEF s, n
    <3> QED BY <3>1, <3>2, <3>3
  <2> QED BY <1>1, <2>1, <2>2 DEF TypeOK
<1>8. Len(seen[e]) = n
  BY <1>1 DEF AtStep
<1>9. Told(e)'
  <2>a. stream' = stream /\ env'[e].exit = env[e].exit
    BY <1>1, <1>6
  <2> SUFFICES ASSUME NEW k \in 1 .. Len(seen'[e])
               PROVE  /\ k <= Len(s)
                      /\ seen'[e][k] \in {s[k].data, None}
                      /\ ~ env[e].exit => seen'[e][k] = s[k].data
    BY <2>a DEF Told
  <2>0. Append(seen[e], s[n + 1].data)[n + 1] = s[n + 1].data /\ Len(seen'[e]) = n + 1
    BY <1>2, <1>5, <1>6, <1>8
  <2>1. CASE k = n + 1
    <3> HIDE DEF s, n
    <3> QED BY <2>0, <2>1, <1>2, <1>3, <1>6
  <2>2. CASE k \in 1 .. n
    <3>1. seen'[e][k] = seen[e][k]
      <4>1. seen[e] \in Seq(Data \cup {None}) /\ k \in 1 .. Len(seen[e])
        BY <2>2, <1>2, <1>8
      <4> QED BY <4>1, <1>6
    <3> QED BY <2>2, <3>1, <1>1, <1>8 DEF ExecOK, Told
  <2> QED BY <2>0, <2>1, <2>2, <1>2
<1>10. AtStep(e)'
  BY <1>1, <1>2, <1>3, <1>6, <1>8 DEF AtStep
<1>11. ExecOK(e)'
  BY <1>1, <1>9, <1>10 DEF ExecOK
<1> QED BY <1>1, <1>6, <1>7, <1>11, LocalStep

\* A lost conditional append keeps the invariant: the execution is marked EXIT.
LEMMA LoseStepStep ==
  ASSUME IndInv, NEW e \in Executor, LoseStep(e) PROVE IndInv'
<1> DEFINE s == stream[InstanceOf[e]]
           n == env[e].stepNumber
<1>1. /\ TypeOK /\ ExecOK(e) /\ pc[e] = "run" /\ IsPrefix(fsm[e], s) /\ AtStep(e)
      /\ UNCHANGED <<logTail, stream, pc, fsm, crashes>>
  BY DEF IndInv, LoseStep, MayPropose, ExecOK
<1>2. /\ n \in Nat /\ s \in Seq(IntentLogEntry) /\ Len(s) \in Nat
      /\ seen[e] \in Seq(Data \cup {None}) /\ Len(seen[e]) = n
  BY <1>1 DEF TypeOK, AtStep
<1>3. n < Len(s)
  BY <1>2 DEF LoseStep, CondOK
<1>4. /\ env'[e] = [stepNumber |-> n + 1, seqNum |-> env[e].seqNum, exit |-> TRUE]
      /\ seen'[e] = Append(seen[e], None)
      /\ \A x \in Executor \ {e} : env'[x] = env[x] /\ seen'[x] = seen[x]
  <2>1. env[e] \in [stepNumber : Nat, seqNum : Nat, exit : BOOLEAN]
    BY <1>1 DEF TypeOK
  <2>2. /\ DOMAIN env'[e] = {"stepNumber", "seqNum", "exit"}
        /\ env'[e] = [k \in DOMAIN env'[e] |-> env'[e][k]]
        /\ env'[e].stepNumber = n + 1 /\ env'[e].exit = TRUE
        /\ env'[e].seqNum = env[e].seqNum
    BY <1>1, <2>1 DEF LoseStep, TypeOK
  <2>3. env'[e] = [stepNumber |-> n + 1, seqNum |-> env[e].seqNum, exit |-> TRUE]
    BY <2>2
  <2> QED BY <1>1, <2>3 DEF LoseStep, Return, TypeOK
<1>5. TypeOK'
  <2>1. env' \in [Executor -> [stepNumber : Nat, seqNum : Nat, exit : BOOLEAN]]
    <3>1. env' = [x \in Executor |-> env'[x]]
      BY <1>1 DEF TypeOK, LoseStep
    <3>2. env'[e] \in [stepNumber : Nat, seqNum : Nat, exit : BOOLEAN]
      BY <1>1, <1>2, <1>4 DEF TypeOK
    <3> QED BY <1>1, <1>4, <3>1, <3>2 DEF TypeOK
  <2>2. seen' \in [Executor -> Seq(Data \cup {None})]
    <3>1. seen' = [seen EXCEPT ![e] = Append(@, None)]
      BY DEF LoseStep, Return
    <3>2. seen \in [Executor -> Seq(Data \cup {None})]
      BY <1>1 DEF TypeOK
    <3> QED BY <3>1, <3>2
  <2> QED BY <1>1, <2>1, <2>2 DEF TypeOK
<1>6. Told(e)'
  <2> SUFFICES ASSUME NEW k \in 1 .. Len(seen'[e])
               PROVE  k <= Len(s) /\ seen'[e][k] \in {s[k].data, None}
    BY <1>1, <1>4 DEF Told
  <2>1. CASE k = n + 1
    BY <2>1, <1>2, <1>3, <1>4
  <2>2. CASE k \in 1 .. n
    BY <2>2, <1>1, <1>2, <1>4 DEF ExecOK, Told
  <2> QED BY <2>1, <2>2, <1>2, <1>4
<1>7. AtStep(e)'
  BY <1>1, <1>2, <1>3, <1>4 DEF AtStep
<1>8. ExecOK(e)'
  BY <1>1, <1>4, <1>6, <1>7 DEF ExecOK
<1> QED BY <1>1, <1>4, <1>5, <1>8, LocalStep

(***************************************************************************)
(* A conditional append that succeeds takes the position of its own step,  *)
(* which is the end of the stream, and keeps every stream well formed.     *)
(***************************************************************************)
LEMMA AppendFacts ==
  ASSUME IndInv, NEW e \in Executor, NEW d \in Data, AppendOK(e, Proposal(e, d))
  PROVE  LET s == stream[InstanceOf[e]]
             n == env[e].stepNumber
         IN  /\ Proposal(e, d) \in IntentLogEntry
             /\ Len(s) = n /\ n \in Nat /\ n < NumSteps
             /\ stream'[InstanceOf[e]] = Append(s, Proposal(e, d))
             /\ \A i \in Instance \ {InstanceOf[e]} : stream'[i] = stream[i]
             /\ stream' \in [Instance -> Seq(IntentLogEntry)]
             /\ logTail' \in Nat
             /\ OneEntryPerStep'
             /\ \A i \in Instance : Len(stream'[i]) <= NumSteps
<1> DEFINE s == stream[InstanceOf[e]]
           n == env[e].stepNumber
           p == Proposal(e, d)
<1>1. /\ TypeOK /\ OneEntryPerStep /\ AtStep(e) /\ pc[e] = "run" /\ n < NumSteps
      /\ Len(s) <= n
  BY DEF IndInv, ExecOK, AppendOK, MayPropose, CondOK, Proposal
<1>2. n \in Nat /\ logTail \in Nat /\ s \in Seq(IntentLogEntry) /\ Len(s) \in Nat
  BY <1>1 DEF TypeOK
<1>3. Len(s) = n
  BY <1>1, <1>2 DEF AtStep
<1>4. p \in IntentLogEntry /\ p.seqNum = logTail + 1 /\ p.stepNumber = n
  BY <1>2 DEF Proposal, IntentLogEntry
<1>5. /\ stream' = [stream EXCEPT ![InstanceOf[e]] = Append(s, p)]
      /\ logTail' = logTail + 1
  BY <1>4 DEF AppendOK
<1>6. /\ stream'[InstanceOf[e]] = Append(s, p)
      /\ \A i \in Instance \ {InstanceOf[e]} : stream'[i] = stream[i]
  BY <1>1, <1>5 DEF TypeOK
<1>7. stream' \in [Instance -> Seq(IntentLogEntry)]
  <2>1. Append(s, p) \in Seq(IntentLogEntry)
    BY <1>2, <1>4
  <2>2. stream \in [Instance -> Seq(IntentLogEntry)]
    BY <1>1 DEF TypeOK
  <2> HIDE DEF p, s
  <2> QED BY <1>5, <2>1, <2>2
<1>8. OneEntryPerStep'
  <2>1. ASSUME NEW i \in Instance, NEW k \in 1 .. Len(stream[i])
        PROVE  /\ stream[i][k].stepNumber = k - 1
               /\ stream[i][k].seqNum \in CallSeqNum + 1 .. logTail + 1
               /\ stream[i][k].seqNum < logTail + 1
               /\ \A j \in 1 .. k - 1 : stream[i][j].seqNum < stream[i][k].seqNum
    BY <1>1, <1>2 DEF OneEntryPerStep
  <2>2. /\ Len(stream'[InstanceOf[e]]) = n + 1 /\ stream'[InstanceOf[e]][n + 1] = p
        /\ \A j \in 1 .. n : stream'[InstanceOf[e]][j] = stream[InstanceOf[e]][j]
    BY <1>2, <1>3, <1>6
  <2>3. logTail + 1 \in CallSeqNum + 1 .. logTail + 1
    BY <1>1 DEF TypeOK
  <2> HIDE DEF p, n, s
  <2> SUFFICES ASSUME NEW i \in Instance, NEW k \in 1 .. Len(stream'[i])
               PROVE  /\ stream'[i][k].stepNumber = k - 1
                      /\ stream'[i][k].seqNum \in CallSeqNum + 1 .. logTail + 1
                      /\ \A j \in 1 .. k - 1 : stream'[i][j].seqNum < stream'[i][k].seqNum
    BY <1>5 DEF OneEntryPerStep
  <2>4. CASE i # InstanceOf[e]
    BY <2>1, <2>4, <1>6
  <2>5. CASE i = InstanceOf[e] /\ k \in 1 .. n
    <3>1. k \in 1 .. Len(stream[i]) /\ stream'[i][k] = stream[i][k]
      BY <2>2, <2>5, <1>3 DEF s
    <3>2. \A j \in 1 .. k - 1 : stream'[i][j] = stream[i][j]
      BY <2>2, <2>5, <1>2
    <3> QED BY <3>1, <3>2, <2>1
  <2>6. CASE i = InstanceOf[e] /\ k = n + 1
    <3>1. \A j \in 1 .. k - 1 : stream'[i][j].seqNum < logTail + 1
      <4> SUFFICES ASSUME NEW j \in 1 .. k - 1
                   PROVE  stream'[i][j].seqNum < logTail + 1
        OBVIOUS
      <4>1. j \in 1 .. n /\ j \in 1 .. Len(stream[i])
        BY <2>6, <1>2, <1>3 DEF s
      <4>2. stream'[i][j] = stream[i][j]
        BY <4>1, <2>2, <2>6
      <4> QED BY <4>1, <4>2, <2>1
    <3> QED BY <3>1, <2>2, <2>3, <2>6, <1>2, <1>4
  <2> QED BY <2>2, <2>4, <2>5, <2>6, <1>2
<1>9. \A i \in Instance : Len(stream'[i]) <= NumSteps
  BY <1>1, <1>2, <1>3, <1>6 DEF IndInv
<1> QED BY <1>1, <1>2, <1>3, <1>4, <1>5, <1>6, <1>7, <1>8, <1>9

\* A conditional append that succeeds keeps the invariant: the entry is the
\* next step of the stream and of the IntentFsm.
LEMMA AppendStepStep ==
  ASSUME IndInv, NEW e \in Executor, NEW d \in Data, AppendStep(e, d)
  PROVE  IndInv'
<1> DEFINE s == stream[InstanceOf[e]]
           n == env[e].stepNumber
           p == Proposal(e, d)
           f == fsm[e]
<1>1. /\ TypeOK /\ ExecOK(e) /\ pc[e] = "run" /\ IsPrefix(f, s) /\ AtStep(e)
      /\ AppendOK(e, p)
  BY DEF IndInv, AppendStep, AppendOK, MayPropose, ExecOK
<1>2. /\ p \in IntentLogEntry /\ Len(s) = n /\ n \in Nat
      /\ stream'[InstanceOf[e]] = Append(s, p)
      /\ \A i \in Instance \ {InstanceOf[e]} : stream'[i] = stream[i]
      /\ stream' \in [Instance -> Seq(IntentLogEntry)]
      /\ logTail' \in Nat /\ OneEntryPerStep'
      /\ \A i \in Instance : Len(stream'[i]) <= NumSteps
  BY <1>1, AppendFacts
<1>3. /\ s \in Seq(IntentLogEntry) /\ IsIntentFsm(f)
      /\ f.stepNumber \in Nat /\ env[e] \in [stepNumber : Nat, seqNum : Nat, exit : BOOLEAN]
      /\ seen[e] \in Seq(Data \cup {None}) /\ Len(seen[e]) = n
  BY <1>1 DEF TypeOK, IsIntentFsm, AtStep
<1>4. /\ p.stepNumber = n /\ p.data = d /\ p.seqNum = logTail + 1 /\ p.seqNum \in Nat
      /\ n \notin DOMAIN f.stepLogs /\ n = f.stepNumber
  BY <1>1, <1>3 DEF AppendStep, AppendOK, NotMonotonic, Proposal, TypeOK
<1>5. applyLog(f, p) =
        [stepNumber |-> n + 1, tail |-> p.seqNum,
         stepLogs |-> [k \in DOMAIN f.stepLogs \cup {n} |->
                         IF k = n THEN p ELSE f.stepLogs[k]]]
  BY <1>4 DEF applyLog
<1>6. /\ fsm'[e] = applyLog(f, p)
      /\ \A x \in Executor \ {e} : fsm'[x] = fsm[x]
      /\ fsm' = [x \in Executor |-> fsm'[x]]
  BY <1>1 DEF AppendOK, TypeOK
<1>7. /\ env' = [x \in Executor |-> env'[x]]
      /\ env'[e] = [stepNumber |-> n + 1, seqNum |-> p.seqNum, exit |-> env[e].exit]
      /\ \A x \in Executor \ {e} : env'[x] = env[x]
  <2>1. env' = [env EXCEPT ![e].stepNumber = @ + 1, ![e].seqNum = p.seqNum]
    BY DEF AppendStep
  <2>2. env \in [Executor -> [stepNumber : Nat, seqNum : Nat, exit : BOOLEAN]]
    BY <1>1 DEF TypeOK
  <2> HIDE DEF p
  <2> QED BY <2>1, <2>2
<1>8. /\ seen' \in [Executor -> Seq(Data \cup {None})]
      /\ seen'[e] = Append(seen[e], d)
      /\ \A x \in Executor \ {e} : seen'[x] = seen[x]
  BY <1>1, <1>3 DEF AppendStep, Return, TypeOK
<1>9. pc' = pc /\ crashes' = crashes /\ logTail' >= CallSeqNum
  BY <1>1, <1>4 DEF AppendStep, AppendOK, TypeOK
<1> HIDE DEF p
<1>10. TypeOK'
  <2>1. IsIntentFsm(fsm'[e])
    <3>1. fsm'[e] = [stepNumber |-> n + 1, tail |-> p.seqNum, stepLogs |-> (fsm'[e]).stepLogs]
      BY <1>5, <1>6
    <3>2. n + 1 \in Nat /\ p.seqNum \in Nat
      BY <1>2, <1>4
    <3> QED BY <3>1, <3>2 DEF IsIntentFsm
  <2>2. \A x \in Executor : IsIntentFsm(fsm'[x])
    BY <1>1, <1>6, <2>1 DEF TypeOK
  <2>3. env'[e] \in [stepNumber : Nat, seqNum : Nat, exit : BOOLEAN]
    <3>1. env[e].exit \in BOOLEAN
      BY <1>3
    <3>2. n + 1 \in Nat /\ p.seqNum \in Nat
      BY <1>2, <1>4
    <3> QED BY <3>1, <3>2, <1>7
  <2>4. env' \in [Executor -> [stepNumber : Nat, seqNum : Nat, exit : BOOLEAN]]
    BY <1>1, <1>7, <2>3 DEF TypeOK
  <2> QED BY <1>1, <1>2, <1>6, <1>8, <1>9, <2>2, <2>4 DEF TypeOK
<1>11. IsPrefix(fsm[e], stream[InstanceOf[e]])'
  <2> DEFINE t == stream'[InstanceOf[e]]
             g == fsm'[e]
  <2>1. Len(t) = n + 1 /\ t[n + 1] = p /\ \A k \in 1 .. n : t[k] = s[k]
    BY <1>2, <1>3
  <2>2. g.stepNumber = n + 1 /\ g.tail = p.seqNum /\ DOMAIN g.stepLogs = DOMAIN f.stepLogs \cup {n}
    BY <1>5, <1>6
  <2>3. DOMAIN f.stepLogs = 0 .. n - 1
    BY <1>1, <1>4 DEF IsPrefix
  <2>4. ASSUME NEW k \in 0 .. n PROVE g.stepLogs[k] = t[k + 1]
    <3>1. CASE k = n
      BY <1>5, <1>6, <2>1, <3>1
    <3>2. CASE k \in 0 .. n - 1
      <4>1. g.stepLogs[k] = f.stepLogs[k]
        BY <1>2, <1>5, <1>6, <2>3, <3>2
      <4>2. f.stepLogs[k] = s[k + 1]
        BY <1>1, <1>4, <3>2 DEF IsPrefix
      <4>3. k + 1 \in 1 .. n
        BY <1>2, <3>2
      <4>4. t[k + 1] = s[k + 1]
        BY <4>3, <2>1
      <4> HIDE DEF s, n, f, t, g
      <4> QED BY <4>1, <4>2, <4>4
    <3>3. k = n \/ k \in 0 .. n - 1
      <4>1. n \in Nat
        BY <1>2
      <4> QED BY <4>1
    <3> HIDE DEF n, t, g
    <3> QED BY <3>1, <3>2, <3>3
  <2>5. DOMAIN g.stepLogs = 0 .. n /\ (n + 1) - 1 = n /\ n + 1 # 0
    <3>1. n \in Nat
      BY <1>2
    <3>2. (0 .. n - 1) \cup {n} = 0 .. n /\ (n + 1) - 1 = n /\ n + 1 # 0
      BY <3>1
    <3> HIDE DEF n, f, g
    <3> QED BY <2>2, <2>3, <3>2
  <2> HIDE DEF s, n, f, t, g
  <2>6. IsPrefix(g, t)
    BY <1>2, <2>1, <2>2, <2>4, <2>5 DEF IsPrefix
  <2> QED BY <2>6 DEF t, g
<1>12. Told(e)'
  <2> SUFFICES ASSUME NEW k \in 1 .. Len(seen'[e])
               PROVE  LET t == stream'[InstanceOf[e]]
                      IN  /\ k <= Len(t)
                          /\ seen'[e][k] \in {t[k].data, None}
                          /\ ~ env'[e].exit => seen'[e][k] = t[k].data
    BY DEF Told
  <2>1. /\ Len(Append(s, p)) = n + 1 /\ Append(s, p)[n + 1] = p
        /\ \A j \in 1 .. n : Append(s, p)[j] = s[j]
    BY <1>2, <1>3
  <2>2. CASE k = n + 1
    <3>1. seen'[e][n + 1] = d
      BY <1>3, <1>8
    <3>2. /\ Len(stream'[InstanceOf[e]]) = n + 1
          /\ stream'[InstanceOf[e]][n + 1].data = d
      BY <1>2, <1>4, <2>1
    <3>3. n + 1 <= n + 1
      BY <1>2
    <3> HIDE DEF n
    <3> QED BY <2>2, <3>1, <3>2, <3>3
  <2>3. CASE k \in 1 .. n
    <3>1. seen'[e][k] = seen[e][k]
      <4>1. seen[e] \in Seq(Data \cup {None}) /\ k \in 1 .. Len(seen[e])
        BY <2>3, <1>3
      <4> QED BY <4>1, <1>8
    <3>2. /\ seen[e][k] \in {s[k].data, None}
          /\ ~ env[e].exit => seen[e][k] = s[k].data
      BY <2>3, <1>1, <1>3 DEF ExecOK, Told
    <3>3. stream'[InstanceOf[e]][k] = s[k] /\ k <= n + 1
      BY <1>2, <2>1, <2>3
    <3>4. env'[e].exit = env[e].exit
      BY <1>7
    <3>5. k <= Len(stream'[InstanceOf[e]])
      BY <1>2, <2>1, <3>3
    <3> HIDE DEF s, n
    <3> QED BY <3>1, <3>2, <3>3, <3>4, <3>5
  <2>4. k \in 1 .. n \/ k = n + 1
    <3>1. Len(seen'[e]) = n + 1
      BY <1>3, <1>8
    <3> QED BY <3>1, <1>2
  <2> QED BY <2>2, <2>3, <2>4
<1>13. AtStep(e)'
  <2>1. Len(stream'[InstanceOf[e]]) = n + 1 /\ stream'[InstanceOf[e]][n + 1] = p
    BY <1>2, <1>3
  <2>2. Len(seen'[e]) = n + 1 /\ fsm'[e].stepNumber = n + 1 /\ n + 1 # 0
    BY <1>2, <1>3, <1>5, <1>6, <1>8
  <2> QED BY <1>2, <1>7, <2>1, <2>2 DEF AtStep
<1>14. ExecOK(e)'
  BY <1>1, <1>9, <1>11, <1>12, <1>13 DEF ExecOK
<1>15. ASSUME NEW x \in Executor \ {e} PROVE ExecOK(x)'
  <2>1. ExecOK(x) /\ InstanceOf[x] \in Instance
    BY DEF IndInv
  <2>2. \/ stream'[InstanceOf[x]] = stream[InstanceOf[x]]
        \/ stream'[InstanceOf[x]] = Append(stream[InstanceOf[x]], p)
    BY <1>2, <2>1
  <2>3. pc'[x] = pc[x] /\ env'[x] = env[x] /\ fsm'[x] = fsm[x] /\ seen'[x] = seen[x]
    BY <1>6, <1>7, <1>8, <1>9
  <2> QED BY <1>1, <1>2, <2>1, <2>2, <2>3, Frame
<1> QED BY <1>2, <1>10, <1>14, <1>15 DEF IndInv

\* The panic of applyLog keeps the invariant: it needs an earlier lost step.
LEMMA AppendPanicStep ==
  ASSUME IndInv, NEW e \in Executor, NEW d \in Data, AppendPanic(e, d)
  PROVE  IndInv'
<1> DEFINE s == stream[InstanceOf[e]]
           n == env[e].stepNumber
           p == Proposal(e, d)
           f == fsm[e]
<1>1. /\ TypeOK /\ ExecOK(e) /\ pc[e] = "run" /\ IsPrefix(f, s) /\ AtStep(e)
      /\ AppendOK(e, p)
  BY DEF IndInv, AppendPanic, AppendOK, MayPropose, ExecOK
<1>2. /\ p \in IntentLogEntry /\ Len(s) = n /\ n \in Nat
      /\ stream'[InstanceOf[e]] = Append(s, p)
      /\ \A i \in Instance \ {InstanceOf[e]} : stream'[i] = stream[i]
      /\ stream' \in [Instance -> Seq(IntentLogEntry)]
      /\ logTail' \in Nat /\ OneEntryPerStep'
      /\ \A i \in Instance : Len(stream'[i]) <= NumSteps
  BY <1>1, AppendFacts
<1>3. /\ s \in Seq(IntentLogEntry) /\ IsIntentFsm(f)
      /\ f.stepNumber \in Nat /\ env[e] \in [stepNumber : Nat, seqNum : Nat, exit : BOOLEAN]
      /\ seen[e] \in Seq(Data \cup {None})
  BY <1>1 DEF TypeOK, IsIntentFsm
<1>4. /\ p.stepNumber = n /\ p.seqNum = logTail + 1 /\ p.seqNum \in Nat
      /\ n \notin DOMAIN f.stepLogs /\ n # f.stepNumber
  BY <1>1, <1>3 DEF AppendPanic, AppendOK, NotMonotonic, Proposal, TypeOK
<1>5. env[e].exit
  <2> SUFFICES ASSUME ~ env[e].exit PROVE FALSE
    OBVIOUS
  <2>1. n <= f.stepNumber
    BY <1>1 DEF AtStep
  <2>2. n \notin 0 .. f.stepNumber - 1
    BY <1>1, <1>4 DEF IsPrefix
  <2> QED BY <1>2, <1>3, <1>4, <2>1, <2>2
<1>6. /\ fsm'[e] = [f EXCEPT !.tail = p.seqNum]
      /\ \A x \in Executor \ {e} : fsm'[x] = fsm[x]
      /\ fsm' = [x \in Executor |-> fsm'[x]]
  BY <1>1, <1>4 DEF AppendOK, TypeOK, applyLog
<1>7. /\ env' = [x \in Executor |-> env'[x]]
      /\ env'[e] \in [stepNumber : Nat, seqNum : Nat, exit : BOOLEAN]
      /\ env'[e].exit
      /\ \A x \in Executor \ {e} : env'[x] = env[x]
  <2>1. /\ DOMAIN env'[e] = {"stepNumber", "seqNum", "exit"}
        /\ env'[e] = [k \in DOMAIN env'[e] |-> env'[e][k]]
        /\ env'[e].stepNumber = n + 1 /\ env'[e].exit = env[e].exit
        /\ env'[e].seqNum = env[e].seqNum
    BY <1>1, <1>3 DEF AppendPanic, TypeOK
  <2>2. env'[e] = [stepNumber |-> n + 1, seqNum |-> env[e].seqNum, exit |-> env[e].exit]
    BY <2>1
  <2>3. env' = [x \in Executor |-> env'[x]] /\ \A x \in Executor \ {e} : env'[x] = env[x]
    BY <1>1 DEF AppendPanic, TypeOK
  <2> QED BY <1>2, <1>3, <1>5, <2>2, <2>3
<1>8. /\ pc'[e] = "panic" /\ \A x \in Executor \ {e} : pc'[x] = pc[x]
      /\ pc' \in [Executor -> {"idle", "catch", "run", "done", "exit", "panic"}]
  BY <1>1 DEF AppendPanic, TypeOK
<1>9. seen' = seen /\ crashes' = crashes /\ logTail' >= CallSeqNum
  BY <1>1, <1>4 DEF AppendPanic, AppendOK, TypeOK
<1> HIDE DEF p
<1>10. TypeOK'
  <2>1. IsIntentFsm(fsm'[e])
    BY <1>3, <1>4, <1>6 DEF IsIntentFsm
  <2>2. \A x \in Executor : IsIntentFsm(fsm'[x])
    BY <1>1, <1>6, <2>1 DEF TypeOK
  <2>3. env' \in [Executor -> [stepNumber : Nat, seqNum : Nat, exit : BOOLEAN]]
    BY <1>1, <1>7 DEF TypeOK
  <2> QED BY <1>1, <1>2, <1>6, <1>8, <1>9, <2>2, <2>3 DEF TypeOK
<1>11. Told(e)'
  <2>1. /\ Len(s) <= Len(Append(s, p))
        /\ \A j \in 1 .. Len(s) : Append(s, p)[j] = s[j]
    BY <1>2, <1>3
  <2>2. ASSUME NEW k \in 1 .. Len(seen[e])
        PROVE  k <= Len(s) /\ seen[e][k] \in {s[k].data, None}
    BY <1>1 DEF ExecOK, Told
  <2> SUFFICES ASSUME NEW k \in 1 .. Len(seen[e])
               PROVE  /\ k <= Len(stream'[InstanceOf[e]])
                      /\ seen[e][k] \in {stream'[InstanceOf[e]][k].data, None}
    BY <1>7, <1>9 DEF Told
  <2>3. k \in 1 .. Len(s) /\ Len(s) \in Nat /\ Len(Append(s, p)) \in Nat
    BY <1>2, <1>3, <2>2
  <2>4. stream'[InstanceOf[e]][k] = s[k]
    BY <1>2, <2>1, <2>3
  <2> QED BY <1>2, <2>1, <2>2, <2>3, <2>4
<1>12. ExecOK(e)'
  BY <1>7, <1>8, <1>11 DEF ExecOK
<1>13. ASSUME NEW x \in Executor \ {e} PROVE ExecOK(x)'
  <2>1. ExecOK(x) /\ InstanceOf[x] \in Instance
    BY DEF IndInv
  <2>2. \/ stream'[InstanceOf[x]] = stream[InstanceOf[x]]
        \/ stream'[InstanceOf[x]] = Append(stream[InstanceOf[x]], p)
    BY <1>2, <2>1
  <2>3. pc'[x] = pc[x] /\ env'[x] = env[x] /\ fsm'[x] = fsm[x] /\ seen'[x] = seen[x]
    BY <1>6, <1>7, <1>8, <1>9
  <2> QED BY <1>1, <1>2, <2>1, <2>2, <2>3, Frame
<1> QED BY <1>2, <1>10, <1>12, <1>13 DEF IndInv

(***************************************************************************)
(* The invariant is inductive.                                             *)
(***************************************************************************)
LEMMA NextIndInv == IndInv /\ [Next]_vars => IndInv'
<1> SUFFICES ASSUME IndInv, [Next]_vars PROVE IndInv'
  OBVIOUS
<1>1. CASE UNCHANGED vars
  BY <1>1 DEF vars, IndInv, TypeOK, OneEntryPerStep, ExecOK, Told, AtStep
<1>2. ASSUME NEW e \in Executor, Call(e) PROVE IndInv'
  BY <1>2, CallStep
<1>3. ASSUME NEW e \in Executor, CatchNext(e) PROVE IndInv'
  BY <1>3, CatchNextStep
<1>4. ASSUME NEW e \in Executor, CatchDone(e) \/ Finish(e) \/ Crash(e) PROVE IndInv'
  BY <1>4, QuietStep
<1>5. ASSUME NEW e \in Executor, ReplayStep(e) PROVE IndInv'
  BY <1>5, ReplayStepStep
<1>6. ASSUME NEW e \in Executor, LoseStep(e) PROVE IndInv'
  BY <1>6, LoseStepStep
<1>7. ASSUME NEW e \in Executor, NEW d \in Data, AppendStep(e, d) PROVE IndInv'
  BY <1>7, AppendStepStep
<1>8. ASSUME NEW e \in Executor, NEW d \in Data, AppendPanic(e, d) PROVE IndInv'
  BY <1>8, AppendPanicStep
<1> QED BY <1>1, <1>2, <1>3, <1>4, <1>5, <1>6, <1>7, <1>8
        DEF Next, Execute, ProposeNextStep

(***************************************************************************)
(* Replay is sound in every reachable state: each execution's IntentFsm is *)
(* a prefix of the one stream of its instance (loglib.go, applyLog, Catch, *)
(* ProposeNextStep), however many executions race and crash.               *)
(***************************************************************************)
THEOREM IndInvHolds == Spec => []IndInv
<1>1. Init => IndInv
  BY InitIndInv
<1>2. IndInv /\ [Next]_vars => IndInv'
  BY NextIndInv
<1> QED BY <1>1, <1>2, PTL DEF Spec

(***************************************************************************)
(* Types.                                                                  *)
(***************************************************************************)
THEOREM TypeCorrect == Spec => []TypeOK
<1>1. IndInv => TypeOK
  BY DEF IndInv
<1> QED BY <1>1, IndInvHolds, PTL

(***************************************************************************)
(* The conditional append keeps one entry per step at the step's position. *)
(***************************************************************************)
THEOREM StepsAreUnique == Spec => []OneEntryPerStep
<1>1. IndInv => OneEntryPerStep
  BY DEF IndInv
<1> QED BY <1>1, IndInvHolds, PTL

(***************************************************************************)
(* Exactly-once: all executions of an instance are told the same outcomes. *)
(***************************************************************************)
THEOREM ReplaysAgree == Spec => []ReplayAgreement
<1>1. IndInv => ReplayAgreement
  BY DEF IndInv, ExecOK, ReplayAgreement
<1> QED BY <1>1, IndInvHolds, PTL

(***************************************************************************)
(* The cursor is a function of the step reached.                           *)
(***************************************************************************)
THEOREM CursorsAgree == Spec => []CursorAgreement
<1>1. IndInv => CursorAgreement
  BY DEF IndInv, ExecOK, AtStep, CursorAgreement
<1> QED BY <1>1, IndInvHolds, PTL

(***************************************************************************)
(* The panic of applyLog is only reached after a lost step, and never by a *)
(* handler that looks at env.Instruction.                                  *)
(***************************************************************************)
THEOREM PanicsOnlyAfterExit == Spec => []PanicOnlyAfterExit
<1>1. IndInv => PanicOnlyAfterExit
  BY DEF IndInv, ExecOK, PanicOnlyAfterExit
<1> QED BY <1>1, IndInvHolds, PTL

(***************************************************************************)
(* Success means that every step is logged and was seen as logged.         *)
(***************************************************************************)
LEMMA DoneFromIndInv == IndInv => DoneIsComplete
<1> SUFFICES ASSUME IndInv, NEW e \in Executor, pc[e] = "done"
             PROVE  /\ Len(stream[InstanceOf[e]]) = NumSteps
                    /\ seen[e] = [k \in 1 .. NumSteps |-> stream[InstanceOf[e]][k].data]
  BY DEF DoneIsComplete
<1> DEFINE s == stream[InstanceOf[e]]
<1>1. TypeOK /\ ExecOK(e) /\ Len(s) <= NumSteps
  BY DEF IndInv
<1>2. /\ AtStep(e) /\ Told(e)
      /\ ~ env[e].exit /\ env[e].stepNumber = NumSteps
  BY <1>1 DEF ExecOK
<1>3. Len(s) \in Nat /\ seen[e] \in Seq(Data \cup {None})
  BY <1>1 DEF TypeOK
<1>4. Len(s) = NumSteps /\ Len(seen[e]) = NumSteps
  BY <1>1, <1>2, <1>3 DEF AtStep
<1>5. \A k \in 1 .. NumSteps : seen[e][k] = s[k].data
  BY <1>2, <1>4 DEF Told
<1>6. seen[e] = [k \in 1 .. NumSteps |-> seen[e][k]]
  BY <1>3, <1>4
<1> QED BY <1>4, <1>5, <1>6

(***************************************************************************)
(* wrapperInternal reports Success only for a completed execution.         *)
(***************************************************************************)
THEOREM SuccessIsComplete == Spec => []DoneIsComplete
<1> QED BY DoneFromIndInv, IndInvHolds, PTL

(***************************************************************************)
(* Refinement: the replay log keeps the promise of ExactlyOnce.            *)
(***************************************************************************)
LEMMA DecidedTypes ==
  ASSUME TypeOK
  PROVE  \A i \in Instance :
           /\ Decided[i] \in Seq(Data)
           /\ Len(Decided[i]) = Len(stream[i])
           /\ \A k \in 1 .. Len(stream[i]) : Decided[i][k] = stream[i][k].data
<1> SUFFICES ASSUME NEW i \in Instance
             PROVE  /\ Decided[i] \in Seq(Data)
                    /\ Len(Decided[i]) = Len(stream[i])
                    /\ \A k \in 1 .. Len(stream[i]) : Decided[i][k] = stream[i][k].data
  OBVIOUS
<1>1. stream[i] \in Seq(IntentLogEntry) /\ Len(stream[i]) \in Nat
  BY DEF TypeOK
<1>2. \A k \in 1 .. Len(stream[i]) : stream[i][k] \in IntentLogEntry
  BY <1>1
<1>3. \A k \in 1 .. Len(stream[i]) : stream[i][k].data \in Data
  BY <1>2 DEF IntentLogEntry
<1>4. Decided[i] = [k \in 1 .. Len(stream[i]) |-> stream[i][k].data]
  BY DEF Decided
<1> QED BY <1>1, <1>3, <1>4

\* An empty log is an initial state of the promise.
LEMMA RefineInit == Init => Promise!Init
<1> SUFFICES ASSUME Init PROVE Promise!Init
  OBVIOUS
<1>1. TypeOK
  BY InitIndInv DEF IndInv
<1>2. ASSUME NEW i \in Instance PROVE Decided[i] = <<>>
  <2>1. Decided[i] \in Seq(Data) /\ Len(stream[i]) = 0
    BY <1>1, DecidedTypes DEF Init
  <2>2. Len(Decided[i]) = 0
    BY <1>1, <2>1, DecidedTypes
  <2> QED BY <2>1, <2>2
<1>3. Decided = [i \in Instance |-> <<>>]
  BY <1>2 DEF Decided
<1>4. Succeeded = [e \in Executor |-> FALSE]
  BY DEF Init, Succeeded
<1> QED BY <1>3, <1>4 DEF Init, Promise!Init

(***************************************************************************)
(* An append to the stream is a decision, and nothing else decides.        *)
(***************************************************************************)
LEMMA RefineAppend ==
  ASSUME IndInv, NEW e \in Executor, NEW d \in Data, AppendOK(e, Proposal(e, d))
  PROVE  Promise!Decide(InstanceOf[e], d)
<1> DEFINE i == InstanceOf[e]
           s == stream[i]
           p == Proposal(e, d)
<1>1. TypeOK /\ p.data = d /\ i \in Instance
  BY DEF IndInv, Proposal
<1>2. /\ p \in IntentLogEntry /\ Len(s) < NumSteps
      /\ stream'[i] = Append(s, p)
      /\ \A j \in Instance \ {i} : stream'[j] = stream[j]
  BY AppendFacts
<1>3. s \in Seq(IntentLogEntry) /\ Len(s) \in Nat
  BY <1>1 DEF TypeOK
<1>4. /\ Decided[i] \in Seq(Data) /\ Len(Decided[i]) = Len(s)
      /\ \A k \in 1 .. Len(s) : Decided[i][k] = s[k].data
  BY <1>1, DecidedTypes
<1>5. Decided'[i] = [k \in 1 .. Len(stream'[i]) |-> stream'[i][k].data]
  BY <1>1 DEF Decided
<1>6. Decided'[i] = Append(Decided[i], d)
  <2>1. /\ Len(stream'[i]) = Len(s) + 1 /\ stream'[i][Len(s) + 1] = p
        /\ \A k \in 1 .. Len(s) : stream'[i][k] = s[k]
    BY <1>2, <1>3
  <2>2. /\ Append(Decided[i], d) \in Seq(Data)
        /\ Len(Append(Decided[i], d)) = Len(s) + 1
        /\ Append(Decided[i], d)[Len(s) + 1] = d
        /\ \A k \in 1 .. Len(s) : Append(Decided[i], d)[k] = s[k].data
    BY <1>3, <1>4
  <2>3. \A k \in 1 .. Len(s) + 1 : stream'[i][k].data = Append(Decided[i], d)[k]
    BY <1>1, <1>3, <2>1, <2>2
  <2>4. Append(Decided[i], d) = [k \in 1 .. Len(s) + 1 |-> Append(Decided[i], d)[k]]
    BY <2>2
  <2> QED BY <1>5, <2>1, <2>3, <2>4
<1>7. \A j \in Instance \ {i} : Decided'[j] = Decided[j]
  BY <1>2 DEF Decided
<1>8. Decided' = [Decided EXCEPT ![i] = Append(Decided[i], d)]
  BY <1>1, <1>6, <1>7 DEF Decided
<1> QED BY <1>2, <1>4, <1>8 DEF Promise!Decide

(***************************************************************************)
(* Every step of the library is a step of the promise or changes nothing   *)
(* that the promise speaks of.                                             *)
(***************************************************************************)
LEMMA RefineNext == IndInv /\ [Next]_vars => [Promise!Next]_(Promise!vars)
<1> SUFFICES ASSUME IndInv, [Next]_vars
             PROVE  Promise!Next \/ UNCHANGED <<Decided, seen, Succeeded>>
  BY DEF Promise!vars
<1>1. TypeOK /\ \A i \in Instance : Decided[i] \in Seq(Data) /\ Len(Decided[i]) = Len(stream[i])
  BY DecidedTypes DEF IndInv
<1>2. CASE UNCHANGED vars
  BY <1>2 DEF vars, Decided, Succeeded
<1>3. ASSUME stream' = stream PROVE Decided' = Decided
  BY <1>3 DEF Decided
<1>4. ASSUME NEW e \in Executor, Call(e) PROVE Promise!Restart(e)
  <2>1. Succeeded' = [Succeeded EXCEPT ![e] = FALSE]
    BY <1>1, <1>4 DEF Call, Succeeded, TypeOK
  <2> QED BY <1>3, <1>4, <2>1 DEF Call, Promise!Restart
<1>5. ASSUME NEW e \in Executor, CatchNext(e) \/ CatchDone(e) \/ Crash(e)
      PROVE  UNCHANGED <<Decided, seen, Succeeded>>
  <2>1. stream' = stream /\ seen' = seen
    BY <1>5 DEF CatchNext, CatchDone, Crash
  <2>2. pc[e] # "done" /\ \E q \in {"panic", "catch", "run", "idle"} : pc' = [pc EXCEPT ![e] = q]
    BY <1>5 DEF CatchNext, CatchDone, Crash
  <2>3. Succeeded' = Succeeded
    BY <1>1, <2>2 DEF Succeeded, TypeOK
  <2> QED BY <1>3, <2>1, <2>3
<1>6. ASSUME NEW e \in Executor, ReplayStep(e) PROVE Promise!Follow(e)
  <2> DEFINE s == stream[InstanceOf[e]]
             n == env[e].stepNumber
  <2>1. IsPrefix(fsm[e], s) /\ AtStep(e) /\ n \in DOMAIN fsm[e].stepLogs
    BY <1>6 DEF IndInv, ExecOK, ReplayStep, MayPropose
  <2>2. n \in Nat /\ fsm[e].stepNumber \in Nat /\ Len(s) \in Nat
    BY <1>1 DEF TypeOK, IsIntentFsm
  <2>3. n \in 0 .. fsm[e].stepNumber - 1 /\ fsm[e].stepNumber <= Len(s) /\ Len(seen[e]) = n
    BY <2>1 DEF IsPrefix, AtStep
  <2>4. fsm[e].stepLogs[n] = s[n + 1] /\ n + 1 \in 1 .. Len(s)
    <3>1. fsm[e].stepLogs[n] = s[n + 1]
      BY <2>1, <2>3 DEF IsPrefix
    <3> HIDE DEF s, n
    <3> QED BY <3>1, <2>2, <2>3
  <2>5. s[n + 1].data = Decided[InstanceOf[e]][n + 1] /\ Len(Decided[InstanceOf[e]]) = Len(s)
    BY <1>1, <2>4, DecidedTypes
  <2>6. seen' = [seen EXCEPT ![e] = Append(seen[e], s[n + 1].data)]
    BY <1>6, <2>4 DEF ReplayStep, Return
  <2>7. Decided' = Decided /\ Succeeded' = Succeeded
    BY <1>3, <1>6 DEF ReplayStep, Succeeded
  <2> HIDE DEF s, n
  <2> QED BY <2>2, <2>3, <2>4, <2>5, <2>6, <2>7 DEF Promise!Follow, Promise!Tell
<1>7. ASSUME NEW e \in Executor, LoseStep(e) PROVE Promise!Follow(e)
  <2> DEFINE s == stream[InstanceOf[e]]
             n == env[e].stepNumber
  <2>1. AtStep(e) /\ ~ CondOK(s, n)
    BY <1>7 DEF IndInv, ExecOK, LoseStep, MayPropose
  <2>2. n \in Nat /\ Len(s) \in Nat /\ n < Len(s) /\ Len(seen[e]) = n
    BY <1>1, <2>1 DEF TypeOK, CondOK, AtStep
  <2>3. seen' = [seen EXCEPT ![e] = Append(seen[e], None)]
    BY <1>7 DEF LoseStep, Return
  <2>4. Decided' = Decided /\ Succeeded' = Succeeded
    BY <1>3, <1>7 DEF LoseStep, Succeeded
  <2> QED BY <1>1, <2>2, <2>3, <2>4 DEF Promise!Follow, Promise!Tell
<1>8. ASSUME NEW e \in Executor, NEW d \in Data, AppendOK(e, Proposal(e, d))
      PROVE  Len(seen[e]) = Len(Decided[InstanceOf[e]])
  <2>1. AtStep(e)
    BY <1>8 DEF IndInv, ExecOK, AppendOK, MayPropose
  <2> QED BY <1>1, <1>8, <2>1, AppendFacts DEF AtStep
<1>9. ASSUME NEW e \in Executor, NEW d \in Data, AppendStep(e, d) PROVE Promise!Lead(e, d)
  <2>1. AppendOK(e, Proposal(e, d)) /\ UNCHANGED pc /\ Return(e, d)
    BY <1>9 DEF AppendStep
  <2>2. Promise!Decide(InstanceOf[e], d)
    BY <2>1, RefineAppend
  <2> QED BY <1>8, <2>1, <2>2 DEF Return, Succeeded, Promise!Lead, Promise!Tell
<1>10. ASSUME NEW e \in Executor, NEW d \in Data, AppendPanic(e, d)
       PROVE  Promise!LeadAndDie(e, d)
  <2>1. AppendOK(e, Proposal(e, d)) /\ seen' = seen
    BY <1>10 DEF AppendPanic
  <2>2. Promise!Decide(InstanceOf[e], d)
    BY <2>1, RefineAppend
  <2>3. pc[e] = "run" /\ pc' = [pc EXCEPT ![e] = "panic"]
    BY <1>10 DEF AppendPanic, AppendOK, MayPropose
  <2>4. Succeeded' = Succeeded
    BY <1>1, <2>3 DEF Succeeded, TypeOK
  <2> QED BY <1>8, <2>1, <2>2, <2>4 DEF Promise!LeadAndDie
<1>11. ASSUME NEW e \in Executor, Finish(e)
       PROVE  Promise!Succeed(e) \/ UNCHANGED <<Decided, seen, Succeeded>>
  <2>1. pc[e] = "run" /\ UNCHANGED <<stream, seen, env>> /\ ~ MayPropose(e)
    BY <1>11 DEF Finish
  <2>2. CASE env[e].exit
    <3>1. pc' = [pc EXCEPT ![e] = "exit"]
      BY <1>11, <2>2 DEF Finish
    <3> QED BY <1>1, <1>3, <2>1, <3>1 DEF Succeeded, TypeOK
  <2>3. CASE ~ env[e].exit
    <3>1. pc' = [pc EXCEPT ![e] = "done"]
      BY <1>11, <2>3 DEF Finish
    <3>2. IndInv' /\ pc'[e] = "done"
      BY <1>1, <1>11, <3>1, QuietStep DEF TypeOK
    <3>3. /\ Len(stream[InstanceOf[e]]) = NumSteps
          /\ seen[e] = [k \in 1 .. NumSteps |-> stream[InstanceOf[e]][k].data]
      <4>1. IndInv' => DoneIsComplete'
        BY DoneFromIndInv, PTL
      <4> QED BY <2>1, <3>2, <4>1 DEF DoneIsComplete
    <3>4. seen[e] = Decided[InstanceOf[e]] /\ Len(seen[e]) = NumSteps
      BY <1>1, <3>3 DEF Decided
    <3>5. Succeeded' = [Succeeded EXCEPT ![e] = TRUE]
      BY <1>1, <3>1 DEF Succeeded, TypeOK
    <3> QED BY <1>3, <2>1, <3>4, <3>5 DEF Promise!Succeed
  <2> QED BY <2>2, <2>3
<1> QED BY <1>2, <1>4, <1>5, <1>6, <1>7, <1>9, <1>10, <1>11
        DEF Next, Execute, ProposeNextStep, Promise!Next

(***************************************************************************)
(* The replay log implements ExactlyOnce: outcomes are decided once, in    *)
(* order, and every execution of an instance sees the decided ones.        *)
(***************************************************************************)
THEOREM ImplementsPromise == Spec => ImplementsExactlyOnce
<1>1. Init => Promise!Init
  BY RefineInit
<1>2. IndInv /\ [Next]_vars => [Promise!Next]_(Promise!vars)
  BY RefineNext
<1> QED BY <1>1, <1>2, IndInvHolds, PTL DEF Spec, ImplementsExactlyOnce, Promise!Spec
=============================================================================
