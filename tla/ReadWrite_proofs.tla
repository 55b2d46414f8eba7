--------------------------- MODULE ReadWrite_proofs ---------------------------
(***************************************************************************)
(* Proofs about ReadWrite, for any handlers, any number of instances,      *)
(* executions and crashes: reads have one outcome, logged or log-free, and *)
(* writes take effect once.                                                *)
(***************************************************************************)
EXTENDS ReadWrite, FiniteSetTheorems, WellFoundedInduction, TLAPS

LogRecord == [seqNum : Nat, stepNumber : Nat, data : LogData]
VersionRecord == [seqNum : Nat, version : Nat]
EnvRecord == [stepNumber : Nat, seqNum : Nat, exit : BOOLEAN]
Place == {"start", "prewritten", "written", "versioned", "fetched"}
OpState == [idx : Nat \ {0}, at : Place, tmp : Val \cup {None}, ver : Nat]
PcState == {"idle", "catch", "run", "done", "exit", "panic", "mismatch"}

RWTypeOK ==
  /\ logTail \in Nat /\ logTail >= CallSeqNum
  /\ stream \in [Instance -> Seq(LogRecord)]
  /\ pc \in [Executor -> PcState]
  /\ env \in [Executor -> EnvRecord]
  /\ fsm = [e \in Executor |-> fsm[e]]
  /\ \A e \in Executor : IsIntentFsm(fsm[e])
  /\ DOMAIN item = Key
  /\ \A k \in Key : 0 \in DOMAIN item[k] /\ item[k] \in [DOMAIN item[k] -> Val]
  /\ version \in [Key -> Nat]
  /\ keyStream \in [Key -> Seq(VersionRecord)]
  /\ op \in [Executor -> OpState]
  /\ DOMAIN told = Instance
  /\ \A i \in Instance : told[i] \in [1 .. Len(Program[i]) -> SUBSET (Val \cup {None})]

IsWrite(i, j) == j \in DOMAIN Program[i] /\ Program[i][j].kind = "write"
IsRead(i, j) == j \in DOMAIN Program[i] /\ Program[i][j].kind = "read"

\* The version that write j of i has or will have.
VersionOf(i, j) ==
  IF Program[i][j].dep THEN 0 ELSE stream[i][StepsBefore(i, j) + 1].seqNum

StreamOK(i) ==
  \A k \in 1 .. Len(stream[i]) :
    /\ stream[i][k].stepNumber = k - 1
    /\ stream[i][k].seqNum > CallSeqNum /\ stream[i][k].seqNum <= logTail
    /\ \A j \in 1 .. k - 1 : stream[i][j].seqNum < stream[i][k].seqNum
    /\ Mode = "READLOG" => stream[i][k].data.type = "PostRead" /\ stream[i][k].data.result \in Val

\* A sequence number is that of one entry of one stream.
SeqNumsUnique ==
  \A i, j \in Instance : \A k \in 1 .. Len(stream[i]) : \A l \in 1 .. Len(stream[j]) :
    stream[i][k].seqNum = stream[j][l].seqNum => i = j /\ k = l

(***************************************************************************)
(* What version v of k holds, other than the initial data and what is      *)
(* written without a log, is what write j of i, whose PreWrite entry has   *)
(* this sequence number, puts there.                                       *)
(***************************************************************************)
Owns(k, v, i, j) ==
  LET p == StepsBefore(i, j)
  IN  /\ IsWrite(i, j) /\ Program[i][j].key = k
      /\ p + 1 <= Len(stream[i]) /\ v = stream[i][p + 1].seqNum
      /\ item[k][v] = Program[i][j].val

ItemsOK(k) ==
  \A v \in DOMAIN item[k] : v # 0 =>
    Mode = "WRITELOG" /\ \E i \in Instance : \E j \in DOMAIN Program[i] : Owns(k, v, i, j)

(***************************************************************************)
(* Write j of i, which has logged its PostWrite as entry n of the stream   *)
(* of k: its data is in the table under the version of that entry.         *)
(***************************************************************************)
Published(k, n, i, j) ==
  LET p == StepsBefore(i, j)
      v == keyStream[k][n].version
  IN  /\ IsWrite(i, j) /\ Program[i][j].key = k
      /\ p + 2 <= Len(stream[i])
      /\ keyStream[k][n].seqNum = stream[i][p + 2].seqNum
      /\ v = VersionOf(i, j) /\ v \in DOMAIN item[k]

KeyStreamOK(k) ==
  \A n \in 1 .. Len(keyStream[k]) :
    /\ Mode = "WRITELOG"
    /\ keyStream[k][n].seqNum > CallSeqNum /\ keyStream[k][n].seqNum <= logTail
    /\ \A m \in 1 .. n - 1 : keyStream[k][m].seqNum < keyStream[k][n].seqNum
    /\ \E i \in Instance : \E j \in DOMAIN Program[i] : Published(k, n, i, j)

\* Every PostWrite step is in the stream of its key.
PostWritesOK(i) ==
  \A q \in 1 .. Len(stream[i]) : stream[i][q].data.type = "PostWrite" =>
    LET k == stream[i][q].data.key
    IN  \E n \in 1 .. Len(keyStream[k]) : keyStream[k][n].seqNum = stream[i][q].seqNum

(***************************************************************************)
(* An execution that is alive has replayed a prefix of its stream.  Until  *)
(* it loses a step it is where its operation says, with the cursor of that *)
(* step; from then on it is past what it has replayed.                     *)
(***************************************************************************)
Writing == {"prewritten", "written"}

Follows(f, s) ==
  /\ f.stepNumber <= Len(s)
  /\ DOMAIN f.stepLogs = 0 .. f.stepNumber - 1
  /\ \A k \in 0 .. f.stepNumber - 1 : f.stepLogs[k] = s[k + 1]
  /\ f.tail = IF f.stepNumber = 0 THEN 0 ELSE s[f.stepNumber].seqNum

OnTrack(e) ==
  LET i == InstanceOf[e]
      n == env[e].stepNumber
  IN  /\ n <= fsm[e].stepNumber
      /\ n = StepsBefore(i, op[e].idx) + (IF op[e].at \in Writing THEN 1 ELSE 0)
      /\ env[e].seqNum = Cursor(i, n)
      /\ op[e].at = "versioned" => op[e].ver = VersionAt(Op(e).key, env[e].seqNum)

InOpOK(e) ==
  /\ op[e].at # "start" => op[e].idx <= Len(Program[InstanceOf[e]])
  /\ op[e].at \in Writing =>
       /\ ~ env[e].exit /\ Mode = "WRITELOG" /\ Op(e).kind = "write"
  /\ op[e].at = "written" => WriteVersion(e) \in DOMAIN item[Op(e).key]
  /\ op[e].at = "versioned" => Mode = "WRITELOG" /\ Op(e).kind = "read"
  /\ op[e].at = "fetched" => Mode = "READLOG" /\ Op(e).kind = "read" /\ op[e].tmp \in Val

AliveOK(e) ==
  /\ Follows(fsm[e], stream[InstanceOf[e]])
  /\ op[e].idx <= Len(Program[InstanceOf[e]]) + 1
  /\ env[e].stepNumber <= Len(stream[InstanceOf[e]])
  /\ pc[e] = "catch" => env[e] = NewEnv /\ op[e] = FirstOp
  /\ env[e].seqNum >= CallSeqNum
  /\ env[e].exit => env[e].stepNumber > fsm[e].stepNumber
  /\ ~ env[e].exit => OnTrack(e)
  /\ InOpOK(e)

\* The PostWrite step of write j is in the log of i.
WriteOver(i, j) ==
  LET q == StepsBefore(i, j) + 2
  IN  Mode = "WRITELOG" =>
      /\ q <= Len(stream[i])
      /\ stream[i][q].data.type = "PostWrite" /\ stream[i][q].data.key = Program[i][j].key

PastOK(e) ==
  LET i == InstanceOf[e]
  IN  /\ pc[e] = "run" /\ ~ env[e].exit =>
           \A j \in DOMAIN Program[i] : j < op[e].idx /\ IsWrite(i, j) => WriteOver(i, j)
      /\ pc[e] = "done" =>
           \A j \in DOMAIN Program[i] : IsWrite(i, j) => WriteOver(i, j)

(***************************************************************************)
(* What read j of i returned: the result in the log, or what the version   *)
(* that its cursor selects holds.  A key with dependent writes is excluded *)
(* from the latter: they replace the data of version 0.                    *)
(***************************************************************************)
Plain(k) == \A i \in Instance : \A j \in DOMAIN Program[i] :
              Program[i][j].kind = "write" /\ Program[i][j].key = k => ~ Program[i][j].dep

Outcome(i, j) ==
  LET n == StepsBefore(i, j)
      k == Program[i][j].key
  IN  IF Mode = "READLOG" THEN stream[i][n + 1].data.result
      ELSE item[k][VersionAt(k, Cursor(i, n))]

TellOK(i, j, t) ==
  /\ IsRead(i, j)
  /\ StepsBefore(i, j) + (IF Mode = "READLOG" THEN 1 ELSE 0) <= Len(stream[i])
  /\ Mode = "READLOG" \/ Plain(Program[i][j].key) => t = Outcome(i, j) /\ t \in Val

ToldOK(i, j) == \A t \in told[i][j] : TellOK(i, j, t)

LogOK ==
  /\ \A i \in Instance : StreamOK(i) /\ PostWritesOK(i)
  /\ SeqNumsUnique
  /\ \A k \in Key : KeyStreamOK(k)

RWInv ==
  /\ RWTypeOK
  /\ LogOK
  /\ \A k \in Key : ItemsOK(k)
  /\ \A e \in Executor : pc[e] \in {"catch", "run"} => AliveOK(e)
  /\ \A e \in Executor : PastOK(e)
  /\ \A i \in Instance : \A j \in DOMAIN Program[i] : ToldOK(i, j)
-----------------------------------------------------------------------------
USE InstanceOfAssumption, CallSeqNumAssumption

(***************************************************************************)
(* The steps of an operation follow those of the operations before it, and *)
(* no two operations that log have the same.                               *)
(***************************************************************************)
Width == IF Mode = "WRITELOG" THEN 2 ELSE 1

LEMMA LoggedOpsFinite ==
  ASSUME NEW i \in Instance, NEW j \in Nat \ {0}
  PROVE  IsFiniteSet(LoggedOps(i, j)) /\ Cardinality(LoggedOps(i, j)) \in Nat
<1>1. LoggedOps(i, j) \in SUBSET (1 .. j - 1)
  BY DEF LoggedOps
<1>2. IsFiniteSet(1 .. j - 1)
  BY FS_Interval
<1> QED BY <1>1, <1>2, FS_Subset, FS_CardinalityType

LEMMA StepsFirst ==
  ASSUME NEW i \in Instance
  PROVE  StepsBefore(i, 1) = 0
<1>1. LoggedOps(i, 1) = {}
  BY DEF LoggedOps
<1>2. Cardinality(LoggedOps(i, 1)) = 0
  BY <1>1, FS_EmptySet
<1> QED BY <1>2 DEF StepsBefore

LEMMA StepsNext ==
  ASSUME NEW i \in Instance, NEW j \in Nat \ {0}
  PROVE  /\ StepsBefore(i, j) \in Nat
         /\ Logs(Program[i][j].kind) => StepsBefore(i, j + 1) = StepsBefore(i, j) + Width
         /\ ~ Logs(Program[i][j].kind) => StepsBefore(i, j + 1) = StepsBefore(i, j)
<1>1. IsFiniteSet(LoggedOps(i, j)) /\ Cardinality(LoggedOps(i, j)) \in Nat
  BY LoggedOpsFinite
<1>2. ASSUME Logs(Program[i][j].kind)
      PROVE  Cardinality(LoggedOps(i, j + 1)) = Cardinality(LoggedOps(i, j)) + 1
  <2>1. LoggedOps(i, j + 1) = LoggedOps(i, j) \cup {j}
    BY <1>2 DEF LoggedOps
  <2>2. j \notin LoggedOps(i, j)
    BY DEF LoggedOps
  <2> QED BY <1>1, <2>1, <2>2, FS_AddElement
<1>3. ASSUME ~ Logs(Program[i][j].kind)
      PROVE  LoggedOps(i, j + 1) = LoggedOps(i, j)
  BY <1>3 DEF LoggedOps
<1>4. StepsBefore(i, j) \in Nat
  BY <1>1 DEF StepsBefore
<1>5. ASSUME Logs(Program[i][j].kind) PROVE StepsBefore(i, j + 1) = StepsBefore(i, j) + Width
  <2>1. Cardinality(LoggedOps(i, j + 1)) = Cardinality(LoggedOps(i, j)) + 1
    BY <1>2, <1>5
  <2> HIDE DEF LoggedOps
  <2> QED BY <1>1, <2>1 DEF StepsBefore, Width
<1>6. ASSUME ~ Logs(Program[i][j].kind) PROVE StepsBefore(i, j + 1) = StepsBefore(i, j)
  BY <1>3, <1>6 DEF StepsBefore
<1> QED BY <1>4, <1>5, <1>6

LEMMA StepsApart ==
  ASSUME NEW i \in Instance, NEW j \in Nat \ {0}, NEW m \in Nat \ {0}, j < m,
         Logs(Program[i][j].kind)
  PROVE  StepsBefore(i, j) + Width <= StepsBefore(i, m)
<1>1. /\ IsFiniteSet(LoggedOps(i, j + 1)) /\ Cardinality(LoggedOps(i, j + 1)) \in Nat
      /\ IsFiniteSet(LoggedOps(i, m)) /\ Cardinality(LoggedOps(i, m)) \in Nat
  BY LoggedOpsFinite
<1>2. LoggedOps(i, j + 1) \in SUBSET LoggedOps(i, m)
  BY DEF LoggedOps
<1>3. Cardinality(LoggedOps(i, j + 1)) <= Cardinality(LoggedOps(i, m))
  BY <1>1, <1>2, FS_Subset
<1>4. StepsBefore(i, j + 1) <= StepsBefore(i, m)
  BY <1>1, <1>3 DEF StepsBefore
<1> QED BY <1>4, StepsNext

LEMMA StepsDiffer ==
  ASSUME NEW i \in Instance, NEW j \in Nat \ {0}, NEW m \in Nat \ {0},
         Logs(Program[i][j].kind), Logs(Program[i][m].kind),
         StepsBefore(i, j) = StepsBefore(i, m)
  PROVE  j = m
<1>1. StepsBefore(i, j) \in Nat /\ StepsBefore(i, m) \in Nat /\ Width \in {1, 2}
  BY StepsNext DEF Width
<1>2. ~ j < m
  <2>1. j < m => StepsBefore(i, j) + Width <= StepsBefore(i, m)
    BY StepsApart
  <2> QED BY <1>1, <2>1
<1>3. ~ m < j
  <2>1. m < j => StepsBefore(i, m) + Width <= StepsBefore(i, j)
    BY StepsApart
  <2> QED BY <1>1, <2>1
<1> QED BY <1>2, <1>3

(***************************************************************************)
(* A nonempty set of positions of a sequence has a last one, so            *)
(* SharedLogReadPrev finds an entry if there is one.                       *)
(***************************************************************************)
LEMMA LastPosition ==
  ASSUME NEW n \in Nat, NEW S \in SUBSET (1 .. n), S # {}
  PROVE  \E k \in S : \A j \in S : j <= k
<1> DEFINE Above(k) == {x \in S : x > k}
           T == {Above(k) : k \in S}
<1>1. IsFiniteSet(1 .. n)
  BY FS_Interval
<1>2. IsWellFoundedOn(StrictSubsetOrdering(1 .. n), FiniteSubsetsOf(1 .. n))
  BY FS_StrictSubsetOrderingWellFounded
<1>3. T \subseteq FiniteSubsetsOf(1 .. n)
  <2>1. \A k \in S : Above(k) \in SUBSET (1 .. n)
    OBVIOUS
  <2> QED BY <1>1, <2>1, FS_Subset DEF FiniteSubsetsOf
<1>4. T # {}
  OBVIOUS
<1> HIDE DEF T
<1>5. PICK A \in T : \A B \in T : <<B, A>> \notin StrictSubsetOrdering(1 .. n)
  BY <1>2, <1>3, <1>4, WFMin
<1>6. PICK k \in S : A = Above(k)
  BY <1>5 DEF T
<1>7. ASSUME NEW j \in S, j > k PROVE FALSE
  <2>1. Above(j) \in T
    BY DEF T
  <2>2. Above(j) \subseteq Above(k) /\ j \in Above(k) /\ j \notin Above(j)
    <3>1. S \subseteq Nat /\ j \in Nat /\ k \in Nat /\ j > k
      BY <1>7
    <3>2. j \in Above(k) /\ j \notin Above(j)
      BY <3>1
    <3>3. ASSUME NEW x \in S, x > j PROVE x > k
      BY <3>1, <3>3
    <3> QED BY <3>2, <3>3
  <2>3. Above(j) \in SUBSET (1 .. n) /\ Above(k) \in SUBSET (1 .. n)
    OBVIOUS
  <2> HIDE DEF Above
  <2>4. <<Above(j), Above(k)>> \in StrictSubsetOrdering(1 .. n)
    BY <2>2, <2>3 DEF StrictSubsetOrdering
  <2> QED BY <1>5, <1>6, <2>1, <2>4
<1>8. \A j \in S : j <= k
  BY <1>7
<1> QED BY <1>8

LEMMA LastAtIs ==
  ASSUME NEW s, Len(s) \in Nat, NEW seq
  PROVE  \/ LastAt(s, seq) = 0 /\ \A k \in 1 .. Len(s) : ~ s[k].seqNum <= seq
         \/ LastAt(s, seq) \in 1 .. Len(s) /\ s[LastAt(s, seq)].seqNum <= seq
<1> DEFINE before == {k \in 1 .. Len(s) : s[k].seqNum <= seq}
<1>1. CASE before = {}
  BY <1>1 DEF LastAt
<1>2. CASE before # {}
  <2>1. before \in SUBSET (1 .. Len(s))
    OBVIOUS
  <2>2. \E k \in before : \A j \in before : j <= k
    BY <1>2, <2>1, LastPosition
  <2>3. LastAt(s, seq) = CHOOSE k \in before : \A j \in before : j <= k
    BY <1>2 DEF LastAt
  <2>4. LastAt(s, seq) \in before
    BY <2>2, <2>3
  <2> QED BY <2>4
<1> QED BY <1>1, <1>2

LEMMA LastAtStable ==
  ASSUME NEW s, NEW t, NEW seq, Len(s) \in Nat, Len(t) \in Nat, Len(s) <= Len(t),
         \A k \in 1 .. Len(s) : t[k] = s[k],
         \A k \in 1 .. Len(t) : k > Len(s) => ~ t[k].seqNum <= seq
  PROVE  LastAt(t, seq) = LastAt(s, seq)
<1> DEFINE Before(x) == {k \in 1 .. Len(x) : x[k].seqNum <= seq}
           LastOf(S) == IF S = {} THEN 0 ELSE CHOOSE k \in S : \A j \in S : j <= k
<1>1. Before(t) = Before(s)
  OBVIOUS
<1>2. LastAt(t, seq) = LastOf(Before(t)) /\ LastAt(s, seq) = LastOf(Before(s))
  BY DEF LastAt
<1> HIDE DEF Before, LastOf
<1> QED BY <1>1, <1>2
-----------------------------------------------------------------------------
(***************************************************************************)
(* What the typing says of entries and programs.                           *)
(***************************************************************************)
LEMMA Entries ==
  ASSUME RWTypeOK, NEW i \in Instance
  PROVE  /\ stream[i] \in Seq(LogRecord) /\ Len(stream[i]) \in Nat
         /\ \A k \in 1 .. Len(stream[i]) :
              /\ stream[i][k] \in LogRecord
              /\ stream[i][k].seqNum \in Nat /\ stream[i][k].data \in LogData
<1>1. stream[i] \in Seq(LogRecord) /\ Len(stream[i]) \in Nat
  BY DEF RWTypeOK
<1>2. ASSUME NEW k \in 1 .. Len(stream[i])
      PROVE  stream[i][k] \in LogRecord
  BY <1>1
<1>3. ASSUME NEW x \in LogRecord
      PROVE  x.seqNum \in Nat /\ x.data \in LogData
  BY DEF LogRecord
<1> QED BY <1>1, <1>2, <1>3

LEMMA KeyEntries ==
  ASSUME RWTypeOK, NEW k \in Key
  PROVE  /\ keyStream[k] \in Seq(VersionRecord) /\ Len(keyStream[k]) \in Nat
         /\ \A n \in 1 .. Len(keyStream[k]) :
              keyStream[k][n].seqNum \in Nat /\ keyStream[k][n].version \in Nat
<1>1. keyStream[k] \in Seq(VersionRecord) /\ Len(keyStream[k]) \in Nat
  BY DEF RWTypeOK
<1>2. ASSUME NEW n \in 1 .. Len(keyStream[k])
      PROVE  keyStream[k][n] \in VersionRecord
  BY <1>1
<1> QED BY <1>1, <1>2 DEF VersionRecord

LEMMA Programs ==
  ASSUME NEW i \in Instance
  PROVE  /\ Program[i] \in Seq(OpType) /\ Len(Program[i]) \in Nat
         /\ DOMAIN Program[i] = 1 .. Len(Program[i])
         /\ \A j \in DOMAIN Program[i] :
              /\ j \in Nat \ {0} /\ Program[i][j] \in OpType
              /\ Program[i][j].key \in Key /\ Program[i][j].kind \in {"read", "write"}
              /\ Program[i][j].dep \in BOOLEAN
              /\ Program[i][j].kind = "write" => Program[i][j].val \in Val
<1>1. Program[i] \in Seq(OpType)
  BY ProgramAssumption
<1>2. Len(Program[i]) \in Nat /\ DOMAIN Program[i] = 1 .. Len(Program[i])
  BY <1>1
<1>3. \A j \in DOMAIN Program[i] : Program[i][j] \in OpType /\ j \in Nat \ {0}
  BY <1>1, <1>2
<1>4. \A x \in OpType : x.key \in Key /\ x.kind \in {"read", "write"} /\ x.dep \in BOOLEAN
  BY DEF OpType
<1> QED BY <1>1, <1>2, <1>3, <1>4, WritesHaveValues

LEMMA Processes ==
  ASSUME RWTypeOK, NEW e \in Executor
  PROVE  /\ InstanceOf[e] \in Instance /\ pc[e] \in PcState
         /\ env[e] \in EnvRecord /\ env[e].stepNumber \in Nat /\ env[e].seqNum \in Nat
         /\ env[e].exit \in BOOLEAN
         /\ op[e] \in OpState /\ op[e].idx \in Nat \ {0} /\ op[e].at \in Place
         /\ op[e].tmp \in Val \cup {None} /\ op[e].ver \in Nat
         /\ IsIntentFsm(fsm[e]) /\ fsm[e].stepNumber \in Nat
<1>1. env[e] \in EnvRecord /\ op[e] \in OpState /\ pc[e] \in PcState /\ IsIntentFsm(fsm[e])
  BY DEF RWTypeOK
<1>2. env[e].stepNumber \in Nat /\ env[e].seqNum \in Nat /\ env[e].exit \in BOOLEAN
  BY <1>1 DEF EnvRecord
<1>3. /\ op[e].idx \in Nat \ {0} /\ op[e].at \in Place
      /\ op[e].tmp \in Val \cup {None} /\ op[e].ver \in Nat
  BY <1>1 DEF OpState
<1>4. fsm[e].stepNumber \in Nat
  BY <1>1 DEF IsIntentFsm
<1> QED BY <1>1, <1>2, <1>3, <1>4

\* The cursor of a step that was taken.
LEMMA CursorIs ==
  ASSUME RWTypeOK, NEW i \in Instance, StreamOK(i), NEW n \in Nat, n <= Len(stream[i])
  PROVE  Cursor(i, n) \in Nat /\ CallSeqNum <= Cursor(i, n) /\ Cursor(i, n) <= logTail
<1>1. CASE n = 0
  BY <1>1 DEF Cursor, RWTypeOK
<1>2. CASE n # 0
  <2>1. n \in 1 .. Len(stream[i])
    BY <1>2, Entries
  <2>2. stream[i][n].seqNum \in Nat /\ stream[i][n].seqNum > CallSeqNum /\ stream[i][n].seqNum <= logTail
    BY <2>1, Entries DEF StreamOK
  <2> QED BY <1>2, <2>2 DEF Cursor
<1> QED BY <1>1, <1>2

(***************************************************************************)
(* What no step undoes: entries stay in their streams, new ones of a key   *)
(* come behind everything the log had, and the data of a version stays,    *)
(* that of version 0 if it has no dependent or log-free writes.            *)
(***************************************************************************)
Fixed(k, v) == v # 0 \/ (Mode = "WRITELOG" /\ Plain(k))

LogGrows ==
  /\ logTail <= logTail'
  /\ \A i \in Instance :
       /\ Len(stream[i]) <= Len(stream'[i])
       /\ \A n \in 1 .. Len(stream[i]) : stream'[i][n] = stream[i][n]
  /\ \A k \in Key :
       /\ Len(keyStream[k]) <= Len(keyStream'[k])
       /\ \A n \in 1 .. Len(keyStream[k]) : keyStream'[k][n] = keyStream[k][n]
       /\ \A n \in 1 .. Len(keyStream'[k]) :
            n > Len(keyStream[k]) => keyStream'[k][n].seqNum > logTail

ItemsGrow ==
  \A k \in Key :
    /\ DOMAIN item[k] \subseteq DOMAIN item'[k]
    /\ \A v \in DOMAIN item[k] : Fixed(k, v) => item'[k][v] = item[k][v]

Grows == LogGrows /\ ItemsGrow

Typed == RWTypeOK /\ RWTypeOK'

LEMMA KeepEntry ==
  ASSUME Typed, Grows, NEW i \in Instance, NEW n \in Nat \ {0}, n <= Len(stream[i])
  PROVE  /\ n \in 1 .. Len(stream[i]) /\ n <= Len(stream'[i]) /\ n \in 1 .. Len(stream'[i])
         /\ stream'[i][n] = stream[i][n]
<1>1. Len(stream[i]) \in Nat /\ Len(stream'[i]) \in Nat
  BY DEF Typed, RWTypeOK
<1>2. n \in 1 .. Len(stream[i])
  BY <1>1
<1> QED BY <1>1, <1>2 DEF Grows, LogGrows

LEMMA KeepCursor ==
  ASSUME Typed, Grows, NEW i \in Instance, NEW n \in Nat, n <= Len(stream[i])
  PROVE  Cursor(i, n)' = Cursor(i, n) /\ n <= Len(stream'[i])
<1>1. CASE n = 0
  <2>1. Len(stream'[i]) \in Nat
    BY DEF Typed, RWTypeOK
  <2> QED BY <1>1, <2>1 DEF Cursor
<1>2. CASE n # 0
  BY <1>2, KeepEntry DEF Cursor
<1> QED BY <1>1, <1>2

\* What a cursor selects does not change.
LEMMA KeepVersion ==
  ASSUME Typed, Grows, NEW k \in Key, NEW seq \in Nat, seq <= logTail
  PROVE  VersionAt(k, seq)' = VersionAt(k, seq)
<1>1. Len(keyStream[k]) \in Nat /\ Len(keyStream'[k]) \in Nat /\ logTail \in Nat
  BY DEF Typed, RWTypeOK
<1>2. \A n \in 1 .. Len(keyStream'[k]) : keyStream'[k][n].seqNum \in Nat
  <2>1. keyStream'[k] \in Seq(VersionRecord)
    BY DEF Typed, RWTypeOK
  <2>2. \A n \in 1 .. Len(keyStream'[k]) : keyStream'[k][n] \in VersionRecord
    BY <2>1
  <2> QED BY <2>2 DEF VersionRecord
<1>3. /\ Len(keyStream[k]) <= Len(keyStream'[k])
      /\ \A n \in 1 .. Len(keyStream[k]) : keyStream'[k][n] = keyStream[k][n]
      /\ \A n \in 1 .. Len(keyStream'[k]) :
            n > Len(keyStream[k]) => keyStream'[k][n].seqNum > logTail
  BY DEF Grows, LogGrows
<1>4. \A n \in 1 .. Len(keyStream'[k]) : n > Len(keyStream[k]) => ~ keyStream'[k][n].seqNum <= seq
  BY <1>1, <1>2, <1>3
<1>5. LastAt(keyStream'[k], seq) = LastAt(keyStream[k], seq)
  BY <1>1, <1>3, <1>4, LastAtStable
<1>6. LastAt(keyStream[k], seq) = 0 \/ LastAt(keyStream[k], seq) \in 1 .. Len(keyStream[k])
  BY <1>1, LastAtIs
<1> QED BY <1>3, <1>5, <1>6 DEF VersionAt

LEMMA FollowsLonger ==
  ASSUME NEW f, NEW s, NEW t, f.stepNumber \in Nat, Len(s) \in Nat, Len(t) \in Nat,
         Len(s) <= Len(t), \A n \in 1 .. Len(s) : t[n] = s[n], Follows(f, s)
  PROVE  Follows(f, t)
<1>1. f.stepNumber <= Len(t)
  BY DEF Follows
<1>2. ASSUME NEW k \in 0 .. f.stepNumber - 1
      PROVE  f.stepLogs[k] = t[k + 1]
  <2>1. k + 1 \in 1 .. Len(s)
    BY DEF Follows
  <2> QED BY <2>1 DEF Follows
<1>3. f.tail = IF f.stepNumber = 0 THEN 0 ELSE t[f.stepNumber].seqNum
  <2>1. CASE f.stepNumber = 0
    BY <2>1 DEF Follows
  <2>2. CASE f.stepNumber # 0
    <3>1. f.stepNumber \in 1 .. Len(s)
      BY <2>2 DEF Follows
    <3> QED BY <2>2, <3>1 DEF Follows
  <2> QED BY <2>1, <2>2
<1> QED BY <1>1, <1>2, <1>3 DEF Follows

\* The operation an execution is in is one of the program.
LEMMA OpIs ==
  ASSUME RWTypeOK, NEW e \in Executor, op[e].idx <= Len(Program[InstanceOf[e]])
  PROVE  /\ op[e].idx \in DOMAIN Program[InstanceOf[e]] /\ op[e].idx \in Nat \ {0}
         /\ Op(e) = Program[InstanceOf[e]][op[e].idx]
         /\ Op(e).key \in Key /\ Op(e).kind \in {"read", "write"} /\ Op(e).dep \in BOOLEAN
         /\ Op(e).kind = "write" => Op(e).val \in Val
<1>1. InstanceOf[e] \in Instance /\ op[e].idx \in Nat \ {0}
  BY Processes
<1>2. op[e].idx \in DOMAIN Program[InstanceOf[e]]
  BY <1>1, Programs
<1> QED BY <1>1, <1>2, Programs DEF Op

\* An execution that is left alone keeps following its stream.
LeftAlone(e) == fsm'[e] = fsm[e] /\ env'[e] = env[e] /\ op'[e] = op[e]

LEMMA KeepAlive ==
  ASSUME Typed, Grows, LogOK, NEW e \in Executor, AliveOK(e),
         LeftAlone(e), pc'[e] = "catch" => pc[e] = "catch"
  PROVE  AliveOK(e)'
<1> DEFINE i == InstanceOf[e]
<1>1. /\ i \in Instance /\ env[e].stepNumber \in Nat /\ env[e].seqNum \in Nat
      /\ fsm[e].stepNumber \in Nat /\ op[e].idx \in Nat \ {0}
  BY Processes DEF Typed
<1>2. /\ Len(stream[i]) \in Nat /\ Len(stream'[i]) \in Nat /\ Len(stream[i]) <= Len(stream'[i])
      /\ \A n \in 1 .. Len(stream[i]) : stream'[i][n] = stream[i][n]
  BY <1>1 DEF Typed, RWTypeOK, Grows, LogGrows
<1>3. Follows(fsm[e], stream'[i])
  <2>1. Follows(fsm[e], stream[i])
    BY DEF AliveOK
  <2> HIDE DEF i
  <2> QED BY <1>1, <1>2, <2>1, FollowsLonger
<1>4. env[e].stepNumber <= Len(stream'[i])
  <2>1. env[e].stepNumber <= Len(stream[i])
    BY DEF AliveOK
  <2> HIDE DEF i
  <2> QED BY <1>1, <1>2, <2>1
<1>5. ASSUME ~ env[e].exit PROVE OnTrack(e)'
  <2>1. OnTrack(e)
    BY <1>5 DEF AliveOK
  <2>2. env[e].stepNumber <= Len(stream[i]) /\ StreamOK(i)
    BY DEF AliveOK, LogOK
  <2>4. PICK n \in Nat : n = env[e].stepNumber
    BY <1>1
  <2>5. Cursor(i, n)' = Cursor(i, n) /\ Cursor(i, n) <= logTail
    BY <1>1, <2>2, <2>4, KeepCursor, CursorIs DEF Typed
  <2>6. env[e].seqNum = Cursor(i, n)
    BY <2>1, <2>4 DEF OnTrack
  <2>7. ASSUME op[e].at = "versioned"
        PROVE  op[e].ver = VersionAt(Op(e).key, env[e].seqNum)'
    <3>1. op[e].idx <= Len(Program[InstanceOf[e]])
      BY <2>7 DEF AliveOK, InOpOK
    <3>2. PICK k \in Key : k = Op(e).key
      BY <3>1, OpIs DEF Typed
    <3>3. PICK seq \in Nat : seq = env[e].seqNum
      BY <1>1
    <3>4. VersionAt(k, seq)' = VersionAt(k, seq)
      BY <2>5, <2>6, <3>3, KeepVersion
    <3>5. Op(e)' = Op(e) /\ env'[e].seqNum = seq
      BY <3>3 DEF Op, LeftAlone
    <3> QED BY <2>1, <2>7, <3>2, <3>3, <3>4, <3>5 DEF OnTrack
  <2>8. env'[e].stepNumber = n /\ env'[e].seqNum = env[e].seqNum
    BY <2>4 DEF LeftAlone
  <2>9. Cursor(i, env[e].stepNumber)' = Cursor(i, n)
    BY <2>5, <2>8
  <2> HIDE DEF i
  <2> QED BY <2>1, <2>4, <2>6, <2>7, <2>8, <2>9 DEF OnTrack, LeftAlone, i
<1>6. InOpOK(e)'
  <2>1. InOpOK(e)
    BY DEF AliveOK
  <2>2. ASSUME op[e].at = "written" PROVE WriteVersion(e)' \in DOMAIN item'[Op(e)'.key]
    <3>1. op[e].idx <= Len(Program[InstanceOf[e]])
      BY <2>1, <2>2 DEF InOpOK
    <3>2. Op(e).key \in Key /\ Op(e)' = Op(e) /\ WriteVersion(e)' = WriteVersion(e)
      BY <3>1, OpIs DEF Op, LeftAlone, WriteVersion, Typed
    <3> QED BY <2>1, <2>2, <3>2 DEF InOpOK, Grows, ItemsGrow
  <2> QED BY <2>1, <2>2 DEF InOpOK, LeftAlone, Op
<1> QED BY <1>3, <1>4, <1>5, <1>6 DEF AliveOK, LeftAlone

LEMMA KeepOwns ==
  ASSUME Typed, Grows, NEW k \in Key, NEW v \in DOMAIN item[k], v # 0,
         NEW i \in Instance, NEW j \in DOMAIN Program[i], Owns(k, v, i, j)
  PROVE  Owns(k, v, i, j)'
<1>1. PICK p \in Nat : p = StepsBefore(i, j)
  BY Programs, StepsNext
<1>2. /\ p + 1 \in Nat \ {0} /\ p + 1 <= Len(stream[i]) /\ v = stream[i][p + 1].seqNum
      /\ IsWrite(i, j) /\ Program[i][j].key = k /\ item[k][v] = Program[i][j].val
  BY <1>1 DEF Owns
<1>3. p + 1 <= Len(stream'[i]) /\ stream'[i][p + 1] = stream[i][p + 1]
  BY <1>2, KeepEntry
<1>4. item'[k][v] = item[k][v]
  BY DEF Grows, ItemsGrow, Fixed
<1> QED BY <1>1, <1>2, <1>3, <1>4 DEF Owns

LEMMA KeepVersionOf ==
  ASSUME Typed, Grows, NEW i \in Instance, NEW j \in DOMAIN Program[i],
         StepsBefore(i, j) + 1 <= Len(stream[i])
  PROVE  VersionOf(i, j)' = VersionOf(i, j)
<1>1. PICK p \in Nat : p = StepsBefore(i, j)
  BY Programs, StepsNext
<1>2. p + 1 \in Nat \ {0}
  BY <1>1
<1>3. stream'[i][p + 1] = stream[i][p + 1]
  BY <1>1, <1>2, KeepEntry
<1> QED BY <1>1, <1>3 DEF VersionOf

LEMMA KeepPublished ==
  ASSUME Typed, Grows, NEW k \in Key, NEW n \in 1 .. Len(keyStream[k]),
         NEW i \in Instance, NEW j \in DOMAIN Program[i], Published(k, n, i, j)
  PROVE  Published(k, n, i, j)'
<1>1. PICK p \in Nat : p = StepsBefore(i, j)
  BY Programs, StepsNext
<1>2. /\ p + 2 \in Nat \ {0} /\ p + 2 <= Len(stream[i]) /\ Len(stream[i]) \in Nat
      /\ IsWrite(i, j) /\ Program[i][j].key = k
      /\ keyStream[k][n].seqNum = stream[i][p + 2].seqNum
      /\ keyStream[k][n].version = VersionOf(i, j) /\ keyStream[k][n].version \in DOMAIN item[k]
  BY <1>1, Entries DEF Published, Typed
<1>3. p + 2 <= Len(stream'[i]) /\ stream'[i][p + 2] = stream[i][p + 2]
  BY <1>2, KeepEntry
<1>4. p + 1 <= Len(stream[i])
  BY <1>2
<1>5. VersionOf(i, j)' = VersionOf(i, j)
  BY <1>1, <1>4, KeepVersionOf
<1>6. keyStream'[k][n] = keyStream[k][n] /\ DOMAIN item[k] \subseteq DOMAIN item'[k]
  BY DEF Grows, LogGrows, ItemsGrow
<1> QED BY <1>1, <1>2, <1>3, <1>5, <1>6 DEF Published

LEMMA KeepOver ==
  ASSUME Typed, Grows, NEW i \in Instance, NEW j \in DOMAIN Program[i], WriteOver(i, j)
  PROVE  WriteOver(i, j)'
<1>1. PICK p \in Nat : p = StepsBefore(i, j)
  BY Programs, StepsNext
<1>2. p + 2 \in Nat \ {0}
  BY <1>1
<1> SUFFICES ASSUME Mode = "WRITELOG"
             PROVE  /\ p + 2 <= Len(stream'[i])
                    /\ stream'[i][p + 2].data.type = "PostWrite"
                    /\ stream'[i][p + 2].data.key = Program[i][j].key
  BY <1>1 DEF WriteOver
<1>3. /\ p + 2 <= Len(stream[i]) /\ stream[i][p + 2].data.type = "PostWrite"
      /\ stream[i][p + 2].data.key = Program[i][j].key
  BY <1>1 DEF WriteOver
<1>4. p + 2 <= Len(stream'[i]) /\ stream'[i][p + 2] = stream[i][p + 2]
  BY <1>2, <1>3, KeepEntry
<1> QED BY <1>3, <1>4

\* What a cursor selects is in the table.
LEMMA VersionExists ==
  ASSUME RWTypeOK, LogOK, NEW k \in Key, NEW seq
  PROVE  VersionAt(k, seq) \in Nat /\ VersionAt(k, seq) \in DOMAIN item[k]
<1>1. LastAt(keyStream[k], seq) = 0 \/ LastAt(keyStream[k], seq) \in 1 .. Len(keyStream[k])
  BY LastAtIs, KeyEntries
<1>2. 0 \in DOMAIN item[k]
  BY DEF RWTypeOK
<1>3. \A n \in 1 .. Len(keyStream[k]) : keyStream[k][n].version \in DOMAIN item[k]
  BY DEF LogOK, KeyStreamOK, Published
<1>4. \A n \in 1 .. Len(keyStream[k]) : keyStream[k][n].version \in Nat
  BY KeyEntries
<1> QED BY <1>1, <1>2, <1>3, <1>4 DEF VersionAt

\* What an operation returned stays its outcome.
LEMMA KeepTell ==
  ASSUME Typed, Grows, LogOK, NEW i \in Instance, NEW j \in DOMAIN Program[i], NEW t,
         TellOK(i, j, t)
  PROVE  TellOK(i, j, t)'
<1>1. PICK p \in Nat : p = StepsBefore(i, j)
  BY Programs, StepsNext
<1>2. PICK k \in Key : k = Program[i][j].key
  BY Programs
<1>3. Len(stream[i]) \in Nat /\ Len(stream'[i]) \in Nat /\ StreamOK(i)
  BY Entries DEF Typed, RWTypeOK, LogOK
<1>4. CASE Mode = "READLOG"
  <2>1. /\ p + 1 \in Nat \ {0} /\ p + 1 <= Len(stream[i]) /\ IsRead(i, j)
        /\ t = stream[i][p + 1].data.result /\ t \in Val
    BY <1>1, <1>4 DEF TellOK, Outcome
  <2>2. p + 1 <= Len(stream'[i]) /\ stream'[i][p + 1] = stream[i][p + 1]
    BY <2>1, KeepEntry
  <2> QED BY <1>1, <1>4, <2>1, <2>2 DEF TellOK, Outcome
<1>5. CASE Mode # "READLOG"
  <2>1. p <= Len(stream[i]) /\ IsRead(i, j)
    BY <1>1, <1>5 DEF TellOK
  <2>2. Cursor(i, p)' = Cursor(i, p) /\ p <= Len(stream'[i])
    BY <2>1, KeepCursor
  <2>3. PICK c \in Nat : c = Cursor(i, p) /\ c <= logTail
    BY <1>3, <2>1, CursorIs DEF Typed
  <2>4. VersionAt(k, c)' = VersionAt(k, c)
    BY <2>3, KeepVersion
  <2>5. ASSUME Plain(k) PROVE t = item'[k][VersionAt(k, c)'] /\ t \in Val
    <3>1. t = item[k][VersionAt(k, c)] /\ t \in Val
      BY <1>1, <1>2, <1>5, <2>3, <2>5 DEF TellOK, Outcome
    <3>2. VersionAt(k, c) \in DOMAIN item[k]
      BY VersionExists DEF Typed
    <3>3. Fixed(k, VersionAt(k, c))
      BY <1>5, <2>5, ModeAssumption DEF Fixed
    <3> QED BY <2>4, <3>1, <3>2, <3>3 DEF Grows, ItemsGrow
  <2> QED BY <1>1, <1>2, <1>5, <2>1, <2>2, <2>3, <2>5 DEF TellOK, Outcome
<1> QED BY <1>4, <1>5
-----------------------------------------------------------------------------
(***************************************************************************)
(* How a step keeps the invariant: nothing is undone, it touches one       *)
(* execution, and what it does not leave alone is shown for the next       *)
(* state.                                                                  *)
(***************************************************************************)
Others(e) ==
  \A x \in Executor \ {e} :
    pc'[x] = pc[x] /\ env'[x] = env[x] /\ fsm'[x] = fsm[x] /\ op'[x] = op[x]

NewItemsOK ==
  \A k \in Key : \A v \in DOMAIN item'[k] :
    \/ v \in DOMAIN item[k]
    \/ Mode = "WRITELOG" /\ \E i \in Instance : \E j \in DOMAIN Program[i] : Owns(k, v, i, j)'

NewToldOK ==
  \A i \in Instance : \A j \in DOMAIN Program[i] : \A t \in told'[i][j] :
    t \in told[i][j] \/ TellOK(i, j, t)'

\* What a step does to the invariant and to what was written.
Keeps == RWInv' /\ Grows

LEMMA StepOf ==
  ASSUME RWInv, RWTypeOK', Grows, LogOK', NewItemsOK, NewToldOK,
         NEW e \in Executor, Others(e),
         pc'[e] \in {"catch", "run"} => AliveOK(e)', PastOK(e)'
  PROVE  Keeps
<1>0. Typed /\ LogOK
  BY DEF RWInv, Typed
<1>1. ASSUME NEW k \in Key PROVE ItemsOK(k)'
  <2> SUFFICES ASSUME NEW v \in DOMAIN item'[k], v # 0
               PROVE  /\ Mode = "WRITELOG"
                      /\ \E i \in Instance : \E j \in DOMAIN Program[i] : Owns(k, v, i, j)'
    BY DEF ItemsOK
  <2>1. CASE v \in DOMAIN item[k]
    <3>1a. PICK i \in Instance : \E j \in DOMAIN Program[i] : Owns(k, v, i, j)
      BY <2>1 DEF RWInv, ItemsOK
    <3>1. PICK j \in DOMAIN Program[i] : Owns(k, v, i, j)
      BY <3>1a
    <3>2. Owns(k, v, i, j)'
      BY <1>0, <2>1, <3>1, KeepOwns
    <3> QED BY <2>1, <3>2 DEF RWInv, ItemsOK
  <2>2. CASE v \notin DOMAIN item[k]
    BY <2>2 DEF NewItemsOK
  <2> QED BY <2>1, <2>2
<1>2. ASSUME NEW x \in Executor, pc'[x] \in {"catch", "run"} PROVE AliveOK(x)'
  <2>1. CASE x = e
    BY <1>2, <2>1
  <2>2. CASE x # e
    <3>1. AliveOK(x) /\ LeftAlone(x) /\ pc'[x] = pc[x]
      BY <1>2, <2>2 DEF RWInv, Others, LeftAlone
    <3> QED BY <1>0, <3>1, KeepAlive
  <2> QED BY <2>1, <2>2
<1>3. ASSUME NEW x \in Executor PROVE PastOK(x)'
  <2>1. CASE x = e
    BY <2>1
  <2>2. CASE x # e
    <3> DEFINE i == InstanceOf[x]
    <3>1. i \in Instance /\ pc'[x] = pc[x] /\ env'[x] = env[x] /\ op'[x] = op[x] /\ PastOK(x)
      BY <2>2 DEF RWInv, Others
    <3>2. \A j \in DOMAIN Program[i] : WriteOver(i, j) => WriteOver(i, j)'
      BY <1>0, <3>1, KeepOver
    <3> QED BY <3>1, <3>2 DEF PastOK
  <2> QED BY <2>1, <2>2
<1>4. ASSUME NEW i \in Instance, NEW j \in DOMAIN Program[i] PROVE ToldOK(i, j)'
  <2>1. ASSUME NEW t \in told[i][j] PROVE TellOK(i, j, t)'
    <3>1. TellOK(i, j, t)
      BY DEF RWInv, ToldOK
    <3> QED BY <1>0, <3>1, KeepTell
  <2> QED BY <2>1 DEF NewToldOK, ToldOK
<1> QED BY <1>1, <1>2, <1>3, <1>4 DEF RWInv, Keeps

\* Steps that append nothing.
LEMMA LogAlone ==
  ASSUME Typed, LogOK, UNCHANGED <<logTail, stream, keyStream>>, ItemsGrow
  PROVE  Grows /\ LogOK'
<1>1. \A i \in Instance : Len(stream[i]) \in Nat
  BY DEF Typed, RWTypeOK
<1>2. \A k \in Key : Len(keyStream[k]) \in Nat
  BY DEF Typed, RWTypeOK
<1>3. Grows
  BY <1>1, <1>2 DEF Grows, LogGrows, Typed, RWTypeOK
<1>4. \A i \in Instance : StreamOK(i)' /\ PostWritesOK(i)'
  BY DEF LogOK, StreamOK, PostWritesOK
<1>5. SeqNumsUnique'
  BY DEF LogOK, SeqNumsUnique
<1>6. ASSUME NEW k \in Key, NEW n \in 1 .. Len(keyStream[k])
      PROVE  \E i \in Instance : \E j \in DOMAIN Program[i] : Published(k, n, i, j)'
  <2>1a. PICK i \in Instance : \E j \in DOMAIN Program[i] : Published(k, n, i, j)
    BY DEF LogOK, KeyStreamOK
  <2>1. PICK j \in DOMAIN Program[i] : Published(k, n, i, j)
    BY <2>1a
  <2>2. Published(k, n, i, j)'
    BY <1>3, <2>1, KeepPublished
  <2> QED BY <2>2
<1>7. \A k \in Key : KeyStreamOK(k)'
  <2> SUFFICES ASSUME NEW k \in Key PROVE KeyStreamOK(k)'
    OBVIOUS
  <2>1. KeyStreamOK(k)
    BY DEF LogOK
  <2> QED BY <1>6, <2>1 DEF KeyStreamOK
<1> QED BY <1>3, <1>4, <1>5, <1>7 DEF LogOK

LEMMA ItemsAlone ==
  ASSUME item' = item
  PROVE  ItemsGrow /\ NewItemsOK
BY DEF ItemsGrow, NewItemsOK

LEMMA ToldAlone ==
  ASSUME told' = told
  PROVE  NewToldOK
BY DEF NewToldOK

\* Steps of one execution on its own: nothing shared changes.
LEMMA OwnStep ==
  ASSUME RWInv, RWTypeOK', UNCHANGED <<logTail, stream, keyStream, item>>, NewToldOK,
         NEW e \in Executor, Others(e),
         pc'[e] \in {"catch", "run"} => AliveOK(e)', PastOK(e)'
  PROVE  Keeps
<1>1. Typed /\ LogOK /\ ItemsGrow /\ NewItemsOK
  BY ItemsAlone DEF RWInv, Typed
<1>2. Grows /\ LogOK'
  BY <1>1, LogAlone
<1> QED BY <1>1, <1>2, StepOf

LEMMA RWInitOK == RWInit => RWInv
<1> SUFFICES ASSUME RWInit PROVE RWInv
  OBVIOUS
<1>1. RWTypeOK
  <2>1. IsIntentFsm(NewIntentFsm) /\ NewEnv \in EnvRecord
    BY DEF IsIntentFsm, NewIntentFsm, NewEnv, EnvRecord
  <2>2. FirstOp \in OpState
    BY DEF FirstOp, OpState, Place
  <2>3. /\ logTail \in Nat /\ logTail >= CallSeqNum
        /\ stream \in [Instance -> Seq(LogRecord)]
        /\ pc \in [Executor -> PcState]
        /\ env \in [Executor -> EnvRecord]
        /\ fsm = [e \in Executor |-> fsm[e]]
        /\ \A e \in Executor : IsIntentFsm(fsm[e])
    BY <2>1 DEF RWInit, Init, PcState
  <2>4. /\ DOMAIN item = Key
        /\ \A k \in Key : 0 \in DOMAIN item[k] /\ item[k] \in [DOMAIN item[k] -> Val]
        /\ version \in [Key -> Nat] /\ keyStream \in [Key -> Seq(VersionRecord)]
    BY InitValAssumption DEF RWInit
  <2>5. op \in [Executor -> OpState]
    BY <2>2 DEF RWInit
  <2>6. /\ DOMAIN told = Instance
        /\ \A i \in Instance : told[i] \in [1 .. Len(Program[i]) -> SUBSET (Val \cup {None})]
    BY DEF RWInit
  <2> QED BY <2>3, <2>4, <2>5, <2>6 DEF RWTypeOK
<1>2. LogOK
  <2>1. \A i \in Instance : StreamOK(i) /\ PostWritesOK(i)
    <3>a. \A i \in Instance : stream[i] = <<>>
      BY DEF RWInit, Init
    <3>b. Len(<<>>) = 0 /\ 1 .. 0 = {}
      OBVIOUS
    <3>1. \A i \in Instance : 1 .. Len(stream[i]) = {}
      BY <3>a, <3>b, Zenon
    <3>2. \A i \in Instance : StreamOK(i)
      BY <3>1, Zenon DEF StreamOK
    <3>3. \A i \in Instance : PostWritesOK(i)
      BY <3>1, Zenon DEF PostWritesOK
    <3> QED BY <3>2, <3>3
  <2>2. SeqNumsUnique
    BY DEF RWInit, Init, SeqNumsUnique
  <2>3. \A k \in Key : KeyStreamOK(k)
    BY DEF RWInit, KeyStreamOK
  <2> QED BY <2>1, <2>2, <2>3 DEF LogOK
<1>3. \A k \in Key : ItemsOK(k)
  BY DEF RWInit, ItemsOK
<1>4. \A e \in Executor : pc[e] = "idle"
  BY DEF RWInit, Init
<1>5. \A i \in Instance : \A j \in DOMAIN Program[i] : ToldOK(i, j)
  BY Programs DEF RWInit, ToldOK
<1> QED BY <1>1, <1>2, <1>3, <1>4, <1>5 DEF RWInv, PastOK
-----------------------------------------------------------------------------
(***************************************************************************)
(* An execution begins, replays what is next in its stream, and ends.      *)
(***************************************************************************)
LEMMA BeginStep == ASSUME RWInv, NEW e \in Executor, Begin(e) PROVE Keeps
<1>1. /\ RWTypeOK /\ InstanceOf[e] \in Instance
      /\ UNCHANGED <<logTail, stream, item, version, keyStream, told>>
  BY DEF RWInv, Begin, Call, dbVars
<1>2. /\ pc' = [pc EXCEPT ![e] = "catch"] /\ env' = [env EXCEPT ![e] = NewEnv]
      /\ fsm' = [fsm EXCEPT ![e] = NewIntentFsm] /\ op' = [op EXCEPT ![e] = FirstOp]
  BY DEF Begin, Call
<1>3. /\ IsIntentFsm(NewIntentFsm) /\ NewEnv \in EnvRecord /\ FirstOp \in OpState
  BY DEF IsIntentFsm, NewIntentFsm, NewEnv, EnvRecord, FirstOp, OpState, Place
<1>4. /\ pc'[e] = "catch" /\ env'[e] = NewEnv /\ fsm'[e] = NewIntentFsm /\ op'[e] = FirstOp
      /\ Others(e)
  BY <1>1, <1>2 DEF RWTypeOK, Others
<1>5. RWTypeOK'
  <2>1. pc' \in [Executor -> PcState]
    BY <1>1, <1>2 DEF RWTypeOK, PcState
  <2>2. env' \in [Executor -> EnvRecord]
    BY <1>1, <1>2, <1>3 DEF RWTypeOK
  <2>3. fsm' = [x \in Executor |-> fsm'[x]] /\ \A x \in Executor : IsIntentFsm(fsm'[x])
    BY <1>1, <1>2, <1>3 DEF RWTypeOK
  <2>4. op' \in [Executor -> OpState]
    BY <1>1, <1>2, <1>3 DEF RWTypeOK
  <2> QED BY <1>1, <2>1, <2>2, <2>3, <2>4 DEF RWTypeOK
<1>6. AliveOK(e)'
  <2> DEFINE i == InstanceOf[e]
  <2>1. Len(stream'[i]) \in Nat
    BY <1>1, <1>5 DEF RWTypeOK
  <2>2. Follows(NewIntentFsm, stream'[i])
    BY <2>1 DEF Follows, NewIntentFsm
  <2>3. op'[e].idx = 1 /\ op'[e].at = "start"
    BY <1>4 DEF FirstOp
  <2>4. env'[e].stepNumber = 0 /\ env'[e].seqNum = CallSeqNum /\ env'[e].exit = FALSE
    BY <1>4 DEF NewEnv
  <2>5. fsm'[e].stepNumber = 0
    BY <1>4 DEF NewIntentFsm
  <2>6. Len(Program[i]) \in Nat
    BY <1>1, Programs
  <2>7. OnTrack(e)'
    BY <1>1, <2>3, <2>4, <2>5, StepsFirst DEF OnTrack, Writing, Cursor
  <2>8. InOpOK(e)'
    BY <2>3 DEF InOpOK, Writing
  <2>9. op'[e].idx <= Len(Program[i]) + 1
    BY <2>3, <2>6
  <2>10. env'[e].seqNum >= CallSeqNum /\ env'[e].stepNumber <= Len(stream'[i])
    BY <2>1, <2>4
  <2> HIDE DEF i
  <2> QED BY <1>4, <2>2, <2>4, <2>7, <2>8, <2>9, <2>10 DEF AliveOK, i
<1>7. PastOK(e)'
  BY <1>4 DEF PastOK
<1>8. NewToldOK
  BY <1>1, ToldAlone
<1> QED BY <1>1, <1>4, <1>5, <1>6, <1>7, <1>8, OwnStep

LEMMA NextStep ==
  ASSUME RWTypeOK, NEW i \in Instance, StreamOK(i), NEW f, f.stepNumber \in Nat,
         Follows(f, stream[i]), NEW k \in 1 .. Len(stream[i]), IsNext(stream[i], f.tail, k)
  PROVE  k = f.stepNumber + 1
<1> DEFINE s == stream[i]
           n == f.stepNumber
<1>1. /\ Len(s) \in Nat /\ n \in Nat /\ k \in Nat
      /\ \A j \in 1 .. Len(s) : s[j].seqNum \in Nat
  BY Entries
<1>2. \A j \in 1 .. Len(s) :
        s[j].seqNum > 0 /\ \A m \in 1 .. j - 1 : s[m].seqNum < s[j].seqNum
  BY <1>1 DEF StreamOK
<1>3. n <= Len(s) /\ f.tail = IF n = 0 THEN 0 ELSE s[n].seqNum
  BY DEF Follows
<1>4. k \in 1 .. Len(s) /\ IsNext(s, f.tail, k)
  OBVIOUS
<1> HIDE DEF n, s
<1>5. ~ k <= n
  <2>1. SUFFICES ASSUME k <= n PROVE FALSE
    OBVIOUS
  <2>2. n # 0 /\ n \in 1 .. Len(s) /\ s[k].seqNum > s[n].seqNum
    BY <1>1, <1>3, <1>4, <2>1 DEF IsNext
  <2>3. CASE k = n
    BY <1>1, <2>2, <2>3
  <2>4. CASE k # n
    <3>1. k \in 1 .. n - 1
      BY <1>1, <1>4, <2>1, <2>4
    <3>2. s[k].seqNum < s[n].seqNum
      BY <1>2, <2>2, <3>1
    <3> QED BY <1>1, <1>4, <2>2, <3>2
  <2> QED BY <2>3, <2>4
<1>6. ~ k > n + 1
  <2>1. SUFFICES ASSUME k > n + 1 PROVE FALSE
    OBVIOUS
  <2>2. n + 1 \in 1 .. Len(s) /\ n + 1 \in 1 .. k - 1
    BY <1>1, <1>4, <2>1
  <2>3. s[n + 1].seqNum <= f.tail /\ s[n + 1].seqNum > 0
    BY <1>2, <1>4, <2>2 DEF IsNext
  <2>4. CASE n = 0
    BY <1>1, <1>3, <2>2, <2>3, <2>4
  <2>5. CASE n # 0
    <3>1. n \in 1 .. (n + 1) - 1 /\ n \in 1 .. Len(s)
      BY <1>1, <1>3, <2>5
    <3>2. s[n].seqNum < s[n + 1].seqNum
      BY <1>2, <2>2, <3>1
    <3> QED BY <1>1, <1>3, <2>2, <2>3, <2>5, <3>1, <3>2
  <2> QED BY <2>4, <2>5
<1>7. k = n + 1
  BY <1>1, <1>5, <1>6
<1> QED BY <1>7 DEF n

\* Applying the step behind a prefix extends the prefix by it.
LEMMA ApplyNext ==
  ASSUME NEW s, Len(s) \in Nat, NEW f, IsIntentFsm(f), Follows(f, s),
         NEW entry \in LogRecord, entry.stepNumber = f.stepNumber,
         f.stepNumber < Len(s), entry = s[f.stepNumber + 1]
  PROVE  /\ ~ NotMonotonic(f, entry)
         /\ IsIntentFsm(applyLog(f, entry))
         /\ Follows(applyLog(f, entry), s)
         /\ applyLog(f, entry).stepNumber = f.stepNumber + 1
<1> DEFINE n == f.stepNumber
<1>1. n \in Nat /\ n \notin DOMAIN f.stepLogs /\ DOMAIN f.stepLogs = 0 .. n - 1
  BY DEF IsIntentFsm, Follows
<1>2. applyLog(f, entry) =
        [stepNumber |-> n + 1, tail |-> entry.seqNum,
         stepLogs |-> [t \in DOMAIN f.stepLogs \cup {n} |->
                         IF t = n THEN entry ELSE f.stepLogs[t]]]
  BY <1>1 DEF applyLog
<1>3. entry.seqNum \in Nat
  BY DEF LogRecord
<1>4. IsIntentFsm(applyLog(f, entry))
  BY <1>1, <1>2, <1>3 DEF IsIntentFsm
<1> DEFINE g == applyLog(f, entry)
<1>5. /\ g.stepNumber = n + 1 /\ g.tail = entry.seqNum
      /\ DOMAIN g.stepLogs = 0 .. n
      /\ g.stepLogs[n] = entry
      /\ \A k \in 0 .. n - 1 : g.stepLogs[k] = f.stepLogs[k]
  BY <1>1, <1>2
<1>6. ~ NotMonotonic(f, entry)
  BY DEF NotMonotonic
<1> HIDE DEF g
<1>7. ASSUME NEW k \in 0 .. n PROVE g.stepLogs[k] = s[k + 1]
  <2>1. CASE k = n
    BY <1>5, <2>1
  <2>2. CASE k # n
    <3>1. k \in 0 .. n - 1
      BY <1>1, <2>2
    <3> QED BY <1>5, <3>1 DEF Follows
  <2> QED BY <2>1, <2>2
<1>8. g.tail = s[n + 1].seqNum
  BY <1>5
<1>9. g.stepNumber <= Len(s) /\ g.stepNumber # 0 /\ g.stepNumber - 1 = n
  BY <1>1, <1>5
<1>10. Follows(g, s)
  BY <1>5, <1>7, <1>8, <1>9 DEF Follows
<1> QED BY <1>4, <1>5, <1>6, <1>10 DEF g

LEMMA CatchNextStep ==
  ASSUME RWInv, NEW e \in Executor, CatchNext(e), UNCHANGED <<dbVars, op, told>>
  PROVE  Keeps
<1> DEFINE i == InstanceOf[e]
           s == stream[i]
<1>1. /\ RWTypeOK /\ pc[e] = "catch" /\ AliveOK(e) /\ i \in Instance /\ StreamOK(i)
      /\ UNCHANGED <<logTail, stream, env, item, version, keyStream, op, told>>
  BY DEF RWInv, LogOK, CatchNext, dbVars
<1>2. PICK k \in 1 .. Len(s) :
        /\ IsNext(s, fsm[e].tail, k)
        /\ fsm' = [fsm EXCEPT ![e] = applyLog(@, s[k])]
        /\ pc' = [pc EXCEPT ![e] = IF NotMonotonic(fsm[e], s[k]) THEN "panic" ELSE "catch"]
  BY DEF CatchNext
<1>3. /\ Len(s) \in Nat /\ s[k] \in LogRecord /\ k \in Nat
      /\ IsIntentFsm(fsm[e]) /\ fsm[e].stepNumber \in Nat /\ Follows(fsm[e], s)
  BY <1>1, Entries, Processes DEF AliveOK
<1>4. k = fsm[e].stepNumber + 1
  BY <1>1, <1>2, <1>3, NextStep
<1>5. s[k].stepNumber = fsm[e].stepNumber
  <2>1. s[k].stepNumber = k - 1
    BY <1>1 DEF StreamOK
  <2> QED BY <1>3, <1>4, <2>1
<1>6. /\ ~ NotMonotonic(fsm[e], s[k])
      /\ IsIntentFsm(applyLog(fsm[e], s[k]))
      /\ Follows(applyLog(fsm[e], s[k]), s)
      /\ applyLog(fsm[e], s[k]).stepNumber = fsm[e].stepNumber + 1
  <2>1. fsm[e].stepNumber < Len(s)
    BY <1>3, <1>4
  <2> HIDE DEF s
  <2> QED BY <1>3, <1>4, <1>5, <2>1, ApplyNext
<1>7. /\ fsm'[e] = applyLog(fsm[e], s[k]) /\ pc'[e] = "catch" /\ Others(e)
  BY <1>1, <1>2, <1>6 DEF RWTypeOK, Others
<1>8. RWTypeOK'
  <2>1. pc' \in [Executor -> PcState]
    BY <1>1, <1>2 DEF RWTypeOK, PcState
  <2>2. fsm' = [x \in Executor |-> fsm'[x]]
    BY <1>1, <1>2 DEF RWTypeOK
  <2>3. \A x \in Executor : IsIntentFsm(fsm'[x])
    BY <1>1, <1>6, <1>7 DEF RWTypeOK, Others
  <2> QED BY <1>1, <2>1, <2>2, <2>3 DEF RWTypeOK
<1>9. AliveOK(e)'
  <2>1. /\ env'[e] = NewEnv /\ op'[e] = FirstOp /\ stream'[i] = s
        /\ env[e] = NewEnv /\ op[e] = FirstOp
    BY <1>1 DEF AliveOK
  <2>2. ~ env[e].exit /\ OnTrack(e) /\ op[e].at = "start" /\ env[e].stepNumber = 0
    BY <1>1, <2>1 DEF AliveOK, NewEnv, FirstOp
  <2>3. OnTrack(e)'
    <3>1. env[e].stepNumber <= fsm'[e].stepNumber
      BY <1>3, <1>6, <1>7, <2>2
    <3>2. Cursor(i, env[e].stepNumber)' = Cursor(i, env[e].stepNumber)
      BY <1>1 DEF Cursor
    <3>3. env' = env /\ op' = op
      BY <1>1
    <3> HIDE DEF i, s
    <3> QED BY <2>2, <3>1, <3>2, <3>3 DEF OnTrack, i
  <2>4. InOpOK(e)'
    BY <1>1, <2>2 DEF InOpOK, Writing
  <2> HIDE DEF s
  <2> QED BY <1>1, <1>6, <1>7, <2>1, <2>2, <2>3, <2>4 DEF AliveOK
<1>10. PastOK(e)'
  BY <1>7 DEF PastOK
<1>11. NewToldOK
  BY <1>1, ToldAlone
<1> QED BY <1>1, <1>7, <1>8, <1>9, <1>10, <1>11, OwnStep

\* Steps that only move the pc.
LEMMA PcStep ==
  ASSUME RWInv, NEW e \in Executor, NEW c \in PcState \ {"catch"}, pc' = [pc EXCEPT ![e] = c],
         UNCHANGED <<logTail, stream, env, fsm, dbVars, op, told>>,
         c = "run" => pc[e] = "catch", PastOK(e)'
  PROVE  Keeps
<1>1. /\ RWTypeOK /\ UNCHANGED <<logTail, stream, env, fsm, item, version, keyStream, op, told>>
  BY DEF RWInv, dbVars
<1>2. pc' \in [Executor -> PcState] /\ pc'[e] = c /\ Others(e)
  BY <1>1 DEF RWTypeOK, Others
<1>3. RWTypeOK'
  BY <1>1, <1>2 DEF RWTypeOK
<1>4. ItemsGrow /\ NewToldOK /\ Typed /\ LogOK
  BY <1>1, <1>3, ItemsAlone, ToldAlone DEF Typed, RWInv
<1>5. Grows
  BY <1>1, <1>4, LogAlone
<1>6. ASSUME pc'[e] \in {"catch", "run"} PROVE AliveOK(e)'
  <2>1. AliveOK(e) /\ LeftAlone(e) /\ pc'[e] # "catch"
    BY <1>1, <1>2, <1>6 DEF RWInv, LeftAlone
  <2> QED BY <1>4, <1>5, <2>1, KeepAlive
<1> QED BY <1>1, <1>2, <1>3, <1>4, <1>6, OwnStep

LEMMA ReplayingStep == ASSUME RWInv, NEW e \in Executor, Replay(e) PROVE Keeps
<1>1. CASE CatchNext(e)
  BY <1>1, CatchNextStep DEF Replay
<1>2. CASE CatchDone(e)
  <2>1. /\ pc[e] = "catch" /\ pc' = [pc EXCEPT ![e] = "run"] /\ AliveOK(e)
        /\ UNCHANGED <<logTail, stream, env, fsm, dbVars, op, told>>
    BY <1>2 DEF RWInv, Replay, CatchDone
  <2>2. op'[e].idx = 1
    BY <2>1 DEF AliveOK, FirstOp
  <2>3. pc'[e] # "done" /\ InstanceOf[e] \in Instance
    BY <2>1 DEF RWInv, RWTypeOK
  <2>4. \A j \in DOMAIN Program[InstanceOf[e]] : ~ j < 1
    BY <2>3, Programs
  <2>5. PastOK(e)'
    BY <2>2, <2>3, <2>4 DEF PastOK
  <2> QED BY <2>1, <2>5, PcStep DEF PcState
<1> QED BY <1>1, <1>2 DEF Replay

LEMMA EndStep == ASSUME RWInv, NEW e \in Executor, End(e) PROVE Keeps
<1>1. /\ pc[e] = "run" /\ ProgramDone(e) /\ pc \in [Executor -> PcState]
      /\ UNCHANGED <<logTail, stream, env, fsm, dbVars, op, told>>
  BY DEF RWInv, RWTypeOK, End
<1>2. PICK c \in {"exit", "done"} : pc' = [pc EXCEPT ![e] = c] /\ (c = "done" => ~ env[e].exit)
  BY DEF End
<1>3. ASSUME c = "done"
      PROVE  \A j \in DOMAIN Program[InstanceOf[e]] :
               IsWrite(InstanceOf[e], j) => WriteOver(InstanceOf[e], j)
  <2> DEFINE i == InstanceOf[e]
  <2>1. ~ env[e].exit /\ op[e].idx > Len(Program[i])
    BY <1>1, <1>2, <1>3 DEF ProgramDone, Returns
  <2>2. i \in Instance /\ op[e].idx \in Nat
    BY Processes DEF RWInv
  <2>3. \A j \in DOMAIN Program[i] : j < op[e].idx
    BY <2>1, <2>2, Programs
  <2> QED BY <1>1, <2>1, <2>3 DEF RWInv, PastOK
<1>4. pc'[e] = c
  BY <1>1, <1>2
<1>5. PastOK(e)'
  <2>1. \A j : WriteOver(InstanceOf[e], j)' = WriteOver(InstanceOf[e], j)
    BY <1>1 DEF WriteOver
  <2> QED BY <1>3, <1>4, <2>1 DEF PastOK
<1> QED BY <1>1, <1>2, <1>5, PcStep DEF PcState

LEMMA DieStep == ASSUME RWInv, NEW e \in Executor, Die(e) PROVE Keeps
<1>1. pc' = [pc EXCEPT ![e] = "idle"] /\ UNCHANGED <<logTail, stream, env, fsm, dbVars, op, told>>
  BY DEF Die, Crash
<1>2. PastOK(e)'
  BY <1>1 DEF RWInv, RWTypeOK, PastOK
<1> QED BY <1>1, <1>2, PcStep DEF PcState

LEMMA FieldMismatchStep == ASSUME RWInv, NEW e \in Executor, FieldMismatch(e) PROVE Keeps
<1>1. /\ pc' = [pc EXCEPT ![e] = "mismatch"]
      /\ UNCHANGED <<logTail, stream, env, fsm, dbVars, op, told>>
  BY DEF FieldMismatch
<1>2. PastOK(e)'
  BY <1>1 DEF RWInv, RWTypeOK, PastOK
<1> QED BY <1>1, <1>2, PcStep DEF PcState
-----------------------------------------------------------------------------
(***************************************************************************)
(* Steps inside an operation that do not touch the log.                    *)
(***************************************************************************)
\* What an execution at an operation is: alive, and in its program.
LEMMA InOpIs ==
  ASSUME RWInv, NEW e \in Executor, NEW kind, NEW at, InOp(e, kind, at)
  PROVE  /\ RWTypeOK /\ LogOK /\ pc[e] = "run" /\ AliveOK(e) /\ PastOK(e)
         /\ InstanceOf[e] \in Instance
         /\ op[e].idx <= Len(Program[InstanceOf[e]])
         /\ op[e].idx \in DOMAIN Program[InstanceOf[e]] /\ op[e].idx \in Nat \ {0}
         /\ Op(e) = Program[InstanceOf[e]][op[e].idx]
         /\ Op(e).key \in Key /\ Op(e).kind = kind /\ op[e].at = at
         /\ kind = "write" => Op(e).val \in Val
<1>1. RWTypeOK /\ op[e].idx <= Len(Program[InstanceOf[e]])
  BY DEF RWInv, InOp
<1>2. pc[e] = "run" /\ Op(e).kind = kind /\ op[e].at = at
  BY DEF InOp
<1>3. AliveOK(e) /\ PastOK(e) /\ LogOK
  BY <1>2 DEF RWInv
<1> QED BY <1>1, <1>2, <1>3, OpIs, Processes

\* The execution moves within its operation, and the log is left alone.
LEMMA WithinOp ==
  ASSUME RWInv, NEW e \in Executor, pc[e] = "run", Grows,
         UNCHANGED <<logTail, stream, keyStream, pc, env, fsm, told>>, RWTypeOK',
         \A x \in Executor \ {e} : op'[x] = op[x],
         op'[e].idx = op[e].idx, ~ env[e].exit => OnTrack(e)', InOpOK(e)', NewItemsOK
  PROVE  Keeps
<1>1. /\ RWTypeOK /\ LogOK /\ AliveOK(e) /\ PastOK(e) /\ Typed /\ InstanceOf[e] \in Instance
  BY DEF RWInv, Typed, RWTypeOK
<1>2. LogOK'
  BY <1>1, LogAlone DEF Grows
<1>3. Others(e) /\ NewToldOK
  BY ToldAlone DEF Others
<1>4. AliveOK(e)'
  BY <1>1 DEF AliveOK
<1>5. PastOK(e)'
  <2>1. \A j \in DOMAIN Program[InstanceOf[e]] :
          WriteOver(InstanceOf[e], j) => WriteOver(InstanceOf[e], j)'
    BY <1>1, KeepOver
  <2> QED BY <1>1, <2>1 DEF PastOK
<1> QED BY <1>1, <1>2, <1>3, <1>4, <1>5, StepOf

LEMMA FindVersionStep == ASSUME RWInv, NEW e \in Executor, FindVersion(e) PROVE Keeps
<1>1. /\ InOp(e, "read", "start") /\ Mode = "WRITELOG"
      /\ UNCHANGED <<logTail, stream, pc, env, fsm, item, version, keyStream, told>>
  BY DEF FindVersion, vars, dbVars
<1>2. /\ RWTypeOK /\ LogOK /\ pc[e] = "run" /\ AliveOK(e) /\ Op(e).kind = "read"
      /\ op[e].at = "start" /\ Op(e).key \in Key
      /\ op[e].idx <= Len(Program[InstanceOf[e]]) /\ op[e] \in OpState
  BY <1>1, InOpIs, Processes
<1>3. PICK v \in Nat : v = VersionAt(Op(e).key, env[e].seqNum)
  BY <1>2, VersionExists
<1>4. op' = [op EXCEPT ![e].ver = v, ![e].at = "versioned"]
  BY <1>3 DEF FindVersion
<1>5. op'[e] = [op[e] EXCEPT !.ver = v, !.at = "versioned"]
      /\ \A x \in Executor \ {e} : op'[x] = op[x]
  BY <1>2, <1>4 DEF RWTypeOK
<1>6. /\ op'[e].idx = op[e].idx /\ op'[e].at = "versioned" /\ op'[e].ver = v
      /\ op'[e] \in OpState
  BY <1>2, <1>5 DEF OpState, Place
<1>7. RWTypeOK'
  <2>1. op' \in [Executor -> OpState]
    BY <1>2, <1>4, <1>5, <1>6 DEF RWTypeOK
  <2> QED BY <1>1, <1>2, <2>1 DEF RWTypeOK
<1>8. ItemsGrow /\ NewItemsOK /\ Grows
  BY <1>1, <1>2, <1>7, ItemsAlone, LogAlone DEF Typed
<1>9. Op(e)' = Op(e)
  BY <1>6 DEF Op
<1>10. ASSUME ~ env[e].exit PROVE OnTrack(e)'
  <2>1. OnTrack(e)
    BY <1>2, <1>10 DEF AliveOK
  <2>2. Cursor(InstanceOf[e], env[e].stepNumber)' = Cursor(InstanceOf[e], env[e].stepNumber)
    BY <1>1 DEF Cursor
  <2>3. VersionAt(Op(e).key, env[e].seqNum)' = v
    BY <1>1, <1>3, <1>9 DEF VersionAt
  <2> QED BY <1>1, <1>2, <1>6, <2>1, <2>2, <2>3 DEF OnTrack, Writing
<1>11. InOpOK(e)'
  BY <1>1, <1>2, <1>6, <1>9 DEF InOpOK, Writing
<1> QED BY <1>1, <1>2, <1>5, <1>6, <1>7, <1>8, <1>10, <1>11, WithinOp

LEMMA FetchItemStep == ASSUME RWInv, NEW e \in Executor, FetchItem(e) PROVE Keeps
<1>1. /\ InOp(e, "read", "start") /\ Mode = "READLOG"
      /\ UNCHANGED <<logTail, stream, pc, env, fsm, item, version, keyStream, told>>
  BY DEF FetchItem, vars, dbVars
<1>2. /\ RWTypeOK /\ LogOK /\ pc[e] = "run" /\ AliveOK(e) /\ Op(e).kind = "read"
      /\ op[e].at = "start" /\ Op(e).key \in Key
      /\ op[e].idx <= Len(Program[InstanceOf[e]]) /\ op[e] \in OpState
  BY <1>1, InOpIs, Processes
<1>3. PICK r \in Val : r = GetItem(Op(e).key, 0)
  BY <1>2 DEF GetItem, RWTypeOK
<1>4. op' = [op EXCEPT ![e].tmp = r, ![e].at = "fetched"]
  BY <1>3 DEF FetchItem
<1>5. op'[e] = [op[e] EXCEPT !.tmp = r, !.at = "fetched"]
      /\ \A x \in Executor \ {e} : op'[x] = op[x]
  BY <1>2, <1>4 DEF RWTypeOK
<1>6. /\ op'[e].idx = op[e].idx /\ op'[e].at = "fetched" /\ op'[e].tmp = r
      /\ op'[e] \in OpState
  BY <1>2, <1>5 DEF OpState, Place
<1>7. RWTypeOK'
  <2>1. op' \in [Executor -> OpState]
    BY <1>2, <1>4, <1>5, <1>6 DEF RWTypeOK
  <2> QED BY <1>1, <1>2, <2>1 DEF RWTypeOK
<1>8. ItemsGrow /\ NewItemsOK /\ Grows
  BY <1>1, <1>2, <1>7, ItemsAlone, LogAlone DEF Typed
<1>9. Op(e)' = Op(e)
  BY <1>6 DEF Op
<1>10. ASSUME ~ env[e].exit PROVE OnTrack(e)'
  <2>1. OnTrack(e)
    BY <1>2, <1>10 DEF AliveOK
  <2>2. Cursor(InstanceOf[e], env[e].stepNumber)' = Cursor(InstanceOf[e], env[e].stepNumber)
    BY <1>1 DEF Cursor
  <2> QED BY <1>1, <1>2, <1>6, <2>1, <2>2 DEF OnTrack, Writing
<1>11. InOpOK(e)'
  BY <1>1, <1>2, <1>6, <1>9 DEF InOpOK, Writing
<1> QED BY <1>1, <1>2, <1>5, <1>6, <1>7, <1>8, <1>10, <1>11, WithinOp

(***************************************************************************)
(* Version v of k that a logged write puts: nobody else's, and repeating   *)
(* the write puts the same data there.                                     *)
(***************************************************************************)
LEMMA SameWrite ==
  ASSUME RWTypeOK, LogOK, NEW k \in Key, NEW v, NEW i \in Instance, NEW j \in DOMAIN Program[i],
         Owns(k, v, i, j), Mode = "WRITELOG",
         NEW m \in Instance, NEW l \in DOMAIN Program[m], IsWrite(m, l),
         StepsBefore(m, l) + 1 <= Len(stream[m]),
         stream[m][StepsBefore(m, l) + 1].seqNum = v
  PROVE  m = i /\ l = j
<1>1. PICK p \in Nat, q \in Nat : p = StepsBefore(i, j) /\ q = StepsBefore(m, l)
  BY Programs, StepsNext
<1>2. IsWrite(i, j) /\ p + 1 <= Len(stream[i]) /\ stream[i][p + 1].seqNum = v
  BY <1>1 DEF Owns
<1>3. p + 1 \in 1 .. Len(stream[i]) /\ q + 1 \in 1 .. Len(stream[m])
  BY <1>1, <1>2, Entries
<1>4. m = i /\ q + 1 = p + 1
  BY <1>1, <1>2, <1>3 DEF LogOK, SeqNumsUnique
<1>5. p = q /\ Logs("write")
  BY <1>1, <1>4 DEF Logs
<1>6. j \in Nat \ {0} /\ l \in Nat \ {0}
  BY Programs
<1> QED BY <1>1, <1>2, <1>4, <1>5, <1>6, StepsDiffer DEF IsWrite

LEMMA PutVersionIs ==
  ASSUME RWTypeOK, NEW k \in Key, NEW v, NEW val \in Val, PutVersion(k, v, val)
  PROVE  /\ DOMAIN item' = Key
         /\ \A x \in Key : 0 \in DOMAIN item'[x] /\ item'[x] \in [DOMAIN item'[x] -> Val]
         /\ DOMAIN item'[k] = DOMAIN item[k] \cup {v} /\ item'[k][v] = val
         /\ \A w \in DOMAIN item[k] : w # v => item'[k][w] = item[k][w]
         /\ \A x \in Key : x # k => item'[x] = item[x]
<1>1. /\ DOMAIN item = Key
      /\ \A x \in Key : 0 \in DOMAIN item[x] /\ item[x] \in [DOMAIN item[x] -> Val]
  BY DEF RWTypeOK
<1> DEFINE f == [w \in DOMAIN item[k] \cup {v} |-> IF w = v THEN val ELSE item[k][w]]
<1>2. item' = [item EXCEPT ![k] = f]
  BY DEF PutVersion
<1>3. /\ f \in [DOMAIN f -> Val] /\ DOMAIN f = DOMAIN item[k] \cup {v} /\ f[v] = val
      /\ \A w \in DOMAIN item[k] : w # v => f[w] = item[k][w]
  BY <1>1
<1> HIDE DEF f
<1>4. DOMAIN item' = Key /\ item'[k] = f /\ \A x \in Key : x # k => item'[x] = item[x]
  BY <1>1, <1>2
<1>5. \A x \in Key : 0 \in DOMAIN item'[x] /\ item'[x] \in [DOMAIN item'[x] -> Val]
  BY <1>1, <1>3, <1>4
<1> QED BY <1>3, <1>4, <1>5

\* Where a write is that has taken its PreWrite step, and its version.
LEMMA Prewritten ==
  ASSUME RWInv, NEW e \in Executor, NEW at \in Writing, InOp(e, "write", at)
  PROVE  LET i == InstanceOf[e]
             p == StepsBefore(i, op[e].idx)
         IN  /\ Mode = "WRITELOG" /\ ~ env[e].exit /\ p \in Nat
             /\ IsWrite(i, op[e].idx) /\ p + 1 <= Len(stream[i])
             /\ env[e].stepNumber = p + 1
             /\ WriteVersion(e) = VersionOf(i, op[e].idx)
             /\ ~ Op(e).dep => WriteVersion(e) = stream[i][p + 1].seqNum /\ WriteVersion(e) # 0
             /\ Op(e).dep => WriteVersion(e) = 0
             /\ WriteVersion(e) \in Nat
<1> DEFINE i == InstanceOf[e]
           p == StepsBefore(i, op[e].idx)
<1>1. /\ RWTypeOK /\ LogOK /\ pc[e] = "run" /\ AliveOK(e) /\ Op(e).kind = "write"
      /\ i \in Instance /\ op[e].at = at /\ Op(e) = Program[i][op[e].idx]
      /\ op[e].idx \in DOMAIN Program[i] /\ op[e].idx \in Nat \ {0}
  BY InOpIs
<1>2. Mode = "WRITELOG" /\ ~ env[e].exit
  BY <1>1 DEF AliveOK, InOpOK
<1>3. OnTrack(e) /\ env[e].stepNumber <= Len(stream[i]) /\ StreamOK(i)
  BY <1>1, <1>2 DEF AliveOK, LogOK
<1>4. p \in Nat /\ env[e].stepNumber \in Nat /\ env[e].seqNum \in Nat /\ Len(stream[i]) \in Nat
  BY <1>1, StepsNext, Processes, Entries
<1>5. env[e].stepNumber = p + 1 /\ env[e].seqNum = Cursor(i, p + 1)
  BY <1>1, <1>3, <1>4 DEF OnTrack
<1>6. p + 1 \in 1 .. Len(stream[i]) /\ p + 1 # 0
  BY <1>3, <1>4, <1>5
<1>7. env[e].seqNum = stream[i][p + 1].seqNum
  BY <1>5, <1>6 DEF Cursor
<1>8. stream[i][p + 1].seqNum > CallSeqNum
  BY <1>3, <1>6 DEF StreamOK
<1>9. env[e].seqNum # 0
  BY <1>4, <1>7, <1>8
<1> QED BY <1>1, <1>2, <1>3, <1>4, <1>5, <1>7, <1>9 DEF WriteVersion, VersionOf, IsWrite

LEMMA WriteItemStep == ASSUME RWInv, NEW e \in Executor, WriteItem(e) PROVE Keeps
<1> DEFINE i == InstanceOf[e]
<1>0. InOp(e, "write", "prewritten") /\ "prewritten" \in Writing
  BY DEF WriteItem, Writing
<1>a. PICK j \in DOMAIN Program[i] : j = op[e].idx
  BY <1>0, InOpIs
<1>b. PICK k \in Key : k = Op(e).key
  BY <1>0, InOpIs
<1>c. PICK v \in Nat : v = WriteVersion(e)
  BY <1>0, Prewritten
<1>d. PICK val \in Val : val = Op(e).val
  BY <1>0, InOpIs
<1> DEFINE p == StepsBefore(i, j)
<1>1. /\ PutVersion(k, v, val)
      /\ UNCHANGED <<logTail, stream, pc, env, fsm, version, keyStream, told>>
  BY <1>b, <1>c, <1>d DEF WriteItem, vars
<1>2. /\ RWTypeOK /\ LogOK /\ pc[e] = "run" /\ AliveOK(e) /\ Op(e).kind = "write"
      /\ op[e].at = "prewritten" /\ op[e] \in OpState
      /\ j <= Len(Program[i]) /\ j \in Nat \ {0}
      /\ i \in Instance /\ Op(e) = Program[i][j]
      /\ Program[i][j].key = k /\ Program[i][j].val = val
  BY <1>0, <1>a, <1>b, <1>d, InOpIs, Processes
<1>3. /\ Mode = "WRITELOG" /\ ~ env[e].exit /\ IsWrite(i, j) /\ p + 1 <= Len(stream[i])
      /\ ~ Op(e).dep => v = stream[i][p + 1].seqNum /\ v # 0
      /\ Op(e).dep => v = 0
      /\ env[e].stepNumber = p + 1 
  BY <1>0, <1>a, <1>c, Prewritten
<1>4. /\ DOMAIN item' = Key
      /\ \A x \in Key : 0 \in DOMAIN item'[x] /\ item'[x] \in [DOMAIN item'[x] -> Val]
      /\ DOMAIN item'[k] = DOMAIN item[k] \cup {v} /\ item'[k][v] = val
      /\ \A w \in DOMAIN item[k] : w # v => item'[k][w] = item[k][w]
      /\ \A x \in Key : x # k => item'[x] = item[x]
  BY <1>1, <1>2, PutVersionIs
<1>5. /\ op' = [op EXCEPT ![e].at = "written"]
      /\ op'[e] = [op[e] EXCEPT !.at = "written"]
      /\ \A x \in Executor \ {e} : op'[x] = op[x]
  BY <1>2 DEF WriteItem, Advance, RWTypeOK
<1>6. op'[e].idx = j /\ op'[e].at = "written" /\ op'[e] \in OpState
  BY <1>2, <1>5, <1>a DEF OpState, Place
<1>7. RWTypeOK'
  <2>1. op' \in [Executor -> OpState]
    BY <1>2, <1>5, <1>6 DEF RWTypeOK
  <2> QED BY <1>1, <1>2, <1>4, <2>1 DEF RWTypeOK
<1>8. v \in DOMAIN item[k] => v = 0 \/ item[k][v] = val
  <2> SUFFICES ASSUME v \in DOMAIN item[k], v # 0 PROVE item[k][v] = val
    OBVIOUS
  <2>1a. PICK m \in Instance : \E l \in DOMAIN Program[m] : Owns(k, v, m, l)
    BY <1>2 DEF RWInv, ItemsOK
  <2>1. PICK l \in DOMAIN Program[m] : Owns(k, v, m, l)
    BY <2>1a
  <2>2. v = stream[i][p + 1].seqNum
    BY <1>2, <1>3, Programs
  <2>3. i = m /\ j = l
    BY <1>2, <1>3, <2>1, <2>2, SameWrite
  <2> QED BY <1>2, <2>1, <2>3 DEF Owns
<1>9. v = 0 => ~ Fixed(k, v)
  BY <1>2, <1>3 DEF Fixed, Plain
<1>10. ItemsGrow
  <2> SUFFICES ASSUME NEW x \in Key
               PROVE  /\ DOMAIN item[x] \subseteq DOMAIN item'[x]
                      /\ \A w \in DOMAIN item[x] : Fixed(x, w) => item'[x][w] = item[x][w]
    BY DEF ItemsGrow
  <2>1. CASE x # k
    BY <1>4, <2>1
  <2>2. CASE x = k
    BY <1>4, <1>8, <1>9, <2>2
  <2> QED BY <2>1, <2>2
<1>11. Grows
  BY <1>1, <1>2, <1>7, <1>10, LogAlone DEF Typed
<1>12. NewItemsOK
  <2> SUFFICES ASSUME NEW x \in Key, NEW w \in DOMAIN item'[x], w \notin DOMAIN item[x]
               PROVE  \E m \in Instance : \E l \in DOMAIN Program[m] : Owns(x, w, m, l)'
    BY <1>3 DEF NewItemsOK
  <2>1. x = k /\ w = v
    BY <1>4
  <2>2. v # 0
    BY <1>2, <2>1 DEF RWTypeOK
  <2>3. v = stream[i][p + 1].seqNum
    BY <1>2, <1>3, <2>2, Programs
  <2>4. Owns(k, v, i, j)'
    BY <1>1, <1>2, <1>3, <1>4, <2>3 DEF Owns
  <2> QED BY <1>2, <2>1, <2>4
<1>13. Op(e)' = Op(e) /\ WriteVersion(e)' = v
  BY <1>1, <1>6, <1>a, <1>c DEF Op, WriteVersion
<1>14. OnTrack(e)'
  <2>1. OnTrack(e)
    BY <1>2, <1>3 DEF AliveOK
  <2>2. Cursor(i, env[e].stepNumber)' = Cursor(i, env[e].stepNumber)
    BY <1>1 DEF Cursor
  <2> QED BY <1>1, <1>2, <1>6, <1>a, <2>1, <2>2 DEF OnTrack, Writing
<1>15. InOpOK(e)'
  BY <1>1, <1>2, <1>3, <1>4, <1>6, <1>13, <1>b DEF InOpOK, Writing
<1> QED BY <1>1, <1>2, <1>5, <1>6, <1>7, <1>11, <1>12, <1>14, <1>15, <1>a, WithinOp
-----------------------------------------------------------------------------
(***************************************************************************)
(* ProposeNextStep: a step is replayed, lost, or appended to the stream.   *)
(***************************************************************************)
\* Where an execution is, whatever operation it is in.
Runs(e) ==
  LET i == InstanceOf[e]
      n == env[e].stepNumber
  IN  /\ Follows(fsm[e], stream[i])
      /\ n <= Len(stream[i])
      /\ env[e].seqNum >= CallSeqNum
      /\ env[e].exit => n > fsm[e].stepNumber
      /\ ~ env[e].exit => n <= fsm[e].stepNumber /\ env[e].seqNum = Cursor(i, n)

LEMMA AliveRuns == ASSUME NEW e \in Executor, AliveOK(e) PROVE Runs(e)
BY DEF AliveOK, OnTrack, Runs

\* The process proposed a step, and the others did nothing.
EnvMoves(e) ==
  /\ env' \in [Executor -> EnvRecord]
  /\ env'[e].stepNumber = env[e].stepNumber + 1
  /\ \A x \in Executor : x # e => env'[x] = env[x]

LEMMA ReplayIs ==
  ASSUME RWTypeOK, NEW e \in Executor, StreamOK(InstanceOf[e]), AliveOK(e), ReplayStep(e)
  PROVE  /\ Runs(e)' /\ EnvMoves(e) /\ ~ env[e].exit /\ ~ env'[e].exit
         /\ env[e].stepNumber + 1 <= Len(stream[InstanceOf[e]])
         /\ NextLog(e) = stream[InstanceOf[e]][env[e].stepNumber + 1].data
         /\ UNCHANGED <<logTail, stream, pc, fsm>>
<1> DEFINE i == InstanceOf[e]
           s == stream[i]
<1>1. /\ i \in Instance /\ env[e] \in EnvRecord /\ fsm[e].stepNumber \in Nat
      /\ Len(s) \in Nat /\ env \in [Executor -> EnvRecord]
      /\ \A k \in 1 .. Len(s) : s[k].seqNum \in Nat
  BY Processes, Entries DEF RWTypeOK
<1>2. PICK n \in Nat : n = env[e].stepNumber
  BY Processes
<1>3. /\ Follows(fsm[e], s) /\ n \in DOMAIN fsm[e].stepLogs
      /\ env' = [env EXCEPT ![e].stepNumber = n + 1, ![e].seqNum = fsm[e].stepLogs[n].seqNum]
      /\ UNCHANGED <<logTail, stream, pc, fsm>>
  BY <1>2 DEF AliveOK, ReplayStep
<1>4. n \in 0 .. fsm[e].stepNumber - 1 /\ fsm[e].stepLogs[n] = s[n + 1] /\ fsm[e].stepNumber <= Len(s)
  BY <1>3 DEF Follows
<1>5. ~ env[e].exit
  BY <1>1, <1>2, <1>4 DEF AliveOK
<1> HIDE DEF s
<1>6. n + 1 \in 1 .. Len(s) /\ n + 1 <= fsm[e].stepNumber /\ n + 1 \in Nat \ {0}
  BY <1>1, <1>4
<1>7. PICK c \in Nat : c = s[n + 1].seqNum
  BY <1>1, <1>6
<1>8. env' = [env EXCEPT ![e].stepNumber = n + 1, ![e].seqNum = c]
  BY <1>3, <1>4, <1>7
<1>9. /\ env'[e] = [env[e] EXCEPT !.stepNumber = n + 1, !.seqNum = c]
      /\ \A x \in Executor : x # e => env'[x] = env[x]
  BY <1>1, <1>8
<1>10. /\ env'[e] \in EnvRecord /\ env'[e].stepNumber = n + 1 /\ env'[e].seqNum = c
       /\ env'[e].exit = env[e].exit
  BY <1>1, <1>6, <1>9 DEF EnvRecord
<1>11. EnvMoves(e)
  BY <1>1, <1>2, <1>8, <1>9, <1>10 DEF EnvMoves
<1>12. c >= CallSeqNum /\ c = Cursor(i, n + 1)
  <2>1. c = Cursor(i, n + 1)
    BY <1>6, <1>7 DEF Cursor, s
  <2>2. n + 1 <= Len(stream[i])
    BY <1>6 DEF s
  <2> QED BY <1>1, <1>6, <2>1, <2>2, CursorIs
<1>13. Cursor(i, n + 1)' = Cursor(i, n + 1)
  BY <1>3 DEF Cursor
<1>14. Runs(e)'
  <2>1. n + 1 <= Len(s)
    BY <1>6
  <2> QED BY <1>3, <1>5, <1>6, <1>10, <1>12, <1>13, <2>1 DEF Runs, s
<1>15. NextLog(e) = s[n + 1].data /\ n + 1 <= Len(s)
  BY <1>2, <1>4, <1>6 DEF NextLog
<1> QED BY <1>2, <1>3, <1>5, <1>10, <1>11, <1>14, <1>15 DEF s

LEMMA LoseIs ==
  ASSUME RWTypeOK, NEW e \in Executor, AliveOK(e), LoseStep(e)
  PROVE  /\ Runs(e)' /\ EnvMoves(e) /\ env'[e].exit
         /\ UNCHANGED <<logTail, stream, pc, fsm>>
<1> DEFINE i == InstanceOf[e]
           s == stream[i]
<1>1. /\ i \in Instance /\ env[e] \in EnvRecord /\ fsm[e].stepNumber \in Nat
      /\ Len(s) \in Nat /\ env \in [Executor -> EnvRecord]
  BY Processes, Entries DEF RWTypeOK
<1>2. PICK n \in Nat : n = env[e].stepNumber
  BY Processes
<1>3. /\ Follows(fsm[e], s) /\ n \notin DOMAIN fsm[e].stepLogs /\ ~ Len(s) <= n
      /\ env' = [env EXCEPT ![e].stepNumber = n + 1, ![e].exit = TRUE]
      /\ UNCHANGED <<logTail, stream, pc, fsm>>
  BY <1>2 DEF AliveOK, LoseStep, CondOK
<1>4. n >= fsm[e].stepNumber
  BY <1>1, <1>3 DEF Follows
<1> HIDE DEF s
<1>5. n + 1 \in Nat /\ n + 1 > fsm[e].stepNumber /\ n + 1 <= Len(s)
  BY <1>1, <1>3, <1>4
<1>6. /\ env'[e] = [env[e] EXCEPT !.stepNumber = n + 1, !.exit = TRUE]
      /\ \A x \in Executor : x # e => env'[x] = env[x]
  BY <1>1, <1>3
<1>7. /\ env'[e] \in EnvRecord /\ env'[e].stepNumber = n + 1 /\ env'[e].seqNum = env[e].seqNum
      /\ env'[e].exit
  BY <1>1, <1>5, <1>6 DEF EnvRecord
<1>8. EnvMoves(e)
  BY <1>1, <1>2, <1>3, <1>6, <1>7 DEF EnvMoves
<1>9. Runs(e)'
  BY <1>3, <1>5, <1>7 DEF Runs, AliveOK, s
<1> QED BY <1>3, <1>7, <1>8, <1>9

(***************************************************************************)
(* Entry is now the last of the stream of i.                               *)
(***************************************************************************)
Added(i, entry) ==
  /\ entry \in LogRecord /\ entry.seqNum = logTail + 1 /\ logTail' = logTail + 1
  /\ entry.stepNumber = Len(stream[i])
  /\ Mode = "READLOG" => entry.data.type = "PostRead" /\ entry.data.result \in Val
  /\ Len(stream'[i]) = Len(stream[i]) + 1
  /\ stream'[i][Len(stream[i]) + 1] = entry
  /\ \A n \in 1 .. Len(stream[i]) : stream'[i][n] = stream[i][n]
  /\ \A m \in Instance : m # i => stream'[m] = stream[m]

LEMMA AppendIs ==
  ASSUME RWTypeOK, NEW e \in Executor, AliveOK(e), NEW d \in LogData,
         AppendOK(e, Proposal(e, d)),
         Mode = "READLOG" => d.type = "PostRead" /\ d.result \in Val
  PROVE  /\ Added(InstanceOf[e], Proposal(e, d))
         /\ env[e].stepNumber = Len(stream[InstanceOf[e]])
         /\ logTail' \in Nat /\ logTail' >= CallSeqNum
         /\ stream' \in [Instance -> Seq(LogRecord)]
         /\ fsm' = [fsm EXCEPT ![e] = applyLog(fsm[e], Proposal(e, d))]
<1> DEFINE i == InstanceOf[e]
<1>1. /\ i \in Instance /\ stream[i] \in Seq(LogRecord) /\ Len(stream[i]) \in Nat
      /\ env[e].stepNumber \in Nat /\ logTail \in Nat /\ logTail >= CallSeqNum
      /\ stream \in [Instance -> Seq(LogRecord)]
  BY Processes, Entries DEF RWTypeOK
<1>2. PICK entry : entry = Proposal(e, d)
  OBVIOUS
<1>3. /\ entry.seqNum = logTail + 1 /\ entry.stepNumber = env[e].stepNumber /\ entry.data = d
      /\ entry \in LogRecord
  <2>1. entry = [seqNum |-> logTail + 1, stepNumber |-> env[e].stepNumber, data |-> d]
    BY <1>2 DEF Proposal
  <2>2. logTail + 1 \in Nat
    BY <1>1
  <2> QED BY <1>1, <2>1, <2>2 DEF LogRecord
<1>4. /\ Len(stream[i]) <= env[e].stepNumber /\ env[e].stepNumber <= Len(stream[i])
      /\ logTail' = entry.seqNum /\ stream' = [stream EXCEPT ![i] = Append(@, entry)]
      /\ fsm' = [fsm EXCEPT ![e] = applyLog(fsm[e], entry)]
  BY <1>2, <1>3 DEF AliveOK, AppendOK, CondOK
<1>5. env[e].stepNumber = Len(stream[i])
  BY <1>1, <1>4
<1>6. /\ stream'[i] = Append(stream[i], entry)
      /\ \A m \in Instance : m # i => stream'[m] = stream[m]
  BY <1>1, <1>4
<1>7. /\ Append(stream[i], entry) \in Seq(LogRecord)
      /\ Len(Append(stream[i], entry)) = Len(stream[i]) + 1
      /\ Append(stream[i], entry)[Len(stream[i]) + 1] = entry
      /\ \A n \in 1 .. Len(stream[i]) : Append(stream[i], entry)[n] = stream[i][n]
  BY <1>1, <1>3
<1>8. stream' \in [Instance -> Seq(LogRecord)]
  BY <1>1, <1>4, <1>7
<1>9. logTail' \in Nat /\ logTail' >= CallSeqNum
  BY <1>1, <1>3, <1>4
<1>10. Added(i, entry)
  BY <1>3, <1>4, <1>5, <1>6, <1>7 DEF Added
<1> QED BY <1>2, <1>4, <1>5, <1>8, <1>9, <1>10

LEMMA AppendRuns ==
  ASSUME RWTypeOK, NEW e \in Executor, AliveOK(e), NEW d \in LogData, AppendStep(e, d),
         Mode = "READLOG" => d.type = "PostRead" /\ d.result \in Val
  PROVE  /\ Added(InstanceOf[e], Proposal(e, d))
         /\ env[e].stepNumber = Len(stream[InstanceOf[e]])
         /\ logTail' \in Nat /\ logTail' >= CallSeqNum
         /\ stream' \in [Instance -> Seq(LogRecord)]
         /\ fsm' = [x \in Executor |-> fsm'[x]] /\ \A x \in Executor : IsIntentFsm(fsm'[x])
         /\ \A x \in Executor : x # e => fsm'[x] = fsm[x]
         /\ pc' = pc
         /\ Runs(e)' /\ EnvMoves(e) /\ ~ env[e].exit /\ ~ env'[e].exit
<1> DEFINE i == InstanceOf[e]
<1>1. AppendOK(e, Proposal(e, d)) /\ ~ NotMonotonic(fsm[e], Proposal(e, d)) /\ pc' = pc
  BY DEF AppendStep
<1>2. /\ Added(i, Proposal(e, d)) /\ env[e].stepNumber = Len(stream[i])
      /\ logTail' \in Nat /\ logTail' >= CallSeqNum
      /\ stream' \in [Instance -> Seq(LogRecord)]
      /\ fsm' = [fsm EXCEPT ![e] = applyLog(fsm[e], Proposal(e, d))]
  BY <1>1, AppendIs
<1>3. PICK n \in Nat : n = env[e].stepNumber
  BY Processes
<1>4. PICK entry \in LogRecord : entry = Proposal(e, d)
  BY <1>2 DEF Added
<1>5. /\ entry.stepNumber = n /\ n = Len(stream[i]) /\ entry.seqNum = logTail'
      /\ Len(stream'[i]) = n + 1 /\ stream'[i][n + 1] = entry
      /\ \A m \in 1 .. n : stream'[i][m] = stream[i][m]
  BY <1>2, <1>3, <1>4 DEF Added
<1>6. /\ IsIntentFsm(fsm[e]) /\ fsm[e].stepNumber \in Nat /\ Follows(fsm[e], stream[i])
      /\ fsm = [x \in Executor |-> fsm[x]] /\ \A x \in Executor : IsIntentFsm(fsm[x])
      /\ env[e] \in EnvRecord /\ env \in [Executor -> EnvRecord]
  BY Processes DEF RWTypeOK, AliveOK
<1>7. n = fsm[e].stepNumber /\ ~ env[e].exit
  <2>1. n \notin DOMAIN fsm[e].stepLogs
    BY <1>1, <1>4, <1>5 DEF AppendOK
  <2>2. n = fsm[e].stepNumber
    BY <1>1, <1>4, <1>5, <2>1 DEF NotMonotonic
  <2> QED BY <1>3, <2>2 DEF AliveOK
<1>8. Follows(fsm[e], stream'[i])
  <2>1. Len(stream[i]) \in Nat /\ Len(stream'[i]) \in Nat /\ Len(stream[i]) <= Len(stream'[i])
    BY <1>3, <1>5
  <2> HIDE DEF i
  <2> QED BY <1>5, <1>6, <2>1, FollowsLonger
<1>9. /\ IsIntentFsm(applyLog(fsm[e], entry))
      /\ Follows(applyLog(fsm[e], entry), stream'[i])
      /\ applyLog(fsm[e], entry).stepNumber = n + 1
  <2>1. Len(stream'[i]) \in Nat /\ fsm[e].stepNumber < Len(stream'[i])
    BY <1>3, <1>5, <1>7
  <2>2. entry.stepNumber = fsm[e].stepNumber /\ entry = stream'[i][fsm[e].stepNumber + 1]
    BY <1>5, <1>7
  <2>3. PICK s : s = stream'[i]
    OBVIOUS
  <2>4. /\ IsIntentFsm(applyLog(fsm[e], entry)) /\ Follows(applyLog(fsm[e], entry), s)
        /\ applyLog(fsm[e], entry).stepNumber = fsm[e].stepNumber + 1
    BY <1>6, <1>8, <2>1, <2>2, <2>3, ApplyNext
  <2> QED BY <1>7, <2>3, <2>4
<1>10. /\ fsm' = [fsm EXCEPT ![e] = applyLog(fsm[e], entry)]
       /\ fsm'[e] = applyLog(fsm[e], entry)
       /\ fsm' = [x \in Executor |-> fsm'[x]]
       /\ \A x \in Executor : x # e => fsm'[x] = fsm[x]
  BY <1>2, <1>4, <1>6
<1>11. \A x \in Executor : IsIntentFsm(fsm'[x])
  BY <1>6, <1>9, <1>10
<1>12. PICK c \in Nat : c = entry.seqNum
  BY DEF LogRecord
<1>13. env' = [env EXCEPT ![e].stepNumber = n + 1, ![e].seqNum = c]
  BY <1>3, <1>4, <1>6, <1>12 DEF AppendStep
<1>14. /\ env'[e] = [env[e] EXCEPT !.stepNumber = n + 1, !.seqNum = c]
       /\ \A x \in Executor : x # e => env'[x] = env[x]
  BY <1>6, <1>13
<1>15. n + 1 \in Nat /\ n + 1 # 0
  BY <1>3
<1>16. /\ env'[e] \in EnvRecord /\ env'[e].stepNumber = n + 1 /\ env'[e].seqNum = c
       /\ env'[e].exit = env[e].exit
  BY <1>6, <1>14, <1>15 DEF EnvRecord
<1>17. EnvMoves(e)
  BY <1>3, <1>6, <1>13, <1>14, <1>16 DEF EnvMoves
<1>18. c = Cursor(i, n + 1)' /\ c >= CallSeqNum
  BY <1>2, <1>5, <1>12, <1>15 DEF Cursor
<1>19. Runs(e)'
  <2>1. n + 1 <= n + 1
    OBVIOUS
  <2> QED BY <1>5, <1>7, <1>9, <1>10, <1>16, <1>18, <2>1 DEF Runs
<1> QED BY <1>1, <1>2, <1>7, <1>10, <1>11, <1>16, <1>17, <1>19

\* The stream of i, and every other, is as it was up to the new entry.
LEMMA AddedStreams ==
  ASSUME Typed, LogOK, NEW i \in Instance, NEW entry, Added(i, entry)
  PROVE  /\ logTail <= logTail'
         /\ \A m \in Instance :
              /\ StreamOK(m)'
              /\ Len(stream[m]) <= Len(stream'[m])
              /\ \A n \in 1 .. Len(stream[m]) : stream'[m][n] = stream[m][n]
         /\ SeqNumsUnique'
<1>1. /\ logTail \in Nat /\ logTail' = logTail + 1 /\ logTail >= CallSeqNum
      /\ entry.seqNum = logTail + 1 /\ entry.seqNum \in Nat /\ entry.stepNumber = Len(stream[i])
  BY DEF Typed, RWTypeOK, Added
<1>2. \A m \in Instance : Len(stream[m]) \in Nat /\ StreamOK(m)
  BY Entries DEF Typed, LogOK
<1>3. \A m \in Instance : \A n \in 1 .. Len(stream[m]) :
        stream[m][n].seqNum \in Nat /\ stream[m][n].seqNum <= logTail
  BY Entries DEF Typed, LogOK, StreamOK
<1>4. /\ Len(stream'[i]) = Len(stream[i]) + 1 /\ stream'[i][Len(stream[i]) + 1] = entry
      /\ \A n \in 1 .. Len(stream[i]) : stream'[i][n] = stream[i][n]
      /\ \A m \in Instance : m # i => stream'[m] = stream[m]
  BY DEF Added
<1>5. ASSUME NEW m \in Instance, NEW k \in 1 .. Len(stream'[m])
      PROVE  \/ k \in 1 .. Len(stream[m]) /\ stream'[m][k] = stream[m][k]
             \/ m = i /\ k = Len(stream[i]) + 1 /\ stream'[m][k] = entry
  BY <1>2, <1>4
<1>6. ASSUME NEW m \in Instance PROVE StreamOK(m)'
  <2> SUFFICES ASSUME NEW k \in 1 .. Len(stream'[m])
               PROVE  /\ stream'[m][k].stepNumber = k - 1
                      /\ stream'[m][k].seqNum > CallSeqNum /\ stream'[m][k].seqNum <= logTail'
                      /\ \A j \in 1 .. k - 1 : stream'[m][j].seqNum < stream'[m][k].seqNum
                      /\ Mode = "READLOG" => /\ stream'[m][k].data.type = "PostRead"
                                             /\ stream'[m][k].data.result \in Val
    BY DEF StreamOK
  <2>1. CASE k \in 1 .. Len(stream[m]) /\ stream'[m][k] = stream[m][k]
    <3>1. \A j \in 1 .. k - 1 : j \in 1 .. Len(stream[m]) /\ stream'[m][j] = stream[m][j]
      BY <1>2, <1>4, <2>1
    <3>2. \A j \in 1 .. k - 1 : stream[m][j].seqNum < stream[m][k].seqNum
      BY <1>2, <2>1 DEF StreamOK
    <3>3. stream[m][k].seqNum <= logTail'
      BY <1>1, <1>3, <2>1
    <3> QED BY <1>2, <2>1, <3>1, <3>2, <3>3 DEF StreamOK
  <2>2. CASE m = i /\ k = Len(stream[i]) + 1 /\ stream'[m][k] = entry
    <3>1. k - 1 = Len(stream[i])
      BY <1>2, <2>2
    <3>2. ASSUME NEW j \in 1 .. k - 1 PROVE stream'[m][j].seqNum < entry.seqNum
      <4>1. j \in 1 .. Len(stream[i]) /\ stream'[m][j] = stream[i][j]
        BY <1>4, <2>2, <3>1
      <4>2. stream[i][j].seqNum \in Nat /\ stream[i][j].seqNum <= logTail
        BY <1>3, <4>1
      <4> QED BY <1>1, <4>1, <4>2
    <3>3. Mode = "READLOG" => entry.data.type = "PostRead" /\ entry.data.result \in Val
      BY DEF Added
    <3> QED BY <1>1, <2>2, <3>1, <3>2, <3>3
  <2> QED BY <1>5, <2>1, <2>2
<1>7. SeqNumsUnique'
  <2> SUFFICES ASSUME NEW m \in Instance, NEW n \in Instance,
                      NEW k \in 1 .. Len(stream'[m]), NEW l \in 1 .. Len(stream'[n]),
                      stream'[m][k].seqNum = stream'[n][l].seqNum
               PROVE  m = n /\ k = l
    BY DEF SeqNumsUnique
  <2>1. CASE /\ k \in 1 .. Len(stream[m]) /\ stream'[m][k] = stream[m][k]
             /\ l \in 1 .. Len(stream[n]) /\ stream'[n][l] = stream[n][l]
    BY <2>1 DEF LogOK, SeqNumsUnique
  <2>2. CASE stream'[m][k] = entry /\ stream'[n][l] # entry
    <3>1. l \in 1 .. Len(stream[n]) /\ stream'[n][l] = stream[n][l]
      BY <1>5, <2>2
    <3> QED BY <1>1, <1>3, <2>2, <3>1
  <2>3. CASE stream'[m][k] # entry /\ stream'[n][l] = entry
    <3>1. k \in 1 .. Len(stream[m]) /\ stream'[m][k] = stream[m][k]
      BY <1>5, <2>3
    <3> QED BY <1>1, <1>3, <2>3, <3>1
  <2>4. CASE stream'[m][k] = entry /\ stream'[n][l] = entry
    <3>1. ~ (k \in 1 .. Len(stream[m]) /\ stream'[m][k] = stream[m][k])
      BY <1>1, <1>3, <2>4
    <3>2. ~ (l \in 1 .. Len(stream[n]) /\ stream'[n][l] = stream[n][l])
      BY <1>1, <1>3, <2>4
    <3>3. m = i /\ k = Len(stream[i]) + 1
      BY <1>5, <3>1
    <3>4. n = i /\ l = Len(stream[i]) + 1
      BY <1>5, <3>2
    <3> QED BY <3>3, <3>4
  <2> QED BY <1>5, <2>1, <2>2, <2>3, <2>4
<1>8. \A m \in Instance :
        /\ Len(stream[m]) <= Len(stream'[m])
        /\ \A n \in 1 .. Len(stream[m]) : stream'[m][n] = stream[m][n]
  BY <1>2, <1>4
<1> QED BY <1>1, <1>6, <1>7, <1>8

\* A step that is not a PostWrite.
LEMMA LogAppended ==
  ASSUME Typed, LogOK, NEW i \in Instance, NEW entry, Added(i, entry),
         entry.data.type # "PostWrite", UNCHANGED <<keyStream, item>>
  PROVE  Grows /\ LogOK'
<1>1. /\ logTail <= logTail' /\ logTail \in Nat /\ logTail' \in Nat
      /\ \A k \in Key : Len(keyStream[k]) \in Nat
  BY AddedStreams DEF Typed, RWTypeOK
<1>2. Grows
  <2>1. LogGrows
    BY <1>1, AddedStreams DEF LogGrows
  <2> QED BY <2>1, ItemsAlone DEF Grows
<1>3. ASSUME NEW m \in Instance PROVE PostWritesOK(m)'
  <2> SUFFICES ASSUME NEW q \in 1 .. Len(stream'[m]), stream'[m][q].data.type = "PostWrite"
               PROVE  \E n \in 1 .. Len(keyStream[stream'[m][q].data.key]) :
                        keyStream[stream'[m][q].data.key][n].seqNum = stream'[m][q].seqNum
    BY DEF PostWritesOK
  <2>1. q \in 1 .. Len(stream[m]) /\ stream'[m][q] = stream[m][q]
    <3>1. PICK n \in Nat : n = Len(stream[i])
      BY Entries DEF Typed
    <3>2. CASE m # i
      BY <3>2 DEF Added
    <3>3. CASE m = i
      <4>1. Len(stream'[i]) = n + 1 /\ q \in 1 .. n + 1
        BY <3>1, <3>3 DEF Added
      <4>2. q # n + 1
        BY <3>1, <3>3 DEF Added
      <4>3. q \in 1 .. n
        BY <4>1, <4>2
      <4> QED BY <3>1, <3>3, <4>3 DEF Added
    <3> QED BY <3>2, <3>3
  <2> QED BY <2>1, ZenonT(40) DEF LogOK, PostWritesOK
<1>4. ASSUME NEW k \in Key PROVE KeyStreamOK(k)'
  <2> SUFFICES ASSUME NEW n \in 1 .. Len(keyStream[k])
               PROVE  /\ Mode = "WRITELOG"
                      /\ keyStream[k][n].seqNum > CallSeqNum /\ keyStream[k][n].seqNum <= logTail'
                      /\ \A m \in 1 .. n - 1 : keyStream[k][m].seqNum < keyStream[k][n].seqNum
                      /\ \E m \in Instance : \E j \in DOMAIN Program[m] : Published(k, n, m, j)'
    BY DEF KeyStreamOK
  <2>1. /\ Mode = "WRITELOG"
        /\ keyStream[k][n].seqNum > CallSeqNum /\ keyStream[k][n].seqNum <= logTail
        /\ \A m \in 1 .. n - 1 : keyStream[k][m].seqNum < keyStream[k][n].seqNum
    BY DEF LogOK, KeyStreamOK
  <2>2. keyStream[k][n].seqNum \in Nat
    BY KeyEntries DEF Typed
  <2>3. keyStream[k][n].seqNum <= logTail'
    BY <1>1, <2>1, <2>2
  <2>4. PICK m \in Instance : \E j \in DOMAIN Program[m] : Published(k, n, m, j)
    BY DEF LogOK, KeyStreamOK
  <2>5. PICK j \in DOMAIN Program[m] : Published(k, n, m, j)
    BY <2>4
  <2>6. Published(k, n, m, j)'
    BY <1>2, <2>5, KeepPublished
  <2> QED BY <2>1, <2>3, <2>6
<1> QED BY <1>2, <1>3, <1>4, AddedStreams DEF LogOK

\* A PostWrite step, which also goes to the stream of its key.
LEMMA PostWriteAdded ==
  ASSUME Typed, LogOK, Mode = "WRITELOG", item' = item,
         NEW i \in Instance, NEW entry, Added(i, entry),
         NEW j \in DOMAIN Program[i], IsWrite(i, j), NEW k \in Key, Program[i][j].key = k,
         entry.data.type = "PostWrite", entry.data.key = k,
         StepsBefore(i, j) + 1 = Len(stream[i]),
         NEW r \in VersionRecord, r.seqNum = logTail + 1,
         r.version = VersionOf(i, j), r.version \in DOMAIN item[k],
         keyStream' = [keyStream EXCEPT ![k] = Append(keyStream[k], r)]
  PROVE  Grows /\ LogOK'
<1>1. /\ logTail <= logTail' /\ logTail \in Nat /\ logTail' \in Nat /\ logTail' = logTail + 1
      /\ logTail >= CallSeqNum
  BY AddedStreams DEF Typed, RWTypeOK, Added
<1>2. \A x \in Key :
        /\ keyStream[x] \in Seq(VersionRecord) /\ Len(keyStream[x]) \in Nat
        /\ \A n \in 1 .. Len(keyStream[x]) : keyStream[x][n].seqNum \in Nat
  BY KeyEntries DEF Typed
<1>3. PICK t \in Nat : t = Len(keyStream[k])
  BY <1>2
<1>4. /\ keyStream'[k] = Append(keyStream[k], r)
      /\ \A x \in Key : x # k => keyStream'[x] = keyStream[x]
  BY DEF Typed, RWTypeOK
<1>5. /\ Len(keyStream'[k]) = t + 1 /\ keyStream'[k][t + 1] = r
      /\ \A n \in 1 .. t : keyStream'[k][n] = keyStream[k][n]
  BY <1>2, <1>3, <1>4
<1>6. \A x \in Key :
        /\ \A n \in 1 .. Len(keyStream[x]) : keyStream[x][n].seqNum > CallSeqNum
        /\ \A n \in 1 .. Len(keyStream[x]) : keyStream[x][n].seqNum <= logTail
        /\ \A n \in 1 .. Len(keyStream[x]) : \A m \in 1 .. n - 1 :
             keyStream[x][m].seqNum < keyStream[x][n].seqNum
  BY DEF LogOK, KeyStreamOK
<1>7. Grows
  <2>1. \A x \in Key :
          /\ Len(keyStream[x]) <= Len(keyStream'[x])
          /\ \A n \in 1 .. Len(keyStream[x]) : keyStream'[x][n] = keyStream[x][n]
          /\ \A n \in 1 .. Len(keyStream'[x]) :
               n > Len(keyStream[x]) => keyStream'[x][n].seqNum > logTail
    <3> SUFFICES ASSUME NEW x \in Key
                 PROVE  /\ Len(keyStream[x]) <= Len(keyStream'[x])
                        /\ \A n \in 1 .. Len(keyStream[x]) : keyStream'[x][n] = keyStream[x][n]
                        /\ \A n \in 1 .. Len(keyStream'[x]) :
                             n > Len(keyStream[x]) => keyStream'[x][n].seqNum > logTail
      OBVIOUS
    <3>1. CASE x # k
      BY <1>2, <1>4, <3>1
    <3>2. CASE x = k
      BY <1>1, <1>3, <1>5, <3>2
    <3> QED BY <3>1, <3>2
  <2>2. LogGrows
    BY <1>1, <2>1, AddedStreams DEF LogGrows
  <2> QED BY <2>2, ItemsAlone DEF Grows
<1>8. PICK q \in Nat : q = Len(stream[i])
  BY Entries DEF Typed
<1>9. /\ Len(stream'[i]) = q + 1 /\ stream'[i][q + 1] = entry /\ entry.seqNum = logTail + 1
      /\ \A n \in 1 .. q : stream'[i][n] = stream[i][n]
      /\ \A m \in Instance : m # i => stream'[m] = stream[m]
  BY <1>8 DEF Added
<1>10. ASSUME NEW m \in Instance PROVE PostWritesOK(m)'
  <2> SUFFICES ASSUME NEW x \in 1 .. Len(stream'[m]), stream'[m][x].data.type = "PostWrite"
               PROVE  \E n \in 1 .. Len(keyStream'[stream'[m][x].data.key]) :
                        keyStream'[stream'[m][x].data.key][n].seqNum = stream'[m][x].seqNum
    BY DEF PostWritesOK
  <2>1. CASE x \in 1 .. Len(stream[m]) /\ stream'[m][x] = stream[m][x]
    <3>1. PICK n \in 1 .. Len(keyStream[stream[m][x].data.key]) :
            keyStream[stream[m][x].data.key][n].seqNum = stream[m][x].seqNum
      BY <2>1 DEF LogOK, PostWritesOK
    <3>2. PICK y : y = stream[m][x].data.key
      OBVIOUS
    <3>3. n \in 1 .. Len(keyStream'[y]) /\ keyStream'[y][n] = keyStream[y][n]
      <4>1. CASE y = k
        BY <1>3, <1>5, <3>1, <3>2, <4>1
      <4>2. CASE y # k
        <5>1. keyStream'[y] = keyStream[y]
          <6>1. stream[m][x].data \in LogData
            BY <2>1, Entries DEF Typed
          <6>2. y \in Key
            BY <3>2, <6>1 DEF LogData
          <6> QED BY <1>4, <4>2, <6>2
        <5> QED BY <3>1, <3>2, <5>1
      <4> QED BY <4>1, <4>2
    <3> QED BY <2>1, <3>1, <3>2, <3>3
  <2>2. CASE m = i /\ stream'[m][x] = entry
    <3>1. t + 1 \in 1 .. Len(keyStream'[k]) /\ keyStream'[k][t + 1].seqNum = entry.seqNum
      BY <1>3, <1>5, <1>9
    <3> QED BY <2>2, <3>1
  <2>3. \/ x \in 1 .. Len(stream[m]) /\ stream'[m][x] = stream[m][x]
        \/ m = i /\ stream'[m][x] = entry
    BY <1>8, <1>9
  <2> QED BY <2>1, <2>2, <2>3
<1>11. Published(k, t + 1, i, j)'
  <2>1. PICK p \in Nat : p = StepsBefore(i, j)
    BY Programs, StepsNext
  <2>2. q = p + 1 /\ p + 2 = q + 1
    BY <1>8, <2>1
  <2>3. p + 2 <= Len(stream'[i]) /\ stream'[i][p + 2].seqNum = logTail + 1
    BY <1>9, <2>2
  <2>4. VersionOf(i, j)' = VersionOf(i, j)
    <3>1. StepsBefore(i, j) + 1 <= Len(stream[i])
      BY <1>8
    <3> QED BY <1>7, <3>1, KeepVersionOf
  <2> QED BY <1>5, <2>1, <2>3, <2>4 DEF Published
<1>12. ASSUME NEW x \in Key PROVE KeyStreamOK(x)'
  <2> SUFFICES ASSUME NEW n \in 1 .. Len(keyStream'[x])
               PROVE  /\ keyStream'[x][n].seqNum > CallSeqNum /\ keyStream'[x][n].seqNum <= logTail'
                      /\ \A m \in 1 .. n - 1 : keyStream'[x][m].seqNum < keyStream'[x][n].seqNum
                      /\ \E m \in Instance : \E l \in DOMAIN Program[m] : Published(x, n, m, l)'
    BY DEF KeyStreamOK
  <2>1. CASE n \in 1 .. Len(keyStream[x])
    <3>1. /\ keyStream'[x][n] = keyStream[x][n]
          /\ \A m \in 1 .. n - 1 : keyStream'[x][m] = keyStream[x][m]
      BY <1>2, <1>7, <2>1 DEF Grows, LogGrows
    <3>2. PICK m \in Instance : \E l \in DOMAIN Program[m] : Published(x, n, m, l)
      BY <2>1 DEF LogOK, KeyStreamOK
    <3>3. PICK l \in DOMAIN Program[m] : Published(x, n, m, l)
      BY <3>2
    <3>4. Published(x, n, m, l)'
      BY <1>7, <2>1, <3>3, KeepPublished
    <3>5. keyStream[x][n].seqNum \in Nat /\ keyStream[x][n].seqNum <= logTail
      BY <1>2, <1>6, <2>1
    <3>6. keyStream[x][n].seqNum <= logTail'
      BY <1>1, <3>5
    <3> QED BY <1>6, <2>1, <3>1, <3>4, <3>6
  <2>2. CASE n \notin 1 .. Len(keyStream[x])
    <3>1. x = k /\ n = t + 1
      BY <1>3, <1>4, <1>5, <2>2
    <3>2. ASSUME NEW m \in 1 .. n - 1 PROVE keyStream'[k][m].seqNum < r.seqNum
      <4>1. m \in 1 .. t /\ keyStream'[k][m] = keyStream[k][m]
        BY <1>3, <1>5, <3>1
      <4>2. keyStream[k][m].seqNum <= logTail /\ keyStream[k][m].seqNum \in Nat
        BY <1>2, <1>3, <1>6, <4>1
      <4>3. PICK c \in Nat : c = keyStream[k][m].seqNum /\ c <= logTail
        BY <4>2
      <4>4. c < logTail + 1
        BY <1>1, <4>3
      <4> QED BY <4>1, <4>3, <4>4
    <3> QED BY <1>1, <1>5, <1>11, <3>1, <3>2
  <2> QED BY <2>1, <2>2
<1> QED BY <1>7, <1>10, <1>12, AddedStreams DEF LogOK
-----------------------------------------------------------------------------
(***************************************************************************)
(* Steps that finish an operation.                                         *)
(***************************************************************************)
LEMMA NextOpIs ==
  ASSUME RWTypeOK, NEW e \in Executor, NextOp(e)
  PROVE  /\ op'[e].idx = op[e].idx + 1 /\ op'[e].at = "start"
         /\ op' \in [Executor -> OpState]
         /\ \A x \in Executor : x # e => op'[x] = op[x]
<1>1. PICK n \in Nat \ {0} : n = op[e].idx
  BY Processes
<1>2. PICK m \in Nat \ {0} : m = n + 1
  BY <1>1
<1> DEFINE o == [FirstOp EXCEPT !.idx = m]
<1>3. o \in OpState /\ o.idx = m /\ o.at = "start"
  BY <1>2 DEF FirstOp, OpState, Place
<1>4. op' = [op EXCEPT ![e] = o]
  BY <1>1, <1>2 DEF NextOp
<1> HIDE DEF o
<1>5. op \in [Executor -> OpState]
  BY DEF RWTypeOK
<1>6. op'[e] = o /\ op' \in [Executor -> OpState]
  BY <1>3, <1>4, <1>5
<1>7. \A x \in Executor : x # e => op'[x] = op[x]
  BY <1>4, <1>5
<1> QED BY <1>1, <1>2, <1>3, <1>6, <1>7

LEMMA NextAlive ==
  ASSUME RWTypeOK, NEW e \in Executor, op[e].idx <= Len(Program[InstanceOf[e]]), NextOp(e),
         Runs(e)', pc'[e] # "catch",
         ~ env'[e].exit => env'[e].stepNumber = StepsBefore(InstanceOf[e], op[e].idx + 1)
  PROVE  AliveOK(e)'
<1> DEFINE i == InstanceOf[e]
<1>1. op'[e].idx = op[e].idx + 1 /\ op'[e].at = "start"
  BY NextOpIs
<1>2. Len(Program[i]) \in Nat /\ op[e].idx \in Nat
  BY Processes, Programs
<1>3. op'[e].idx <= Len(Program[i]) + 1
  BY <1>1, <1>2
<1>4. InOpOK(e)'
  BY <1>1 DEF InOpOK, Writing
<1>5. ASSUME ~ env'[e].exit PROVE OnTrack(e)'
  <2>1. PICK p \in Nat : p = StepsBefore(i, op[e].idx + 1)
    <3>1. op[e].idx + 1 \in Nat \ {0} /\ i \in Instance
      BY <1>2, Processes
    <3> QED BY <3>1, StepsNext
  <2>2. env'[e].stepNumber = p /\ StepsBefore(i, op'[e].idx) = p /\ p + 0 = p
    BY <1>1, <1>5, <2>1
  <2> QED BY <1>1, <1>5, <2>2 DEF OnTrack, Runs, Writing
<1> QED BY <1>3, <1>4, <1>5 DEF AliveOK, Runs

LEMMA DeliverIs ==
  ASSUME RWTypeOK, NEW e \in Executor, NEW result \in Val \cup {None}, Deliver(e, result),
         NEW j \in DOMAIN Program[InstanceOf[e]], j = op[e].idx,
         ~ env'[e].exit => TellOK(InstanceOf[e], j, result)'
  PROVE  /\ NextOp(e) /\ NewToldOK
         /\ DOMAIN told' = Instance
         /\ \A i \in Instance : told'[i] \in [1 .. Len(Program[i]) -> SUBSET (Val \cup {None})]
<1> DEFINE i == InstanceOf[e]
<1>1. /\ i \in Instance /\ DOMAIN told = Instance /\ j \in 1 .. Len(Program[i])
      /\ \A m \in Instance : told[m] \in [1 .. Len(Program[m]) -> SUBSET (Val \cup {None})]
  BY Processes, Programs DEF RWTypeOK
<1>2. NextOp(e)
  BY DEF Deliver
<1>3. CASE env'[e].exit
  <2>1. told' = told
    BY <1>3 DEF Deliver
  <2> QED BY <1>1, <1>2, <2>1, ToldAlone
<1>4. CASE ~ env'[e].exit
  <2>1. told' = [told EXCEPT ![i] = [told[i] EXCEPT ![j] = told[i][j] \cup {result}]]
    BY <1>1, <1>4 DEF Deliver
  <2> DEFINE f == [told[i] EXCEPT ![j] = told[i][j] \cup {result}]
  <2>2. f \in [1 .. Len(Program[i]) -> SUBSET (Val \cup {None})]
    BY <1>1
  <2>3. f[j] = told[i][j] \cup {result} /\ \A m \in DOMAIN told[i] : m # j => f[m] = told[i][m]
    BY <1>1
  <2> HIDE DEF f
  <2>4. DOMAIN told' = Instance /\ told'[i] = f /\ \A m \in Instance : m # i => told'[m] = told[m]
    BY <1>1, <2>1 DEF f
  <2>5. NewToldOK
    <3> SUFFICES ASSUME NEW m \in Instance, NEW l \in DOMAIN Program[m], NEW t \in told'[m][l],
                        t \notin told[m][l]
                 PROVE  TellOK(m, l, t)'
      BY DEF NewToldOK
    <3>1. m = i
      BY <2>4
    <3>2. l = j
      <4>1. l \in DOMAIN told[i]
        BY <1>1, <3>1, Programs
      <4> QED BY <2>3, <2>4, <3>1, <4>1
    <3>3. t = result
      BY <2>3, <2>4, <3>1, <3>2
    <3> QED BY <1>4, <3>1, <3>2, <3>3
  <2> QED BY <1>1, <1>2, <2>2, <2>4, <2>5
<1> QED BY <1>3, <1>4

\* The steps that the operation after this one starts with.
LEMMA StepsAfter ==
  ASSUME RWTypeOK, NEW e \in Executor, op[e].idx <= Len(Program[InstanceOf[e]])
  PROVE  LET i == InstanceOf[e]
         IN  /\ StepsBefore(i, op[e].idx) \in Nat /\ op[e].idx \in DOMAIN Program[i]
             /\ Logs(Op(e).kind) => StepsBefore(i, op[e].idx + 1) = StepsBefore(i, op[e].idx) + Width
             /\ ~ Logs(Op(e).kind) => StepsBefore(i, op[e].idx + 1) = StepsBefore(i, op[e].idx)
BY OpIs, Processes, StepsNext

LEMMA ReadItemStep == ASSUME RWInv, NEW e \in Executor, ReadItem(e) PROVE Keeps
<1> DEFINE i == InstanceOf[e]
<1>1. /\ InOp(e, "read", "versioned")
      /\ UNCHANGED <<logTail, stream, pc, env, fsm, item, version, keyStream>>
  BY DEF ReadItem, vars, dbVars
<1>2. /\ RWTypeOK /\ LogOK /\ pc[e] = "run" /\ AliveOK(e) /\ PastOK(e) /\ Op(e).kind = "read"
      /\ op[e].at = "versioned" /\ i \in Instance /\ Op(e) = Program[i][op[e].idx]
      /\ op[e].idx <= Len(Program[i]) /\ op[e].idx \in DOMAIN Program[i]
  BY <1>1, InOpIs
<1>3. Mode = "WRITELOG"
  BY <1>2 DEF AliveOK, InOpOK
<1>4. PICK j \in DOMAIN Program[i] : j = op[e].idx /\ j \in Nat \ {0}
  BY <1>2, Programs
<1>5. PICK k \in Key : k = Op(e).key /\ k = Program[i][j].key
  BY <1>2, <1>4, Programs
<1>6. PICK result \in Val \cup {None} : result = GetItem(k, op[e].ver)
  BY <1>2 DEF GetItem, RWTypeOK
<1>7. Deliver(e, result)
  BY <1>5, <1>6 DEF ReadItem
<1>8. ASSUME ~ env[e].exit
      PROVE  TellOK(i, j, result)' /\ env[e].stepNumber = StepsBefore(i, j)
  <2>1. OnTrack(e) /\ env[e].stepNumber <= Len(stream[i])
    BY <1>2, <1>8 DEF AliveOK
  <2>2. PICK p \in Nat : p = StepsBefore(i, j)
    BY <1>2, <1>4, StepsNext
  <2>3. env[e].stepNumber = p /\ env[e].seqNum = Cursor(i, p)
    BY <1>2, <1>4, <2>1, <2>2 DEF OnTrack, Writing
  <2>4. op[e].ver = VersionAt(k, Cursor(i, p))
    BY <1>2, <1>5, <2>1, <2>3 DEF OnTrack
  <2>5. VersionAt(k, Cursor(i, p)) \in DOMAIN item[k]
    BY <1>2, VersionExists
  <2>6. result = item[k][VersionAt(k, Cursor(i, p))] /\ result \in Val
    BY <1>2, <1>6, <2>4, <2>5 DEF GetItem, RWTypeOK
  <2>7. Outcome(i, j)' = item[k][VersionAt(k, Cursor(i, p))]
    BY <1>1, <1>3, <1>5, <2>2 DEF Outcome, VersionAt, Cursor
  <2>8. IsRead(i, j)
    BY <1>2, <1>4 DEF IsRead
  <2>9. p + 0 <= Len(stream'[i])
    BY <1>1, <2>1, <2>2, <2>3
  <2>10. TellOK(i, j, result)'
    BY <1>3, <2>2, <2>6, <2>7, <2>8, <2>9 DEF TellOK
  <2> QED BY <2>2, <2>3, <2>10
<1>9. /\ NextOp(e) /\ NewToldOK /\ DOMAIN told' = Instance
      /\ \A m \in Instance : told'[m] \in [1 .. Len(Program[m]) -> SUBSET (Val \cup {None})]
  BY <1>1, <1>2, <1>4, <1>7, <1>8, DeliverIs
<1>10. /\ op'[e].idx = j + 1 /\ op' \in [Executor -> OpState]
       /\ \A x \in Executor : x # e => op'[x] = op[x]
  BY <1>2, <1>4, <1>9, NextOpIs
<1>11. RWTypeOK'
  BY <1>1, <1>2, <1>9, <1>10 DEF RWTypeOK
<1>12. AliveOK(e)'
  <2>1. Runs(e)'
    BY <1>1, <1>2, AliveRuns DEF Runs, Cursor
  <2>2. ~ Logs("read")
    BY <1>3 DEF Logs
  <2>3. ~ env'[e].exit => env'[e].stepNumber = StepsBefore(i, op[e].idx + 1)
    BY <1>1, <1>2, <1>4, <1>8, <2>2, StepsAfter
  <2> QED BY <1>1, <1>2, <1>9, <2>1, <2>3, NextAlive
<1>13. PastOK(e)'
  <2>1. \A l : WriteOver(i, l)' = WriteOver(i, l)
    BY <1>1 DEF WriteOver
  <2>2. \A l \in DOMAIN Program[i] : l < j + 1 => l < j \/ l = j
    BY <1>4, Programs
  <2>3. ~ IsWrite(i, j)
    BY <1>2, <1>4 DEF IsWrite
  <2> QED BY <1>1, <1>2, <1>4, <1>10, <2>1, <2>2, <2>3 DEF PastOK
<1>14. Others(e)
  BY <1>1, <1>10 DEF Others
<1> QED BY <1>1, <1>9, <1>11, <1>12, <1>13, <1>14, OwnStep

\* The operation that is over, if it is a write, is over in the log too.
LEMMA PastNext ==
  ASSUME Typed, Grows, NEW e \in Executor, PastOK(e), pc[e] = "run", pc'[e] = "run",
         ~ env'[e].exit => ~ env[e].exit,
         NEW j \in DOMAIN Program[InstanceOf[e]], j = op[e].idx, op'[e].idx = j + 1,
         ~ env'[e].exit /\ IsWrite(InstanceOf[e], j) => WriteOver(InstanceOf[e], j)'
  PROVE  PastOK(e)'
<1> DEFINE i == InstanceOf[e]
<1>1. i \in Instance
  BY Processes DEF Typed
<1>2. \A l \in DOMAIN Program[i] : WriteOver(i, l) => WriteOver(i, l)'
  BY <1>1, KeepOver
<1>3. \A l \in DOMAIN Program[i] : l < j + 1 => l < j \/ l = j
  BY <1>1, Programs
<1> QED BY <1>2, <1>3 DEF PastOK

\* An execution ends the operation it is in.
LEMMA FinishOp ==
  ASSUME RWInv, RWTypeOK', Grows, LogOK', NewItemsOK, NewToldOK,
         NEW e \in Executor, NEW kind, NEW at, InOp(e, kind, at), NextOp(e), pc' = pc,
         \A x \in Executor : x # e => env'[x] = env[x] /\ fsm'[x] = fsm[x],
         Runs(e)', ~ env'[e].exit => ~ env[e].exit,
         ~ env'[e].exit => env'[e].stepNumber = StepsBefore(InstanceOf[e], op[e].idx + 1),
         NEW j, j = op[e].idx,
         ~ env'[e].exit /\ kind = "write" => WriteOver(InstanceOf[e], j)'
  PROVE  Keeps
<1> DEFINE i == InstanceOf[e]
<1>1. /\ RWTypeOK /\ LogOK /\ pc[e] = "run" /\ PastOK(e) /\ i \in Instance
      /\ op[e].idx <= Len(Program[i]) /\ j \in DOMAIN Program[i]
      /\ Op(e) = Program[i][j] /\ Op(e).kind = kind
  BY InOpIs
<1>2. op'[e].idx = j + 1 /\ \A x \in Executor : x # e => op'[x] = op[x]
  BY <1>1, NextOpIs
<1>3. AliveOK(e)'
  BY <1>1, NextAlive
<1>4. PastOK(e)'
  <2>1. IsWrite(i, j) => kind = "write"
    BY <1>1 DEF IsWrite
  <2> QED BY <1>1, <1>2, <2>1, PastNext DEF Typed
<1>5. Others(e)
  BY <1>2 DEF Others
<1> QED BY <1>3, <1>4, <1>5, StepOf

\* An execution that moves over a step without appending one ends its operation.
LEMMA OverStep ==
  ASSUME RWInv, RWTypeOK', UNCHANGED <<logTail, stream, keyStream, item, pc, fsm>>, NewToldOK,
         NEW e \in Executor, NEW kind, NEW at, InOp(e, kind, at), NextOp(e), EnvMoves(e), Runs(e)',
         ~ env'[e].exit => ~ env[e].exit,
         ~ env'[e].exit => env'[e].stepNumber = StepsBefore(InstanceOf[e], op[e].idx + 1),
         ~ env'[e].exit /\ kind = "write" => WriteOver(InstanceOf[e], op[e].idx)
  PROVE  Keeps
<1>1. Typed /\ LogOK /\ ItemsGrow /\ NewItemsOK
  BY ItemsAlone DEF RWInv, Typed
<1>2. Grows /\ LogOK'
  BY <1>1, LogAlone
<1>3. PICK j : j = op[e].idx
  OBVIOUS
<1>4. WriteOver(InstanceOf[e], j)' = WriteOver(InstanceOf[e], j)
  BY DEF WriteOver
<1>5. \A x \in Executor : x # e => env'[x] = env[x] /\ fsm'[x] = fsm[x]
  BY DEF EnvMoves
<1> QED BY <1>1, <1>2, <1>3, <1>4, <1>5, FinishOp

LEMMA SkipWriteStep == ASSUME RWInv, NEW e \in Executor, SkipWrite(e) PROVE Keeps
<1> DEFINE i == InstanceOf[e]
<1>1. /\ InOp(e, "write", "prewritten") /\ "prewritten" \in Writing
      /\ Matches(e, "PostWrite") /\ ReplayStep(e) /\ NextOp(e)
      /\ UNCHANGED <<item, version, keyStream, told>>
  BY DEF SkipWrite, Writing, dbVars
<1>2. /\ RWTypeOK /\ LogOK /\ AliveOK(e) /\ StreamOK(i) /\ Op(e) = Program[i][op[e].idx]
      /\ op[e].idx <= Len(Program[i]) /\ Op(e).kind = "write" /\ op[e] \in OpState
  BY <1>1, InOpIs, Processes DEF LogOK
<1>3. /\ Runs(e)' /\ EnvMoves(e) /\ ~ env[e].exit
      /\ env[e].stepNumber + 1 <= Len(stream[i])
      /\ NextLog(e) = stream[i][env[e].stepNumber + 1].data
      /\ UNCHANGED <<logTail, stream, pc, fsm>>
  BY <1>1, <1>2, ReplayIs
<1>4. PICK p \in Nat : p = StepsBefore(i, op[e].idx)
  BY <1>2, StepsAfter
<1>5. Mode = "WRITELOG" /\ env[e].stepNumber = p + 1
  BY <1>1, <1>4, Prewritten
<1>6. Logs("write") /\ Width = 2 /\ (p + 1) + 1 = p + 2
  BY <1>4, <1>5 DEF Logs, Width
<1>7. WriteOver(i, op[e].idx)
  BY <1>1, <1>2, <1>3, <1>4, <1>5, <1>6 DEF WriteOver, Matches
<1>8. env'[e].stepNumber = StepsBefore(i, op[e].idx + 1)
  BY <1>2, <1>3, <1>4, <1>5, <1>6, StepsAfter DEF EnvMoves
<1>9. RWTypeOK'
  <2>1. op' \in [Executor -> OpState]
    BY <1>1, <1>2, NextOpIs
  <2> QED BY <1>1, <1>2, <1>3, <2>1 DEF RWTypeOK, EnvMoves
<1>10. NewToldOK
  BY <1>1, ToldAlone
<1> QED BY <1>1, <1>3, <1>7, <1>8, <1>9, <1>10, OverStep

\* Losing a step ends the operation: the write is left to the winner.
LEMMA LoseWrite ==
  ASSUME RWInv, NEW e \in Executor, NEW at, InOp(e, "write", at), LoseStep(e), NextOp(e),
         UNCHANGED <<item, version, keyStream, told>>
  PROVE  Keeps
<1>1. /\ RWTypeOK /\ AliveOK(e)
  BY InOpIs
<1>2. /\ Runs(e)' /\ EnvMoves(e) /\ env'[e].exit /\ UNCHANGED <<logTail, stream, pc, fsm>>
  BY <1>1, LoseIs
<1>3. RWTypeOK'
  <2>1. op' \in [Executor -> OpState]
    BY <1>1, NextOpIs
  <2> QED BY <1>1, <1>2, <2>1 DEF RWTypeOK, EnvMoves
<1>4. NewToldOK
  BY ToldAlone
<1> QED BY <1>2, <1>3, <1>4, OverStep

LEMMA ReplayReadStep == ASSUME RWInv, NEW e \in Executor, ReplayRead(e) PROVE Keeps
<1> DEFINE i == InstanceOf[e]
<1>1. /\ InOp(e, "read", "start") /\ Mode = "READLOG"
      /\ Matches(e, "PostRead") /\ ReplayStep(e) /\ Deliver(e, NextLog(e).result)
      /\ UNCHANGED <<item, version, keyStream>>
  BY DEF ReplayRead, dbVars
<1>2. /\ RWTypeOK /\ LogOK /\ AliveOK(e) /\ StreamOK(i) /\ Op(e) = Program[i][op[e].idx]
      /\ op[e].idx <= Len(Program[i]) /\ Op(e).kind = "read" /\ op[e].at = "start"
      /\ i \in Instance /\ op[e].idx \in DOMAIN Program[i]
  BY <1>1, InOpIs DEF LogOK
<1>3. /\ Runs(e)' /\ EnvMoves(e) /\ ~ env[e].exit
      /\ env[e].stepNumber + 1 <= Len(stream[i])
      /\ NextLog(e) = stream[i][env[e].stepNumber + 1].data
      /\ UNCHANGED <<logTail, stream, pc, fsm>>
  BY <1>1, <1>2, ReplayIs
<1>4. PICK p \in Nat : p = StepsBefore(i, op[e].idx)
  BY <1>2, StepsAfter
<1>5. PICK j \in DOMAIN Program[i] : j = op[e].idx
  BY <1>2
<1>6. env[e].stepNumber = p
  <2>1. OnTrack(e) /\ p + 0 = p
    BY <1>2, <1>3, <1>4 DEF AliveOK
  <2> QED BY <1>2, <1>4, <2>1 DEF OnTrack, Writing
<1>7. PICK r \in Val : r = NextLog(e).result /\ r = stream[i][p + 1].data.result
  <2>1. p + 1 \in 1 .. Len(stream[i])
    BY <1>2, <1>3, <1>4, <1>6, Entries
  <2> QED BY <1>1, <1>2, <1>3, <1>6, <2>1 DEF StreamOK
<1>8. TellOK(i, j, r)'
  <2>1. p + 1 <= Len(stream'[i]) /\ IsRead(i, j)
    BY <1>2, <1>3, <1>5, <1>6 DEF IsRead
  <2>2. p = StepsBefore(i, j) /\ r = stream'[i][p + 1].data.result
    BY <1>3, <1>4, <1>5, <1>7
  <2> QED BY <1>1, <2>1, <2>2 DEF TellOK, Outcome
<1>9. /\ NextOp(e) /\ NewToldOK /\ DOMAIN told' = Instance
      /\ \A m \in Instance : told'[m] \in [1 .. Len(Program[m]) -> SUBSET (Val \cup {None})]
  BY <1>1, <1>2, <1>5, <1>7, <1>8, DeliverIs
<1>10. RWTypeOK'
  <2>1. op' \in [Executor -> OpState]
    BY <1>2, <1>9, NextOpIs
  <2> QED BY <1>1, <1>2, <1>3, <1>9, <2>1 DEF RWTypeOK, EnvMoves
<1>11. env'[e].stepNumber = StepsBefore(i, op[e].idx + 1)
  <2>1. Logs("read") /\ Width = 1
    BY <1>1 DEF Logs, Width
  <2> QED BY <1>2, <1>3, <1>4, <1>6, <2>1, StepsAfter DEF EnvMoves
<1> QED BY <1>1, <1>3, <1>9, <1>10, <1>11, OverStep
-----------------------------------------------------------------------------
(***************************************************************************)
(* Steps that append to the log, and the log-free write.                   *)
(***************************************************************************)
\* applyLog panics: the entry is in the log, the process is dead.
LEMMA PanicStep ==
  ASSUME RWInv, NEW e \in Executor, AliveOK(e), NEW d \in LogData, AppendPanic(e, d),
         UNCHANGED <<item, version, keyStream, op, told>>, d.type # "PostWrite",
         Mode = "READLOG" => d.type = "PostRead" /\ d.result \in Val
  PROVE  Keeps
<1> DEFINE i == InstanceOf[e]
<1>1. AppendOK(e, Proposal(e, d)) /\ NotMonotonic(fsm[e], Proposal(e, d)) /\ RWTypeOK /\ LogOK
  BY DEF AppendPanic, RWInv
<1>2. /\ Added(i, Proposal(e, d))
      /\ logTail' \in Nat /\ logTail' >= CallSeqNum
      /\ stream' \in [Instance -> Seq(LogRecord)]
      /\ fsm' = [fsm EXCEPT ![e] = applyLog(fsm[e], Proposal(e, d))]
  BY <1>1, AppendIs
<1>3. PICK entry \in LogRecord : entry = Proposal(e, d) /\ entry.data = d
  BY <1>2 DEF Added, Proposal
<1>4. PICK n \in Nat : n = env[e].stepNumber
  BY <1>1, Processes
<1>5. /\ env' = [env EXCEPT ![e].stepNumber = n + 1] /\ pc' = [pc EXCEPT ![e] = "panic"]
      /\ env \in [Executor -> EnvRecord] /\ pc \in [Executor -> PcState] /\ env[e] \in EnvRecord
      /\ fsm = [x \in Executor |-> fsm[x]] /\ \A x \in Executor : IsIntentFsm(fsm[x])
  BY <1>1, <1>4 DEF AppendPanic, RWTypeOK
<1>6. IsIntentFsm(applyLog(fsm[e], entry))
  <2>1. applyLog(fsm[e], entry) = [fsm[e] EXCEPT !.tail = entry.seqNum]
    BY <1>1, <1>3 DEF applyLog, NotMonotonic
  <2>2. entry.seqNum \in Nat /\ IsIntentFsm(fsm[e])
    BY <1>5 DEF LogRecord
  <2> QED BY <2>1, <2>2 DEF IsIntentFsm
<1>7. /\ fsm' = [x \in Executor |-> fsm'[x]] /\ \A x \in Executor : IsIntentFsm(fsm'[x])
      /\ \A x \in Executor : x # e => fsm'[x] = fsm[x]
  BY <1>2, <1>3, <1>5, <1>6
<1>8. env' \in [Executor -> EnvRecord] /\ \A x \in Executor : x # e => env'[x] = env[x]
  <2>1. PICK m \in Nat : m = n + 1
    BY <1>4
  <2>2. [env[e] EXCEPT !.stepNumber = m] \in EnvRecord
    BY <1>5 DEF EnvRecord
  <2>3. env' = [env EXCEPT ![e] = [env[e] EXCEPT !.stepNumber = m]]
    BY <1>5, <2>1
  <2> QED BY <1>5, <2>2, <2>3
<1>9. pc' \in [Executor -> PcState] /\ pc'[e] = "panic" /\ \A x \in Executor : x # e => pc'[x] = pc[x]
  BY <1>5 DEF PcState
<1>10. RWTypeOK'
  BY <1>1, <1>2, <1>7, <1>8, <1>9 DEF RWTypeOK
<1>11. Grows /\ LogOK'
  <2>1. entry.data.type # "PostWrite" /\ Typed /\ i \in Instance
    BY <1>1, <1>3, <1>10, Processes DEF Typed
  <2>2. Added(i, entry)
    BY <1>2, <1>3
  <2> QED BY <1>1, <2>1, <2>2, LogAppended
<1>12. NewItemsOK /\ NewToldOK
  BY ItemsAlone, ToldAlone
<1>13. Others(e) /\ PastOK(e)'
  BY <1>7, <1>8, <1>9 DEF Others, PastOK
<1> QED BY <1>9, <1>10, <1>11, <1>12, <1>13, StepOf

LEMMA DataIs ==
  ASSUME NEW k \in Key, NEW v \in Nat, NEW r \in Val \cup {None}
  PROVE  /\ PreWriteData(k) \in LogData /\ PreWriteData(k).type = "PreWrite"
         /\ PostWriteData(k, v) \in LogData /\ PostWriteData(k, v).type = "PostWrite"
         /\ PostWriteData(k, v).key = k
         /\ PostReadData(k, r) \in LogData /\ PostReadData(k, r).type = "PostRead"
         /\ PostReadData(k, r).result = r
BY DEF LogData, PreWriteData, PostWriteData, PostReadData

\* PreWrite: replayed or appended, the write goes on under the step's number.
LEMMA Prewrites ==
  ASSUME RWInv, RWTypeOK', Grows, LogOK', UNCHANGED <<item, told>>,
         NEW e \in Executor, Mode = "WRITELOG", InOp(e, "write", "start"),
         Advance(e, "prewritten"), EnvMoves(e), Runs(e)', ~ env[e].exit, ~ env'[e].exit,
         \A x \in Executor : x # e => fsm'[x] = fsm[x], pc' = pc
  PROVE  Keeps
<1> DEFINE i == InstanceOf[e]
<1>1. /\ RWTypeOK /\ LogOK /\ pc[e] = "run" /\ AliveOK(e) /\ PastOK(e) /\ Op(e).kind = "write"
      /\ i \in Instance /\ op[e].at = "start" /\ op[e] \in OpState
      /\ op[e].idx <= Len(Program[i]) /\ op[e].idx \in DOMAIN Program[i] /\ Len(Program[i]) \in Nat
  BY InOpIs, Processes, Programs
<1>2. PICK j \in Nat \ {0} : j = op[e].idx
  BY <1>1, Processes
<1>3. /\ op' = [op EXCEPT ![e].at = "prewritten"]
      /\ op'[e] = [op[e] EXCEPT !.at = "prewritten"]
      /\ \A x \in Executor \ {e} : op'[x] = op[x]
  BY <1>1 DEF Advance, RWTypeOK
<1>4. op'[e].idx = j /\ op'[e].at = "prewritten"
  BY <1>1, <1>2, <1>3 DEF OpState
<1>5. PICK p \in Nat : p = StepsBefore(i, j)
  BY <1>1, <1>2, StepsNext
<1>6. env[e].stepNumber = p
  <2>1. OnTrack(e) /\ p + 0 = p
    BY <1>1, <1>5 DEF AliveOK
  <2> QED BY <1>1, <1>2, <1>5, <2>1 DEF OnTrack, Writing
<1>7. OnTrack(e)'
  <2>1. env'[e].stepNumber = p + 1
    BY <1>6 DEF EnvMoves
  <2> QED BY <1>4, <1>5, <2>1 DEF OnTrack, Runs, Writing
<1>8. InOpOK(e)'
  <2>1. Op(e)' = Op(e)
    BY <1>2, <1>4 DEF Op
  <2> QED BY <1>1, <1>2, <1>4, <2>1 DEF InOpOK, Writing
<1>9. AliveOK(e)'
  <2>1. j <= Len(Program[i]) + 1
    BY <1>1, <1>2
  <2> QED BY <1>1, <1>4, <1>7, <1>8, <2>1 DEF AliveOK, Runs
<1>10. PastOK(e)'
  <2>1. \A l \in DOMAIN Program[i] : WriteOver(i, l) => WriteOver(i, l)'
    BY <1>1, KeepOver DEF Typed
  <2> QED BY <1>1, <1>2, <1>4, <2>1 DEF PastOK
<1>11. Others(e) /\ NewItemsOK /\ NewToldOK
  BY <1>3, ItemsAlone, ToldAlone DEF Others, EnvMoves
<1> QED BY <1>9, <1>10, <1>11, StepOf

LEMMA AdvanceType ==
  ASSUME RWTypeOK, NEW e \in Executor, NEW at \in Place, Advance(e, at)
  PROVE  op' \in [Executor -> OpState]
<1>1. op[e] \in OpState /\ op \in [Executor -> OpState] /\ op' = [op EXCEPT ![e].at = at]
  BY DEF RWTypeOK, Advance
<1>2. [op[e] EXCEPT !.at = at] \in OpState
  BY <1>1 DEF OpState
<1>3. op' = [op EXCEPT ![e] = [op[e] EXCEPT !.at = at]]
  BY <1>1
<1> QED BY <1>1, <1>2, <1>3

LEMMA PreWriteStep == ASSUME RWInv, NEW e \in Executor, PreWrite(e) PROVE Keeps
<1> DEFINE i == InstanceOf[e]
<1>1. /\ InOp(e, "write", "start") /\ Mode = "WRITELOG" /\ Mode # "READLOG"
      /\ UNCHANGED <<item, version, keyStream, told>>
  BY DEF PreWrite, dbVars
<1>2. /\ RWTypeOK /\ LogOK /\ AliveOK(e) /\ StreamOK(i) /\ i \in Instance
  BY <1>1, InOpIs DEF LogOK
<1>3. PICK d \in LogData : d = PreWriteData(Op(e).key) /\ d.type = "PreWrite"
  <2>1. Op(e).key \in Key /\ 0 \in Nat /\ None \in Val \cup {None}
    BY <1>1, InOpIs
  <2> QED BY <2>1, DataIs
<1>4. CASE ReplayStep(e) /\ Advance(e, "prewritten")
  <2>1. /\ Runs(e)' /\ EnvMoves(e) /\ ~ env[e].exit /\ ~ env'[e].exit
        /\ UNCHANGED <<logTail, stream, pc, fsm>>
    BY <1>2, <1>4, ReplayIs
  <2>2. RWTypeOK'
    <3>1. op' \in [Executor -> OpState]
      BY <1>2, <1>4, AdvanceType DEF Place
    <3> QED BY <1>1, <1>2, <2>1, <3>1 DEF RWTypeOK, EnvMoves
  <2>3. Grows /\ LogOK'
    BY <1>1, <1>2, <2>1, <2>2, ItemsAlone, LogAlone DEF Typed
  <2> QED BY <1>1, <1>4, <2>1, <2>2, <2>3, Prewrites
<1>5. CASE AppendStep(e, d) /\ Advance(e, "prewritten")
  <2>1. /\ Added(i, Proposal(e, d))
        /\ logTail' \in Nat /\ logTail' >= CallSeqNum
        /\ stream' \in [Instance -> Seq(LogRecord)]
        /\ fsm' = [x \in Executor |-> fsm'[x]] /\ \A x \in Executor : IsIntentFsm(fsm'[x])
        /\ \A x \in Executor : x # e => fsm'[x] = fsm[x]
        /\ pc' = pc /\ Runs(e)' /\ EnvMoves(e) /\ ~ env[e].exit /\ ~ env'[e].exit
    BY <1>1, <1>2, <1>5, AppendRuns
  <2>2. RWTypeOK'
    <3>1. op' \in [Executor -> OpState]
      BY <1>2, <1>5, AdvanceType DEF Place
    <3> QED BY <1>1, <1>2, <2>1, <3>1 DEF RWTypeOK, EnvMoves
  <2>3. PICK entry \in LogRecord : entry = Proposal(e, d) /\ entry.data = d
    BY <2>1 DEF Added, Proposal
  <2>4. Grows /\ LogOK'
    <3>1. entry.data.type # "PostWrite" /\ Added(i, entry)
      BY <1>3, <2>1, <2>3
    <3> QED BY <1>1, <1>2, <2>2, <3>1, LogAppended DEF Typed
  <2> QED BY <1>1, <1>5, <2>1, <2>2, <2>4, Prewrites
<1>6. CASE AppendPanic(e, d) /\ UNCHANGED op
  BY <1>1, <1>2, <1>3, <1>6, PanicStep
<1>7. CASE LoseStep(e) /\ NextOp(e)
  BY <1>1, <1>7, LoseWrite
<1> QED BY <1>3, <1>4, <1>5, <1>6, <1>7 DEF PreWrite

LEMMA PostWriteStep == ASSUME RWInv, NEW e \in Executor, PostWrite(e) PROVE Keeps
<1> DEFINE i == InstanceOf[e]
<1>1. InOp(e, "write", "written") /\ "written" \in Writing /\ NextOp(e)
      /\ UNCHANGED <<item, version, told>>
  BY DEF PostWrite, Writing
<1>2. /\ RWTypeOK /\ LogOK /\ AliveOK(e) /\ i \in Instance
      /\ Op(e) = Program[i][op[e].idx] /\ op[e].idx <= Len(Program[i])
      /\ op[e].idx \in DOMAIN Program[i] /\ op[e].at = "written" /\ Op(e).kind = "write"
  BY <1>1, InOpIs
<1>3. PICK j \in DOMAIN Program[i] : j = op[e].idx
  BY <1>2
<1>4. PICK p \in Nat : p = StepsBefore(i, j)
  BY <1>2, <1>3, StepsAfter
<1>5. PICK v \in Nat : v = WriteVersion(e)
  BY <1>1, Prewritten
<1>6. PICK k \in Key : k = Op(e).key
  BY <1>1, InOpIs
<1>7. /\ Mode = "WRITELOG" /\ Mode # "READLOG" /\ ~ env[e].exit /\ IsWrite(i, j)
      /\ env[e].stepNumber = p + 1 /\ v = VersionOf(i, j)
  BY <1>1, <1>3, <1>4, <1>5, Prewritten
<1>8. PICK d \in LogData : d = PostWriteData(k, v) /\ d.type = "PostWrite" /\ d.key = k
  <2>1. None \in Val \cup {None}
    OBVIOUS
  <2>2. /\ PostWriteData(k, v) \in LogData /\ PostWriteData(k, v).type = "PostWrite"
        /\ PostWriteData(k, v).key = k
    BY <2>1, DataIs
  <2> QED BY <2>2
<1>9. CASE AppendStep(e, d) /\ Publish(e)
  <2>1. /\ Added(i, Proposal(e, d)) /\ env[e].stepNumber = Len(stream[i])
        /\ logTail' \in Nat /\ logTail' >= CallSeqNum
        /\ stream' \in [Instance -> Seq(LogRecord)]
        /\ fsm' = [x \in Executor |-> fsm'[x]] /\ \A x \in Executor : IsIntentFsm(fsm'[x])
        /\ \A x \in Executor : x # e => fsm'[x] = fsm[x]
        /\ pc' = pc /\ Runs(e)' /\ EnvMoves(e) /\ ~ env[e].exit /\ ~ env'[e].exit
    BY <1>2, <1>7, <1>9, AppendRuns
  <2>2. PICK entry \in LogRecord : entry = Proposal(e, d) /\ entry.data = d
    BY <2>1 DEF Added, Proposal
  <2>3. PICK r \in VersionRecord : r = [seqNum |-> logTail + 1, version |-> v]
    <3>1. logTail + 1 \in Nat
      BY <1>2 DEF RWTypeOK
    <3> QED BY <3>1 DEF VersionRecord
  <2>4. keyStream' = [keyStream EXCEPT ![k] = Append(keyStream[k], r)]
    BY <1>5, <1>6, <1>9, <2>3 DEF Publish
  <2>5. RWTypeOK'
    <3>1. op' \in [Executor -> OpState]
      BY <1>1, <1>2, NextOpIs
    <3>2. keyStream' \in [Key -> Seq(VersionRecord)]
      <4>1. Append(keyStream[k], r) \in Seq(VersionRecord)
        BY <1>2, KeyEntries
      <4> QED BY <1>2, <2>4, <4>1 DEF RWTypeOK
    <3> QED BY <1>1, <1>2, <2>1, <3>1, <3>2 DEF RWTypeOK, EnvMoves
  <2>6. Grows /\ LogOK'
    <3>1. /\ Added(i, entry) /\ Program[i][j].key = k /\ item' = item /\ Typed
          /\ entry.data.type = "PostWrite" /\ entry.data.key = k
      BY <1>1, <1>2, <1>3, <1>6, <1>8, <2>1, <2>2, <2>5 DEF Typed
    <3>2. r.seqNum = logTail + 1 /\ r.version = VersionOf(i, j)
      BY <1>7, <2>3
    <3>3. r.version \in DOMAIN item[k]
      BY <1>2, <1>5, <1>6, <2>3 DEF AliveOK, InOpOK
    <3>4. StepsBefore(i, j) + 1 = Len(stream[i])
      BY <1>4, <1>7, <2>1
    <3> QED BY <1>2, <1>7, <2>4, <3>1, <3>2, <3>3, <3>4, PostWriteAdded
  <2>7. Logs("write") /\ Width = 2 /\ (p + 1) + 1 = p + 2
    BY <1>4, <1>7 DEF Logs, Width
  <2>8. env'[e].stepNumber = StepsBefore(i, op[e].idx + 1)
    BY <1>2, <1>3, <1>4, <1>7, <2>1, <2>7, StepsAfter DEF EnvMoves
  <2>9. WriteOver(i, j)'
    <3>1. /\ Len(stream'[i]) = (p + 1) + 1 /\ stream'[i][(p + 1) + 1] = entry
          /\ entry.data.key = Program[i][j].key
      BY <1>2, <1>3, <1>6, <1>7, <1>8, <2>1, <2>2 DEF Added
    <3>2. /\ Len(stream'[i]) = p + 2 /\ stream'[i][p + 2] = entry /\ p + 2 \in Nat
          /\ p + 2 <= p + 2
      BY <1>4, <2>7, <3>1
    <3> QED BY <1>4, <1>8, <2>2, <3>1, <3>2 DEF WriteOver
  <2>10. NewItemsOK /\ NewToldOK /\ \A x \in Executor : x # e => env'[x] = env[x]
    BY <1>1, <2>1, ItemsAlone, ToldAlone DEF EnvMoves
  <2> QED BY <1>1, <1>3, <2>1, <2>5, <2>6, <2>8, <2>9, <2>10, FinishOp
<1>10. CASE LoseStep(e) /\ UNCHANGED keyStream
  BY <1>1, <1>10, LoseWrite
<1> QED BY <1>5, <1>6, <1>8, <1>9, <1>10 DEF PostWrite

LEMMA PostReadStep == ASSUME RWInv, NEW e \in Executor, PostRead(e) PROVE Keeps
<1> DEFINE i == InstanceOf[e]
<1>1. InOp(e, "read", "fetched") /\ UNCHANGED <<item, version, keyStream>>
  BY DEF PostRead, dbVars
<1>2. /\ RWTypeOK /\ LogOK /\ AliveOK(e) /\ i \in Instance
      /\ Op(e) = Program[i][op[e].idx] /\ op[e].idx <= Len(Program[i])
      /\ op[e].idx \in DOMAIN Program[i] /\ op[e].at = "fetched" /\ Op(e).kind = "read"
  BY <1>1, InOpIs
<1>3. PICK j \in DOMAIN Program[i] : j = op[e].idx
  BY <1>2
<1>4. PICK p \in Nat : p = StepsBefore(i, j)
  BY <1>2, <1>3, StepsAfter
<1>5. PICK t \in Val : t = op[e].tmp
  BY <1>2 DEF AliveOK, InOpOK
<1>6. PICK k \in Key : k = Op(e).key
  BY <1>1, InOpIs
<1>7. Mode = "READLOG" /\ IsRead(i, j)
  BY <1>2, <1>3 DEF AliveOK, InOpOK, IsRead
<1>8. PICK d \in LogData : d = PostReadData(k, t) /\ d.type = "PostRead" /\ d.result = t
  <2>1. 0 \in Nat /\ t \in Val \cup {None}
    OBVIOUS
  <2> QED BY <2>1, DataIs
<1>9. CASE AppendStep(e, d) /\ Deliver(e, t)
  <2>1. /\ Added(i, Proposal(e, d)) /\ env[e].stepNumber = Len(stream[i])
        /\ logTail' \in Nat /\ logTail' >= CallSeqNum
        /\ stream' \in [Instance -> Seq(LogRecord)]
        /\ fsm' = [x \in Executor |-> fsm'[x]] /\ \A x \in Executor : IsIntentFsm(fsm'[x])
        /\ \A x \in Executor : x # e => fsm'[x] = fsm[x]
        /\ pc' = pc /\ Runs(e)' /\ EnvMoves(e) /\ ~ env[e].exit /\ ~ env'[e].exit
    BY <1>2, <1>8, <1>9, AppendRuns
  <2>2. PICK entry \in LogRecord : entry = Proposal(e, d) /\ entry.data = d
    BY <2>1 DEF Added, Proposal
  <2>3. env[e].stepNumber = p
    <3>1. OnTrack(e) /\ p + 0 = p
      BY <1>2, <1>4, <2>1 DEF AliveOK
    <3> QED BY <1>2, <1>3, <1>4, <3>1 DEF OnTrack, Writing
  <2>4. TellOK(i, j, t)'
    <3>1. Len(stream'[i]) = p + 1 /\ stream'[i][p + 1] = entry /\ p + 1 <= p + 1
      BY <1>4, <2>1, <2>2, <2>3 DEF Added
    <3> QED BY <1>4, <1>7, <1>8, <2>2, <3>1 DEF TellOK, Outcome
  <2>5. /\ NextOp(e) /\ NewToldOK /\ DOMAIN told' = Instance
        /\ \A m \in Instance : told'[m] \in [1 .. Len(Program[m]) -> SUBSET (Val \cup {None})]
    BY <1>2, <1>3, <1>9, <2>4, DeliverIs
  <2>6. RWTypeOK'
    <3>1. op' \in [Executor -> OpState]
      BY <1>2, <2>5, NextOpIs
    <3> QED BY <1>1, <1>2, <2>1, <2>5, <3>1 DEF RWTypeOK, EnvMoves
  <2>7. Grows /\ LogOK'
    <3>1. entry.data.type # "PostWrite" /\ Added(i, entry)
      BY <1>8, <2>1, <2>2
    <3> QED BY <1>1, <1>2, <2>6, <3>1, LogAppended DEF Typed
  <2>8. env'[e].stepNumber = StepsBefore(i, op[e].idx + 1)
    <3>1. Logs("read") /\ Width = 1
      BY <1>7 DEF Logs, Width
    <3> QED BY <1>2, <1>3, <1>4, <2>1, <2>3, <3>1, StepsAfter DEF EnvMoves
  <2>9. /\ NewItemsOK /\ "read" # "write"
        /\ \A x \in Executor : x # e => env'[x] = env[x] /\ fsm'[x] = fsm[x]
    BY <1>1, <2>1, ItemsAlone DEF EnvMoves
  <2>10. ~ env'[e].exit /\ "read" = "write" => WriteOver(i, j)'
    BY <2>9
  <2>11. pc' = pc /\ Runs(e)' /\ (~ env'[e].exit => ~ env[e].exit)
    BY <2>1
  <2>12. NewToldOK /\ NextOp(e) /\ InOp(e, "read", "fetched") /\ j = op[e].idx
    BY <1>1, <1>3, <2>5
  <2> HIDE DEF i
  <2> QED BY <2>6, <2>7, <2>8, <2>9, <2>10, <2>11, <2>12, FinishOp DEF i
<1>10. CASE AppendPanic(e, d) /\ UNCHANGED <<op, told>>
  BY <1>1, <1>2, <1>8, <1>10, PanicStep
<1>11. CASE LoseStep(e) /\ Deliver(e, None)
  <2>1. /\ Runs(e)' /\ EnvMoves(e) /\ env'[e].exit /\ UNCHANGED <<logTail, stream, pc, fsm>>
    BY <1>2, <1>11, LoseIs
  <2>2. /\ NextOp(e) /\ NewToldOK /\ DOMAIN told' = Instance
        /\ \A m \in Instance : told'[m] \in [1 .. Len(Program[m]) -> SUBSET (Val \cup {None})]
    <3>1. None \in Val \cup {None}
      OBVIOUS
    <3> QED BY <1>2, <1>3, <1>11, <2>1, <3>1, DeliverIs
  <2>3. RWTypeOK'
    <3>1. op' \in [Executor -> OpState]
      BY <1>2, <2>2, NextOpIs
    <3> QED BY <1>1, <1>2, <2>1, <2>2, <3>1 DEF RWTypeOK, EnvMoves
  <2> QED BY <1>1, <2>1, <2>2, <2>3, OverStep
<1> QED BY <1>5, <1>6, <1>8, <1>9, <1>10, <1>11 DEF PostRead

LEMMA WriteSingleStep == ASSUME RWInv, NEW e \in Executor, WriteSingle(e) PROVE Keeps
<1> DEFINE i == InstanceOf[e]
<1>1. /\ InOp(e, "write", "start") /\ Mode = "READLOG" /\ Mode # "WRITELOG" /\ NextOp(e)
      /\ UNCHANGED <<logTail, stream, pc, env, fsm, keyStream, told>>
  BY DEF WriteSingle, vars
<1>2. /\ RWTypeOK /\ LogOK /\ AliveOK(e) /\ i \in Instance /\ pc[e] = "run"
      /\ op[e].idx <= Len(Program[i]) /\ op[e].at = "start" /\ Op(e).kind = "write"
  BY <1>1, InOpIs
<1>3. PICK k \in Key : k = Op(e).key
  BY <1>1, InOpIs
<1>4. PICK val \in Val : val = Op(e).val
  BY <1>1, InOpIs
<1>5. PICK seq \in Nat : seq = env[e].seqNum
  BY <1>2, Processes
<1>6. /\ \/ PutVersion(k, 0, val) /\ version' = [version EXCEPT ![k] = seq]
         \/ UNCHANGED <<item, version>>
  BY <1>3, <1>4, <1>5 DEF WriteSingle, CondUpdate
<1>7. /\ DOMAIN item' = Key
      /\ \A x \in Key : 0 \in DOMAIN item'[x] /\ item'[x] \in [DOMAIN item'[x] -> Val]
      /\ \A x \in Key : DOMAIN item'[x] = DOMAIN item[x]
      /\ \A x \in Key : \A w \in DOMAIN item[x] : w # 0 => item'[x][w] = item[x][w]
      /\ version' \in [Key -> Nat]
  <2>1. CASE UNCHANGED <<item, version>>
    BY <1>2, <2>1 DEF RWTypeOK
  <2>2. CASE PutVersion(k, 0, val) /\ version' = [version EXCEPT ![k] = seq]
    <3>1. /\ DOMAIN item' = Key
          /\ \A x \in Key : 0 \in DOMAIN item'[x] /\ item'[x] \in [DOMAIN item'[x] -> Val]
          /\ DOMAIN item'[k] = DOMAIN item[k] \cup {0}
          /\ \A w \in DOMAIN item[k] : w # 0 => item'[k][w] = item[k][w]
          /\ \A x \in Key : x # k => item'[x] = item[x]
      BY <1>2, <2>2, PutVersionIs
    <3>2. 0 \in DOMAIN item[k]
      BY <1>2 DEF RWTypeOK
    <3>3. version' \in [Key -> Nat]
      BY <1>2, <2>2 DEF RWTypeOK
    <3> QED BY <3>1, <3>2, <3>3
  <2> QED BY <1>6, <2>1, <2>2
<1>8. ItemsGrow /\ NewItemsOK /\ NewToldOK
  BY <1>1, <1>7, ToldAlone DEF ItemsGrow, NewItemsOK, Fixed
<1>9. RWTypeOK'
  <2>1. op' \in [Executor -> OpState]
    BY <1>1, <1>2, NextOpIs
  <2> QED BY <1>1, <1>2, <1>7, <2>1 DEF RWTypeOK
<1>10. Grows /\ LogOK'
  BY <1>1, <1>2, <1>8, <1>9, LogAlone DEF Typed
<1>11. Runs(e)'
  BY <1>1, <1>2, AliveRuns DEF Runs, Cursor
<1>12. PICK p \in Nat : p = StepsBefore(i, op[e].idx)
  BY <1>2, StepsAfter
<1>13. ~ env'[e].exit => env'[e].stepNumber = StepsBefore(i, op[e].idx + 1)
  <2>1. ~ Logs("write") /\ p + 0 = p
    BY <1>1, <1>12 DEF Logs
  <2>2. ~ env[e].exit => env[e].stepNumber = p
    BY <1>2, <1>12, <2>1 DEF AliveOK, OnTrack, Writing
  <2> QED BY <1>1, <1>2, <1>12, <2>1, <2>2, StepsAfter
<1>14. PICK j : j = op[e].idx
  OBVIOUS
<1>15. WriteOver(i, j)'
  BY <1>1 DEF WriteOver
<1>16. /\ pc' = pc /\ (~ env'[e].exit => ~ env[e].exit)
       /\ \A x \in Executor : x # e => env'[x] = env[x] /\ fsm'[x] = fsm[x]
  BY <1>1
<1> QED BY <1>1, <1>8, <1>9, <1>10, <1>11, <1>13, <1>14, <1>15, <1>16, FinishOp
-----------------------------------------------------------------------------
(***************************************************************************)
(* Every step keeps the invariant.                                         *)
(***************************************************************************)
LEMMA StutterStep == ASSUME RWInv, UNCHANGED rwVars PROVE Keeps
<1>1. UNCHANGED <<logTail, stream, pc, env, fsm, item, version, keyStream, op, told>>
  BY DEF rwVars
<1>2. RWTypeOK' /\ Typed /\ LogOK
  BY <1>1 DEF RWInv, RWTypeOK, Typed
<1>3. ItemsGrow
  BY <1>1, ItemsAlone
<1>4. Grows /\ LogOK'
  BY <1>1, <1>2, <1>3, LogAlone
<1>5. \A k \in Key : ItemsOK(k)'
  BY <1>1 DEF RWInv, ItemsOK, Owns
<1>6. ASSUME NEW e \in Executor, pc'[e] \in {"catch", "run"} PROVE AliveOK(e)'
  <2>1. AliveOK(e) /\ LeftAlone(e) /\ pc'[e] = pc[e]
    BY <1>1, <1>6 DEF RWInv, LeftAlone
  <2> QED BY <1>2, <1>4, <2>1, KeepAlive
<1>7. \A e \in Executor : PastOK(e)'
  BY <1>1 DEF RWInv, PastOK, WriteOver
<1>8. ASSUME NEW i \in Instance, NEW j \in DOMAIN Program[i] PROVE ToldOK(i, j)'
  <2>1. ASSUME NEW t \in told[i][j] PROVE TellOK(i, j, t)'
    <3>1. TellOK(i, j, t)
      BY DEF RWInv, ToldOK
    <3> QED BY <1>2, <1>4, <3>1, KeepTell
  <2> QED BY <1>1, <2>1 DEF ToldOK
<1> QED BY <1>2, <1>4, <1>5, <1>6, <1>7, <1>8 DEF RWInv, Keeps

LEMMA EveryStep == ASSUME RWInv, [RWNext]_rwVars PROVE Keeps
<1>1. CASE UNCHANGED rwVars
  BY <1>1, StutterStep
<1>2. ASSUME NEW e \in Executor, Work(e) PROVE Keeps
  <2>1. LoggedWrite(e) => Keeps
    BY PreWriteStep, SkipWriteStep, WriteItemStep, PostWriteStep DEF LoggedWrite
  <2>2. LoggedRead(e) => Keeps
    BY ReplayReadStep, FetchItemStep, PostReadStep DEF LoggedRead
  <2> QED BY <1>2, <2>1, <2>2, BeginStep, ReplayingStep, EndStep, FindVersionStep,
             ReadItemStep, WriteSingleStep, FieldMismatchStep DEF Work
<1>3. ASSUME NEW e \in Executor, Die(e) PROVE Keeps
  BY <1>3, DieStep
<1> QED BY <1>1, <1>2, <1>3 DEF RWNext

(***************************************************************************)
(* The invariant: the steps of a log are those of the operations before    *)
(* the cursor, one sequence number is one entry, and what the table and    *)
(* the streams of the keys hold is what the logged writes put there.       *)
(***************************************************************************)
THEOREM RWInvHolds == RWSpec => []RWInv
<1>1. RWInit => RWInv
  BY RWInitOK
<1>2. RWInv /\ [RWNext]_rwVars => RWInv'
  BY EveryStep DEF Keeps
<1> QED BY <1>1, <1>2, PTL DEF RWSpec

(***************************************************************************)
(* Version 0 of a key with dependent writes is written again and again: a  *)
(* log-free read of it has no outcome of its own.                          *)
(***************************************************************************)
ReadsArePlain ==
  Mode = "WRITELOG" =>
    \A i \in Instance : \A j \in DOMAIN Program[i] :
      IsRead(i, j) => Plain(Program[i][j].key)

(***************************************************************************)
(* All executions that get an answer to a read get the same one, from the  *)
(* log or from the version their common cursor selects, and it is data     *)
(* that was written (ReadWithLog, ReadWithoutLog).                         *)
(***************************************************************************)
THEOREM OneOutcomeHolds == ASSUME ReadsArePlain PROVE RWSpec => []OneOutcome
<1>1. RWInv => OneOutcome
  <2> SUFFICES ASSUME RWInv, NEW i \in Instance, NEW j \in DOMAIN told[i]
               PROVE  Cardinality(told[i][j]) <= 1 /\ told[i][j] \subseteq Val
    BY DEF OneOutcome
  <2>1. j \in DOMAIN Program[i]
    BY Programs DEF RWInv, RWTypeOK
  <2>2. PICK r : r = Outcome(i, j)
    OBVIOUS
  <2>3. ASSUME NEW t \in told[i][j] PROVE t = r /\ t \in Val
    <3>1. TellOK(i, j, t)
      BY <2>1 DEF RWInv, ToldOK
    <3>2. Mode = "READLOG" \/ Plain(Program[i][j].key)
      BY <2>1, <3>1, ModeAssumption DEF TellOK, ReadsArePlain
    <3> QED BY <2>2, <3>1, <3>2 DEF TellOK
  <2>4. told[i][j] = {} \/ told[i][j] = {r}
    BY <2>3
  <2>5. Cardinality({}) = 0 /\ Cardinality({r}) = 1
    BY FS_EmptySet, FS_Singleton
  <2>6. Cardinality(told[i][j]) = 0 \/ Cardinality(told[i][j]) = 1
    BY <2>4, <2>5, Zenon
  <2> QED BY <2>3, <2>6
<1> QED BY <1>1, RWInvHolds, PTL

(***************************************************************************)
(* The entry of the stream of k that a finished write is in, and the only  *)
(* write that can be in it.                                                *)
(***************************************************************************)
LEMMA SamePublished ==
  ASSUME RWTypeOK, LogOK, NEW k \in Key, NEW n \in 1 .. Len(keyStream[k]),
         NEW i \in Instance, NEW j \in DOMAIN Program[i], Published(k, n, i, j),
         Mode = "WRITELOG",
         NEW m \in Instance, NEW l \in DOMAIN Program[m], IsWrite(m, l),
         StepsBefore(m, l) + 2 <= Len(stream[m]),
         stream[m][StepsBefore(m, l) + 2].seqNum = keyStream[k][n].seqNum
  PROVE  m = i /\ l = j
<1>1. PICK p \in Nat, q \in Nat : p = StepsBefore(i, j) /\ q = StepsBefore(m, l)
  BY Programs, StepsNext
<1>2. IsWrite(i, j) /\ p + 2 <= Len(stream[i]) /\ stream[i][p + 2].seqNum = keyStream[k][n].seqNum
  BY <1>1 DEF Published
<1>3. p + 2 \in 1 .. Len(stream[i]) /\ q + 2 \in 1 .. Len(stream[m])
  BY <1>1, <1>2, Entries
<1>4. m = i /\ q + 2 = p + 2
  BY <1>1, <1>2, <1>3, SMTT(30) DEF LogOK, SeqNumsUnique
<1>5. p = q /\ Logs("write")
  BY <1>1, <1>4 DEF Logs
<1>6. j \in Nat \ {0} /\ l \in Nat \ {0}
  BY Programs
<1> QED BY <1>1, <1>2, <1>4, <1>5, <1>6, StepsDiffer DEF IsWrite

(***************************************************************************)
(* A write that is not dependent has a version of its own, in which its    *)
(* data is and stays.                                                      *)
(***************************************************************************)
LEMMA PublishedHolds ==
  ASSUME RWInv, NEW k \in Key, NEW n \in 1 .. Len(keyStream[k]),
         NEW i \in Instance, NEW j \in DOMAIN Program[i], Published(k, n, i, j),
         ~ Program[i][j].dep
  PROVE  /\ keyStream[k][n].version # 0
         /\ Owns(k, keyStream[k][n].version, i, j)
<1>1. RWTypeOK /\ LogOK /\ StreamOK(i)
  BY DEF RWInv, LogOK
<1>2. PICK p \in Nat : p = StepsBefore(i, j)
  BY Programs, StepsNext
<1>3. PICK v : v = keyStream[k][n].version
  OBVIOUS
<1>4. /\ IsWrite(i, j) /\ p + 2 <= Len(stream[i]) /\ v \in DOMAIN item[k]
      /\ v = stream[i][p + 1].seqNum
  BY <1>2, <1>3 DEF Published, VersionOf
<1>5. p + 1 \in 1 .. Len(stream[i]) /\ p + 1 <= Len(stream[i])
  BY <1>1, <1>4, Entries
<1>6. v \in Nat /\ v > CallSeqNum
  BY <1>1, <1>4, <1>5, Entries DEF StreamOK
<1>7. v # 0
  BY <1>6
<1>8. Mode = "WRITELOG"
  BY <1>1 DEF LogOK, KeyStreamOK
<1>9. PICK m \in Instance : \E l \in DOMAIN Program[m] : Owns(k, v, m, l)
  BY <1>4, <1>7 DEF RWInv, ItemsOK
<1>10. PICK l \in DOMAIN Program[m] : Owns(k, v, m, l)
  BY <1>9
<1>11. m = i /\ l = j
  BY <1>1, <1>2, <1>4, <1>5, <1>8, <1>10, SameWrite
<1> QED BY <1>3, <1>7, <1>10, <1>11

(***************************************************************************)
(* Dependent writes of a key replace one another in version 0.  From the   *)
(* first on it holds the data of one of them.                              *)
(***************************************************************************)
DependentValues(k) ==
  {x \in Val : \E i \in Instance : \E j \in DOMAIN Program[i] :
     IsWrite(i, j) /\ Program[i][j].key = k /\ Program[i][j].dep /\ Program[i][j].val = x}

DependentOK ==
  /\ \A k \in Key : \A n \in 1 .. Len(keyStream[k]) :
       keyStream[k][n].version = 0 => item[k][0] \in DependentValues(k)
  /\ \A e \in Executor : op[e].at = "written" =>
       /\ op[e].idx \in DOMAIN Program[InstanceOf[e]]
       /\ Op(e).dep => item[Op(e).key][0] \in DependentValues(Op(e).key)

\* Steps that neither write nor publish, and finish no write of an item.
LEMMA DependentAlone ==
  ASSUME RWTypeOK, DependentOK, UNCHANGED <<item, keyStream>>,
         \A x \in Executor : op'[x].at = "written" => op'[x] = op[x]
  PROVE  DependentOK'
<1>1. \A k \in Key : \A n \in 1 .. Len(keyStream'[k]) :
        keyStream'[k][n].version = 0 => item'[k][0] \in DependentValues(k)
  BY DEF DependentOK
<1>2. ASSUME NEW x \in Executor, op'[x].at = "written"
      PROVE  /\ op'[x].idx \in DOMAIN Program[InstanceOf[x]]
             /\ Op(x)'.dep => item'[Op(x)'.key][0] \in DependentValues(Op(x)'.key)
  <2>1. op'[x] = op[x] /\ Op(x)' = Op(x)
    BY <1>2 DEF Op
  <2> QED BY <1>2, <2>1 DEF DependentOK
<1> QED BY <1>1, <1>2 DEF DependentOK, DependentValues

\* Only the step that writes the item makes a write "written".
LEMMA OpMoves ==
  ASSUME RWTypeOK, NEW e \in Executor,
         \/ op' = op \/ op' = [op EXCEPT ![e] = FirstOp] \/ NextOp(e)
         \/ Advance(e, "prewritten")
         \/ op' = [op EXCEPT ![e].ver = VersionAt(Op(e).key, env[e].seqNum),
                             ![e].at = "versioned"]
  PROVE  \A x \in Executor : op'[x].at = "written" => op'[x] = op[x]
<1> SUFFICES ASSUME NEW x \in Executor, op'[x].at = "written" PROVE op'[x] = op[x]
  OBVIOUS
<1>1. op \in [Executor -> OpState]
  BY DEF RWTypeOK
<1>2. \A y \in Executor : op[y] = [idx |-> op[y].idx, at |-> op[y].at,
                                   tmp |-> op[y].tmp, ver |-> op[y].ver]
  BY <1>1 DEF OpState
<1>3. FirstOp.at = "start" /\ [FirstOp EXCEPT !.idx = op[e].idx + 1].at = "start"
  BY DEF FirstOp
<1>4. "start" # "written" /\ "prewritten" # "written" /\ "versioned" # "written"
  OBVIOUS
<1> QED BY <1>1, <1>2, <1>3, <1>4 DEF NextOp, Advance

LEMMA DependentStep ==
  ASSUME Mode = "WRITELOG", RWInv, DependentOK, [RWNext]_rwVars
  PROVE  DependentOK'
<1>1. RWTypeOK
  BY DEF RWInv
<1>2. CASE UNCHANGED rwVars
  BY <1>1, <1>2, DependentAlone DEF rwVars
<1>3. ASSUME NEW e \in Executor,
             Begin(e) \/ Replay(e) \/ End(e) \/ Die(e) \/ PreWrite(e) \/ SkipWrite(e)
               \/ FindVersion(e) \/ ReadItem(e) \/ FieldMismatch(e)
      PROVE  DependentOK'
  <2>1. UNCHANGED <<item, keyStream>>
    BY <1>3 DEF Begin, Replay, End, Die, PreWrite, SkipWrite, FindVersion, ReadItem,
                FieldMismatch, dbVars
  <2>2. \/ op' = op \/ op' = [op EXCEPT ![e] = FirstOp] \/ NextOp(e)
        \/ Advance(e, "prewritten")
        \/ op' = [op EXCEPT ![e].ver = VersionAt(Op(e).key, env[e].seqNum),
                            ![e].at = "versioned"]
    BY <1>3 DEF Begin, Replay, End, Die, PreWrite, SkipWrite, FindVersion, ReadItem,
                FieldMismatch, Deliver
  <2> QED BY <1>1, <2>1, <2>2, OpMoves, DependentAlone
<1>4. ASSUME NEW e \in Executor, WriteItem(e) PROVE DependentOK'
  <2>1. InOp(e, "write", "prewritten") /\ "prewritten" \in Writing
    BY <1>4 DEF WriteItem, Writing
  <2>2. /\ op[e].idx \in DOMAIN Program[InstanceOf[e]] /\ Op(e).kind = "write"
        /\ Op(e) = Program[InstanceOf[e]][op[e].idx] /\ InstanceOf[e] \in Instance
        /\ Op(e).key \in Key /\ Op(e).val \in Val
    BY <2>1, InOpIs
  <2>3. PICK k \in Key : k = Op(e).key
    BY <2>2
  <2>4. PICK val \in Val : val = Op(e).val
    BY <2>2
  <2>5. PICK v : v = WriteVersion(e)
    OBVIOUS
  <2>6. PutVersion(k, v, val) /\ UNCHANGED keyStream /\ Advance(e, "written")
    BY <1>4, <2>3, <2>4, <2>5 DEF WriteItem
  <2>7. (Op(e).dep => v = 0) /\ (~ Op(e).dep => v # 0)
    BY <2>1, <2>5, Prewritten
  <2>8. Op(e).dep => val \in DependentValues(k)
    BY <2>2, <2>3, <2>4 DEF DependentValues, IsWrite
  <2>9. /\ item'[k][v] = val /\ \A w \in DOMAIN item[k] : w # v => item'[k][w] = item[k][w]
        /\ \A x \in Key : x # k => item'[x] = item[x]
    BY <1>1, <2>6, PutVersionIs
  <2>10. \A x \in Key : 0 \in DOMAIN item[x]
    BY <1>1 DEF RWTypeOK
  <2>11. Op(e).dep \in BOOLEAN
    BY <2>2, Programs
  <2>12. \A x \in Key : item'[x][0] = item[x][0] \/ item'[x][0] \in DependentValues(x)
    BY <2>7, <2>8, <2>9, <2>10, <2>11
  <2>13. \A x \in Executor : x # e => op'[x] = op[x]
    BY <1>1, <2>6 DEF Advance, RWTypeOK
  <2>14. op'[e].idx = op[e].idx
    BY <1>1, <2>6 DEF Advance, RWTypeOK, OpState
  <2>15. ASSUME NEW x \in Executor, op'[x].at = "written"
         PROVE  /\ op'[x].idx \in DOMAIN Program[InstanceOf[x]]
                /\ Op(x)'.dep => item'[Op(x)'.key][0] \in DependentValues(Op(x)'.key)
    <3>1. CASE x = e
      <4>1. Op(e)' = Op(e)
        BY <2>14 DEF Op
      <4> QED BY <2>2, <2>3, <2>7, <2>8, <2>9, <2>14, <3>1, <4>1
    <3>2. CASE x # e
      <4>1. op'[x] = op[x] /\ Op(x)' = Op(x)
        BY <2>13, <3>2 DEF Op
      <4>2. /\ op[x].idx \in DOMAIN Program[InstanceOf[x]]
            /\ Op(x).dep => item[Op(x).key][0] \in DependentValues(Op(x).key)
        BY <2>15, <4>1 DEF DependentOK
      <4>3. Op(x).key \in Key
        <5>1. InstanceOf[x] \in Instance
          OBVIOUS
        <5> QED BY <4>2, <5>1, Programs DEF Op
      <4> QED BY <2>12, <4>1, <4>2, <4>3
    <3> QED BY <3>1, <3>2
  <2>16. \A x \in Key : \A n \in 1 .. Len(keyStream'[x]) :
           keyStream'[x][n].version = 0 => item'[x][0] \in DependentValues(x)
    BY <2>6, <2>12 DEF DependentOK
  <2> QED BY <2>15, <2>16 DEF DependentOK, DependentValues
<1>5. ASSUME NEW e \in Executor, PostWrite(e) PROVE DependentOK'
  <2>1. InOp(e, "write", "written") /\ "written" \in Writing /\ NextOp(e) /\ UNCHANGED item
    BY <1>5 DEF PostWrite, Writing
  <2>2. op[e].at = "written" /\ Op(e).key \in Key
    BY <2>1, InOpIs
  <2>3. WriteVersion(e) = 0 => item[Op(e).key][0] \in DependentValues(Op(e).key)
    <3>1. Op(e).dep \in BOOLEAN /\ (~ Op(e).dep => WriteVersion(e) # 0)
      BY <2>1, InOpIs, Prewritten, Programs
    <3> QED BY <2>2, <3>1 DEF DependentOK
  <2>4. ASSUME NEW k \in Key, NEW n \in 1 .. Len(keyStream'[k]), keyStream'[k][n].version = 0
        PROVE  item'[k][0] \in DependentValues(k)
    <3>1. keyStream \in [Key -> Seq(VersionRecord)]
      BY <1>1 DEF RWTypeOK
    <3>2. CASE keyStream'[k] = keyStream[k]
      BY <2>1, <2>4, <3>2 DEF DependentOK
    <3>3. CASE keyStream'[k] # keyStream[k]
      <4> DEFINE r == [seqNum |-> logTail + 1, version |-> WriteVersion(e)]
      <4>1. k = Op(e).key /\ keyStream'[k] = Append(keyStream[k], r)
        BY <1>5, <2>2, <3>1, <3>3 DEF PostWrite, Publish
      <4>2. r.version = WriteVersion(e)
        OBVIOUS
      <4> HIDE DEF r
      <4>3. \/ n \in 1 .. Len(keyStream[k]) /\ keyStream'[k][n] = keyStream[k][n]
            \/ keyStream'[k][n] = r
        BY <3>1, <4>1
      <4> QED BY <2>1, <2>3, <2>4, <4>1, <4>2, <4>3 DEF DependentOK
    <3> QED BY <3>2, <3>3
  <2>5. \A x \in Executor : op'[x].at = "written" => op'[x] = op[x]
    BY <1>1, <2>1, OpMoves
  <2>6. ASSUME NEW x \in Executor, op'[x].at = "written"
        PROVE  /\ op'[x].idx \in DOMAIN Program[InstanceOf[x]]
               /\ Op(x)'.dep => item'[Op(x)'.key][0] \in DependentValues(Op(x)'.key)
    <3>1. op'[x] = op[x] /\ Op(x)' = Op(x)
      BY <2>5, <2>6 DEF Op
    <3> QED BY <2>1, <2>6, <3>1 DEF DependentOK
  <2> QED BY <2>4, <2>6 DEF DependentOK, DependentValues
<1>6. ASSUME NEW e \in Executor, LoggedRead(e) \/ WriteSingle(e) PROVE DependentOK'
  <2>1. Mode # "READLOG"
    OBVIOUS
  <2>2. ~ PostRead(e)
    <3>1. ASSUME PostRead(e) PROVE FALSE
      <4>1. InOp(e, "read", "fetched")
        BY <3>1 DEF PostRead
      <4> QED BY <2>1, <4>1, InOpIs DEF AliveOK, InOpOK
    <3> QED BY <3>1
  <2> QED BY <1>6, <2>1, <2>2 DEF LoggedRead, ReplayRead, FetchItem, WriteSingle
<1> QED BY <1>2, <1>3, <1>4, <1>5, <1>6 DEF RWNext, Work, LoggedWrite

(***************************************************************************)
(* An execution that ends well has passed every write of its program, with *)
(* the PostWrite step in the log and so in the stream of the key, and the  *)
(* version it names holds the data (WriteWithLog and the end of            *)
(* wrapperInternal).  With READLOG nothing is published.  Dependent writes *)
(* of a key replace one another, so they have to put the same data there.  *)
(***************************************************************************)
THEOREM AckedWritesHold ==
  ASSUME Mode = "WRITELOG",
         \A k \in Key : \A x, y \in DependentValues(k) : x = y
  PROVE  RWSpec => []AckedWritesPublished
<1>1. RWInit => DependentOK
  <2> SUFFICES ASSUME RWInit PROVE DependentOK
    OBVIOUS
  <2>1. \A k \in Key : Len(keyStream[k]) = 0
    BY DEF RWInit
  <2>2. \A e \in Executor : op[e].at = "start"
    BY DEF RWInit, FirstOp
  <2> QED BY <2>1, <2>2 DEF DependentOK
<1>2. RWInv /\ DependentOK /\ [RWNext]_rwVars => DependentOK'
  BY DependentStep
<1>3. RWInv /\ DependentOK => AckedWritesPublished
  <2> SUFFICES ASSUME RWInv, DependentOK, NEW e \in Executor, pc[e] = "done", NEW k \in Key,
                      NEW j \in Writes(InstanceOf[e], k)
               PROVE  \E n \in 1 .. Len(keyStream[k]) :
                        GetItem(k, keyStream[k][n].version) = Program[InstanceOf[e]][j].val
    BY DEF AckedWritesPublished
  <2>1. PICK i \in Instance : i = InstanceOf[e]
    OBVIOUS
  <2>2. j \in DOMAIN Program[i] /\ IsWrite(i, j) /\ Program[i][j].key = k
    BY <2>1 DEF Writes, IsWrite
  <2>3. PICK p \in Nat : p = StepsBefore(i, j)
    BY <2>2, Programs, StepsNext
  <2>4. WriteOver(i, j) /\ RWTypeOK /\ LogOK
    BY <2>1, <2>2 DEF RWInv, PastOK
  <2>5. /\ p + 2 <= Len(stream[i]) /\ stream[i][p + 2].data.type = "PostWrite"
        /\ stream[i][p + 2].data.key = k
    BY <2>2, <2>3, <2>4 DEF WriteOver
  <2>6. p + 2 \in 1 .. Len(stream[i])
    BY <2>4, <2>5, Entries
  <2>7. PICK n \in 1 .. Len(keyStream[k]) : keyStream[k][n].seqNum = stream[i][p + 2].seqNum
    BY <2>4, <2>5, <2>6 DEF LogOK, PostWritesOK
  <2>8a. PICK m \in Instance : \E l \in DOMAIN Program[m] : Published(k, n, m, l)
    BY <2>4 DEF LogOK, KeyStreamOK
  <2>8. PICK l \in DOMAIN Program[m] : Published(k, n, m, l)
    BY <2>8a
  <2>9. i = m /\ j = l
    BY <2>2, <2>3, <2>4, <2>5, <2>7, <2>8, SamePublished
  <2>10. keyStream[k][n].version \in DOMAIN item[k] /\ keyStream[k][n].version = VersionOf(i, j)
    BY <2>8, <2>9 DEF Published
  <2>11. CASE ~ Program[i][j].dep
    <3>1. Owns(k, keyStream[k][n].version, i, j)
      BY <2>8, <2>9, <2>11, PublishedHolds
    <3> QED BY <2>1, <2>10, <3>1 DEF GetItem, Owns
  <2>12. CASE Program[i][j].dep
    <3>1. keyStream[k][n].version = 0
      BY <2>10, <2>12 DEF VersionOf
    <3>2. item[k][0] \in DependentValues(k)
      BY <3>1 DEF DependentOK
    <3>3. Program[i][j].val \in DependentValues(k)
      BY <2>2, <2>12, Programs DEF DependentValues, IsWrite
    <3>4. item[k][0] = Program[i][j].val
      BY <3>2, <3>3
    <3> QED BY <2>1, <2>10, <3>1, <3>4 DEF GetItem
  <2> QED BY <2>11, <2>12
<1> QED BY <1>1, <1>2, <1>3, RWInvHolds, PTL DEF RWSpec

(***************************************************************************)
(* The writes of a key are finitely many, and the entries in its stream    *)
(* are of different ones.                                                  *)
(***************************************************************************)
LEMMA FiniteImage ==
  ASSUME NEW S, IsFiniteSet(S), NEW f, f \in [S -> {f[x] : x \in S}]
  PROVE  IsFiniteSet({f[x] : x \in S})
<1>1. f \in Surjection(S, {f[x] : x \in S})
  BY DEF Surjection
<1> QED BY <1>1, FS_Surjection

LEMMA AllWritesFinite ==
  ASSUME IsFiniteSet(Instance), NEW k \in Key
  PROVE  IsFiniteSet(AllWrites(k))
<1> DEFINE Of(i) == {<<i, j>> : j \in Writes(i, k)}
           f == [i \in Instance |-> Of(i)]
<1>1. ASSUME NEW i \in Instance PROVE IsFiniteSet(Of(i))
  <2>1. Writes(i, k) \in SUBSET (1 .. Len(Program[i])) /\ Len(Program[i]) \in Nat
    BY Programs DEF Writes
  <2>2a. IsFiniteSet(1 .. Len(Program[i]))
    BY <2>1, FS_Interval
  <2>2. IsFiniteSet(Writes(i, k))
    BY <2>1, <2>2a, FS_Subset
  <2> DEFINE g == [j \in Writes(i, k) |-> <<i, j>>]
  <2>3. Of(i) = {g[j] : j \in Writes(i, k)} /\ g \in [Writes(i, k) -> {g[j] : j \in Writes(i, k)}]
    OBVIOUS
  <2> HIDE DEF g
  <2> QED BY <2>2, <2>3, FiniteImage
<1>2. {Of(i) : i \in Instance} = {f[i] : i \in Instance}
  OBVIOUS
<1>3. f \in [Instance -> {f[i] : i \in Instance}]
  OBVIOUS
<1>4. IsFiniteSet({Of(i) : i \in Instance})
  <2> HIDE DEF f, Of
  <2>1. IsFiniteSet({f[i] : i \in Instance})
    BY <1>3, FiniteImage
  <2> QED BY <1>2, <2>1
<1>5. IsFiniteSet(UNION {Of(i) : i \in Instance})
  <2>1. \A T \in {Of(i) : i \in Instance} : IsFiniteSet(T)
    BY <1>1
  <2> HIDE DEF Of
  <2> QED BY <1>4, <2>1, FS_UNION
<1> QED BY <1>5 DEF AllWrites

LEMMA EntriesDiffer ==
  ASSUME RWInv, NEW k \in Key, NEW m \in 1 .. Len(keyStream[k]), NEW n \in 1 .. Len(keyStream[k]),
         NEW i \in Instance, NEW j \in DOMAIN Program[i],
         Published(k, m, i, j), Published(k, n, i, j)
  PROVE  m = n
<1>1. keyStream[k][m].seqNum = keyStream[k][n].seqNum
  BY DEF Published
<1>2. KeyStreamOK(k) /\ Len(keyStream[k]) \in Nat
  BY KeyEntries DEF RWInv, LogOK
<1>3. keyStream[k][m].seqNum \in Nat
  BY KeyEntries DEF RWInv
<1>4. ASSUME m < n PROVE FALSE
  <2>1. m \in 1 .. n - 1
    BY <1>2, <1>4
  <2> QED BY <1>1, <1>2, <1>3, <2>1 DEF KeyStreamOK
<1>5. ASSUME n < m PROVE FALSE
  <2>1. n \in 1 .. m - 1
    BY <1>2, <1>5
  <2> QED BY <1>1, <1>2, <1>3, <2>1 DEF KeyStreamOK
<1> QED BY <1>2, <1>4, <1>5

LEMMA OneVersion ==
  ASSUME IsFiniteSet(Instance), RWInv, NEW k \in Key
  PROVE  OneVersionPerWrite(k)
<1>1. RWTypeOK /\ LogOK /\ Len(keyStream[k]) \in Nat
  BY KeyEntries DEF RWInv
<1>2. Len(keyStream[k]) <= Cardinality(AllWrites(k))
  <2> DEFINE f == [n \in 1 .. Len(keyStream[k]) |->
                     CHOOSE w \in AllWrites(k) : Published(k, n, w[1], w[2])]
  <2>1. ASSUME NEW n \in 1 .. Len(keyStream[k])
        PROVE  f[n] \in AllWrites(k) /\ Published(k, n, f[n][1], f[n][2])
    <3>1a. PICK i \in Instance : \E j \in DOMAIN Program[i] : Published(k, n, i, j)
      BY <1>1 DEF LogOK, KeyStreamOK
    <3>1. PICK j \in DOMAIN Program[i] : Published(k, n, i, j)
      BY <3>1a
    <3>2. j \in Writes(i, k)
      BY <3>1 DEF Published, IsWrite, Writes
    <3>3. PICK w : w = <<i, j>>
      OBVIOUS
    <3>4. w \in AllWrites(k) /\ Published(k, n, w[1], w[2])
      BY <3>1, <3>2, <3>3 DEF AllWrites
    <3> QED BY <3>4
  <2>2. f \in [1 .. Len(keyStream[k]) -> AllWrites(k)]
    BY <2>1
  <2> HIDE DEF f
  <2>3. ASSUME NEW m \in 1 .. Len(keyStream[k]), NEW n \in 1 .. Len(keyStream[k]), f[m] = f[n]
        PROVE  m = n
    <3>1a. PICK i \in Instance : \E j \in Writes(i, k) : f[m] = <<i, j>>
      BY <2>1 DEF AllWrites
    <3>1. PICK j \in Writes(i, k) : f[m] = <<i, j>>
      BY <3>1a
    <3>2. j \in DOMAIN Program[i]
      BY DEF Writes
    <3>3. f[m][1] = i /\ f[m][2] = j /\ f[n][1] = i /\ f[n][2] = j
      BY <2>3, <3>1
    <3>4. Published(k, m, i, j) /\ Published(k, n, i, j)
      <4>1. Published(k, m, f[m][1], f[m][2]) /\ Published(k, n, f[n][1], f[n][2])
        BY <2>1
      <4> QED BY <3>3, <4>1
    <3> QED BY <3>2, <3>4, EntriesDiffer
  <2>4. f \in Injection(1 .. Len(keyStream[k]), AllWrites(k))
    BY <2>2, <2>3 DEF Injection, IsInjective
  <2>5. Cardinality(1 .. Len(keyStream[k])) <= Cardinality(AllWrites(k))
    BY <2>4, AllWritesFinite, FS_Injection
  <2>6. Cardinality(1 .. Len(keyStream[k])) = Len(keyStream[k])
    BY <1>1, FS_Interval
  <2> QED BY <2>5, <2>6
<1>3. ASSUME NEW m \in 1 .. Len(keyStream[k]), NEW n \in 1 .. Len(keyStream[k]),
             keyStream[k][m].version = keyStream[k][n].version, keyStream[k][m].version # 0
      PROVE  m = n
  <2>1a. PICK i \in Instance : \E j \in DOMAIN Program[i] : Published(k, m, i, j)
    BY <1>1 DEF LogOK, KeyStreamOK
  <2>1. PICK j \in DOMAIN Program[i] : Published(k, m, i, j)
    BY <2>1a
  <2>2a. PICK x \in Instance : \E y \in DOMAIN Program[x] : Published(k, n, x, y)
    BY <1>1 DEF LogOK, KeyStreamOK
  <2>2. PICK y \in DOMAIN Program[x] : Published(k, n, x, y)
    BY <2>2a
  <2>3. PICK v : v = keyStream[k][m].version
    OBVIOUS
  <2>4. ~ Program[i][j].dep /\ ~ Program[x][y].dep
    BY <1>3, <2>1, <2>2 DEF Published, VersionOf
  <2>5. Owns(k, v, i, j)
    BY <2>1, <2>3, <2>4, PublishedHolds
  <2>6. PICK q \in Nat : q = StepsBefore(x, y)
    BY Programs, StepsNext
  <2>7. IsWrite(x, y) /\ q + 2 <= Len(stream[x]) /\ v = stream[x][q + 1].seqNum
    BY <1>3, <2>2, <2>3, <2>4, <2>6 DEF Published, VersionOf
  <2>8. q + 1 <= Len(stream[x]) /\ Mode = "WRITELOG"
    BY <1>1, <2>7, Entries DEF LogOK, KeyStreamOK
  <2>9. x = i /\ y = j
    BY <1>1, <2>5, <2>6, <2>7, <2>8, SameWrite
  <2> QED BY <2>1, <2>2, <2>9, EntriesDiffer
<1> QED BY <1>2, <1>3 DEF OneVersionPerWrite

(***************************************************************************)
(* However often a write is repeated, by whom and after which crashes, the *)
(* stream of the key gets one version of it, a later entry never takes     *)
(* over a version, and the data under a published version stays            *)
(* (WriteWithLog; version 0, that of the dependent writes, is the          *)
(* exception that PublishedOnce makes).                                    *)
(***************************************************************************)
THEOREM PublishedOnceHolds ==
  ASSUME IsFiniteSet(Instance)
  PROVE  RWSpec => PublishedOnce
<1> DEFINE Once == \A k \in Key : OneVersionPerWrite(k)
           Stay == \A k \in Key : VersionsStay(k)
<1>1. RWInv => Once
  BY OneVersion
<1>2. RWInv /\ [RWNext]_rwVars => Stay
  <2> SUFFICES ASSUME RWInv, [RWNext]_rwVars, NEW k \in Key,
                      NEW n \in 1 .. Len(keyStream[k]), keyStream[k][n].version # 0
               PROVE  /\ keyStream'[k][n] = keyStream[k][n]
                      /\ item'[k][keyStream[k][n].version] = item[k][keyStream[k][n].version]
    BY DEF VersionsStay
  <2>1. LogGrows /\ ItemsGrow
    BY EveryStep DEF Keeps, Grows
  <2>2. keyStream[k][n].version \in DOMAIN item[k]
    BY DEF RWInv, LogOK, KeyStreamOK, Published
  <2> QED BY <2>1, <2>2 DEF LogGrows, ItemsGrow, Fixed
<1>3. RWInv' => Once'
  BY <1>1, PTL
<1>4. RWInv /\ RWInv' /\ [RWNext]_rwVars => \A k \in Key : OneVersionPerWrite(k)' /\ VersionsStay(k)
  BY <1>2, <1>3
<1>5. RWInv /\ RWInv' /\ [RWNext]_rwVars =>
        [\A k \in Key : OneVersionPerWrite(k)' /\ VersionsStay(k)]_rwVars
  BY <1>4
<1> QED BY <1>5, RWInvHolds, PTL DEF RWSpec, PublishedOnce
-----------------------------------------------------------------------------
(***************************************************************************)
(* Which data an instance may still read after a write of its own.  With   *)
(* READLOG a write is ordered by its cursor, that of the steps before it;  *)
(* the item of a key is that of a write whose cursor is its VERSION.       *)
(***************************************************************************)
Wrote(i, j, k, val, c) ==
  /\ IsWrite(i, j) /\ Program[i][j].key = k /\ Program[i][j].val = val
  /\ StepsBefore(i, j) <= Len(stream[i]) /\ CursorOf(i, j) = c

PutAt(k, val, c) ==
  \E i \in Instance : \E j \in DOMAIN Program[i] : Wrote(i, j, k, val, c)

\* As a result of operation j of i, t is not behind what i wrote before.
Recent(i, j, t) ==
  LET k == Program[i][j].key
  IN  /\ StepsBefore(i, j) <= Len(stream[i])
      /\ \A w \in Writes(i, k) : w < j =>
           \E c \in Nat : c >= CursorOf(i, w) /\ PutAt(k, t, c)

SingleOK(k) == version[k] # 0 => PutAt(k, item[k][0], version[k])

WrittenOK(e) ==
  LET i == InstanceOf[e]
  IN  pc[e] = "run" /\ ~ env[e].exit =>
        /\ \A k \in Key : \A w \in Writes(i, k) :
             w < op[e].idx => version[k] >= CursorOf(i, w)
        /\ op[e].at = "fetched" => Recent(i, op[e].idx, op[e].tmp)

LoggedOK(i) ==
  \A j \in DOMAIN Program[i] :
    IsRead(i, j) /\ StepsBefore(i, j) + 1 <= Len(stream[i]) =>
      Recent(i, j, stream[i][StepsBefore(i, j) + 1].data.result)

OwnInv ==
  /\ \A k \in Key : SingleOK(k)
  /\ \A e \in Executor : WrittenOK(e)
  /\ \A i \in Instance : LoggedOK(i)

LEMMA StepsGrow ==
  ASSUME NEW i \in Instance, NEW j \in Nat \ {0}, NEW m \in Nat \ {0}, j <= m
  PROVE  StepsBefore(i, j) <= StepsBefore(i, m)
<1>1. /\ IsFiniteSet(LoggedOps(i, m)) /\ Cardinality(LoggedOps(i, m)) \in Nat
      /\ Cardinality(LoggedOps(i, j)) \in Nat
  BY LoggedOpsFinite
<1>2. LoggedOps(i, j) \in SUBSET LoggedOps(i, m)
  BY DEF LoggedOps
<1>3. Cardinality(LoggedOps(i, j)) <= Cardinality(LoggedOps(i, m))
  BY <1>1, <1>2, FS_Subset
<1> HIDE DEF LoggedOps
<1> QED BY <1>1, <1>3 DEF StepsBefore

\* The writes of i to k before operation j have their steps before it.
LEMMA WritesBefore ==
  ASSUME NEW i \in Instance, NEW k, NEW w \in Writes(i, k), NEW j \in Nat \ {0}, w <= j
  PROVE  /\ w \in DOMAIN Program[i] /\ w \in Nat \ {0} /\ IsWrite(i, w)
         /\ Program[i][w].key = k /\ StepsBefore(i, w) \in Nat
         /\ StepsBefore(i, w) <= StepsBefore(i, j)
<1>1. w \in DOMAIN Program[i] /\ w \in Nat \ {0} /\ IsWrite(i, w) /\ Program[i][w].key = k
  BY Programs DEF Writes, IsWrite
<1> QED BY <1>1, StepsNext, StepsGrow

LEMMA KeepCursorOf ==
  ASSUME Typed, Grows, NEW i \in Instance, NEW j \in DOMAIN Program[i],
         StepsBefore(i, j) <= Len(stream[i])
  PROVE  CursorOf(i, j)' = CursorOf(i, j) /\ StepsBefore(i, j) <= Len(stream'[i])
<1>1. PICK p \in Nat : p = StepsBefore(i, j)
  BY Programs, StepsNext
<1>2. Cursor(i, p)' = Cursor(i, p) /\ p <= Len(stream'[i])
  BY <1>1, KeepCursor
<1> QED BY <1>1, <1>2 DEF CursorOf

LEMMA KeepPut ==
  ASSUME Typed, Grows, NEW k, NEW val, NEW c, PutAt(k, val, c)
  PROVE  PutAt(k, val, c)'
<1>1. PICK i \in Instance : \E j \in DOMAIN Program[i] : Wrote(i, j, k, val, c)
  BY DEF PutAt
<1>2. PICK j \in DOMAIN Program[i] : Wrote(i, j, k, val, c)
  BY <1>1
<1>3. CursorOf(i, j)' = CursorOf(i, j) /\ StepsBefore(i, j) <= Len(stream'[i])
  BY <1>2, KeepCursorOf DEF Wrote
<1>4. Wrote(i, j, k, val, c)'
  BY <1>2, <1>3 DEF Wrote
<1> QED BY <1>4 DEF PutAt

LEMMA KeepRecent ==
  ASSUME Typed, Grows, NEW i \in Instance, NEW j \in DOMAIN Program[i], NEW t, Recent(i, j, t)
  PROVE  Recent(i, j, t)'
<1>1. PICK k : k = Program[i][j].key
  OBVIOUS
<1>2. StepsBefore(i, j) <= Len(stream[i]) /\ j \in Nat \ {0} /\ StepsBefore(i, j) \in Nat
  BY Programs, StepsNext DEF Recent
<1>3. StepsBefore(i, j) <= Len(stream'[i])
  BY <1>2, KeepCursorOf
<1>4. ASSUME NEW w \in Writes(i, k), w < j
      PROVE  \E c \in Nat : c >= CursorOf(i, w)' /\ PutAt(k, t, c)'
  <2>1. PICK c \in Nat : c >= CursorOf(i, w) /\ PutAt(k, t, c)
    BY <1>1, <1>4 DEF Recent
  <2>2. w \in Nat \ {0} /\ w \in DOMAIN Program[i]
    BY Programs DEF Writes
  <2>3. StepsBefore(i, w) <= Len(stream[i])
    <3>1. StepsBefore(i, w) <= StepsBefore(i, j) /\ StepsBefore(i, w) \in Nat
      BY <1>2, <1>4, <2>2, WritesBefore
    <3> QED BY <1>2, <3>1, Entries DEF Typed
  <2>4. CursorOf(i, w)' = CursorOf(i, w)
    BY <2>2, <2>3, KeepCursorOf
  <2>5. PutAt(k, t, c)'
    BY <2>1, KeepPut
  <2> QED BY <2>1, <2>4, <2>5
<1> QED BY <1>1, <1>3, <1>4 DEF Recent

(***************************************************************************)
(* How a step keeps OwnInv: it raises versions only, replaces an item only *)
(* with that of a write at its VERSION, and touches one execution.         *)
(***************************************************************************)
OthersRun(e) ==
  \A x \in Executor : x # e => pc'[x] = pc[x] /\ env'[x] = env[x] /\ op'[x] = op[x]

LEMMA KeepWritten ==
  ASSUME RWInv, OwnInv, Keeps, NEW e \in Executor, pc[e] = "run", ~ env[e].exit,
         \A k \in Key : version'[k] >= version[k], NEW j \in Nat \ {0}, j = op[e].idx
  PROVE  LET i == InstanceOf[e]
         IN  /\ StepsBefore(i, j) \in Nat /\ StepsBefore(i, j) <= Len(stream[i])
             /\ op[e].at \notin Writing => env[e].seqNum = CursorOf(i, j)
             /\ \A k \in Key : \A w \in Writes(i, k) :
                  w < j => version'[k] >= CursorOf(i, w)'
<1> DEFINE i == InstanceOf[e]
<1>1. /\ Typed /\ Grows /\ RWTypeOK /\ RWTypeOK' /\ LogOK /\ i \in Instance
      /\ AliveOK(e) /\ OnTrack(e) /\ WrittenOK(e)
  BY DEF Keeps, RWInv, Typed, OwnInv, AliveOK
<1>2. PICK p \in Nat : p = StepsBefore(i, j)
  BY <1>1, StepsNext
<1>3. p <= Len(stream[i]) /\ Len(stream[i]) \in Nat
  BY <1>1, <1>2, Entries, Processes DEF AliveOK, OnTrack
<1>4. ASSUME NEW k \in Key, NEW w \in Writes(i, k), w < j
      PROVE  version'[k] >= CursorOf(i, w)'
  <2>1. w \in Nat \ {0} /\ w \in DOMAIN Program[i]
    BY <1>1, Programs DEF Writes
  <2>2. StepsBefore(i, w) \in Nat /\ StepsBefore(i, w) <= Len(stream[i])
    <3>1. StepsBefore(i, w) <= StepsBefore(i, j) /\ StepsBefore(i, w) \in Nat
      BY <1>1, <1>4, <2>1, WritesBefore
    <3> QED BY <1>2, <1>3, <3>1
  <2>3. CursorOf(i, w)' = CursorOf(i, w)
    BY <1>1, <2>1, <2>2, KeepCursorOf
  <2>4. CursorOf(i, w) \in Nat
    BY <1>1, <2>2, CursorIs DEF CursorOf, LogOK
  <2>5. version[k] >= CursorOf(i, w) /\ version'[k] >= version[k]
    BY <1>1, <1>4 DEF WrittenOK
  <2>6. version[k] \in Nat /\ version'[k] \in Nat
    BY <1>1 DEF RWTypeOK
  <2> QED BY <2>3, <2>4, <2>5, <2>6
<1>5. ASSUME op[e].at \notin Writing PROVE env[e].seqNum = CursorOf(i, j)
  <2>1. env[e].stepNumber = p /\ env[e].seqNum = Cursor(i, p)
    BY <1>1, <1>2, <1>5 DEF OnTrack
  <2> QED BY <1>2, <2>1 DEF CursorOf
<1> QED BY <1>2, <1>3, <1>4, <1>5

LEMMA OwnKept ==
  ASSUME RWInv, OwnInv, Keeps, NEW e \in Executor, OthersRun(e),
         \A k \in Key : version'[k] >= version[k],
         \A k \in Key : (version'[k] = version[k] /\ item'[k][0] = item[k][0]) \/ SingleOK(k)',
         WrittenOK(e)',
         \A i \in Instance : stream'[i] = stream[i] \/ LoggedOK(i)'
  PROVE  OwnInv'
<1>1. Typed /\ Grows /\ RWTypeOK /\ RWTypeOK' /\ LogOK
  BY DEF Keeps, RWInv, Typed
<1>2. ASSUME NEW k \in Key PROVE SingleOK(k)'
  <2> SUFFICES ASSUME version'[k] = version[k], item'[k][0] = item[k][0], version[k] # 0
               PROVE  PutAt(k, item[k][0], version[k])'
    BY DEF SingleOK
  <2>1. PICK v, c : v = item[k][0] /\ c = version[k]
    OBVIOUS
  <2>2. PutAt(k, v, c)
    BY <2>1 DEF OwnInv, SingleOK
  <2>3. PutAt(k, v, c)'
    BY <1>1, <2>2, KeepPut
  <2> QED BY <2>1, <2>3
<1>3. ASSUME NEW x \in Executor PROVE WrittenOK(x)'
  <2>1. CASE x = e
    BY <2>1
  <2>2. CASE x # e
    <3> DEFINE i == InstanceOf[x]
    <3>1. i \in Instance /\ pc'[x] = pc[x] /\ env'[x] = env[x] /\ op'[x] = op[x] /\ WrittenOK(x)
      BY <2>2 DEF OthersRun, OwnInv
    <3> SUFFICES ASSUME pc[x] = "run", ~ env[x].exit PROVE WrittenOK(x)'
      BY <3>1 DEF WrittenOK
    <3>2. AliveOK(x) /\ OnTrack(x)
      BY DEF RWInv, AliveOK
    <3>3. PICK j \in Nat \ {0} : j = op[x].idx
      BY <1>1, Processes
    <3>6. \A k \in Key : \A w \in Writes(i, k) : w < j => version'[k] >= CursorOf(i, w)'
      BY <3>3, KeepWritten
    <3>7. ASSUME op[x].at = "fetched" PROVE Recent(i, j, op[x].tmp)'
      <4>1. PICK t : t = op[x].tmp
        OBVIOUS
      <4>2. Recent(i, j, t)
        BY <3>1, <3>3, <3>7, <4>1 DEF WrittenOK
      <4>3. j \in DOMAIN Program[i]
        BY <1>1, <3>2, <3>3, <3>7, OpIs DEF AliveOK, InOpOK
      <4>4. Recent(i, j, t)'
        BY <1>1, <3>1, <4>2, <4>3, KeepRecent
      <4> QED BY <3>1, <4>1, <4>4
    <3> QED BY <3>1, <3>3, <3>6, <3>7 DEF WrittenOK
  <2> QED BY <2>1, <2>2
<1>4. ASSUME NEW i \in Instance PROVE LoggedOK(i)'
  <2>1. CASE stream'[i] = stream[i]
    <3> SUFFICES ASSUME NEW j \in DOMAIN Program[i], IsRead(i, j),
                        StepsBefore(i, j) + 1 <= Len(stream'[i])
                 PROVE  Recent(i, j, stream[i][StepsBefore(i, j) + 1].data.result)'
      BY DEF LoggedOK
    <3>1. PICK t : t = stream[i][StepsBefore(i, j) + 1].data.result
      OBVIOUS
    <3>2. Recent(i, j, t)
      BY <2>1, <3>1 DEF OwnInv, LoggedOK
    <3>3. Recent(i, j, t)'
      BY <1>1, <3>2, KeepRecent
    <3> QED BY <2>1, <3>1, <3>3
  <2> QED BY <2>1
<1> QED BY <1>2, <1>3, <1>4 DEF OwnInv

LEMMA OwnQuiet ==
  ASSUME RWInv, OwnInv, Keeps, NEW e \in Executor, OthersRun(e),
         UNCHANGED <<stream, item, version>>, WrittenOK(e)'
  PROVE  OwnInv'
<1>1. \A k \in Key : version'[k] >= version[k]
  BY DEF RWInv, RWTypeOK
<1> QED BY <1>1, OwnKept

\* The steps that are not of an operation.
LEMMA OwnRests ==
  ASSUME RWInv, OwnInv, Keeps, Mode = "READLOG", NEW e \in Executor,
         Begin(e) \/ Replay(e) \/ End(e) \/ Die(e) \/ FieldMismatch(e)
  PROVE  OwnInv'
<1>1. /\ RWTypeOK /\ UNCHANGED <<stream, item, version>>
  BY DEF RWInv, Begin, Call, Replay, CatchNext, CatchDone, End, Die, Crash, FieldMismatch, dbVars
<1>2. OthersRun(e)
  BY <1>1 DEF RWTypeOK, OthersRun, Begin, Call, Replay, CatchNext, CatchDone, End, Die, Crash,
              FieldMismatch
<1>3. CASE ~ CatchDone(e)
  <2>1. pc'[e] # "run"
    BY <1>1, <1>3 DEF RWTypeOK, Begin, Call, Replay, CatchNext, End, Die, Crash, FieldMismatch
  <2> QED BY <1>1, <1>2, <2>1, OwnQuiet DEF WrittenOK
<1>4. CASE CatchDone(e) /\ Replay(e)
  <2>1. AliveOK(e) /\ pc[e] = "catch" /\ op' = op
    BY <1>4 DEF CatchDone, Replay, RWInv
  <2>2. op'[e].idx = 1 /\ op'[e].at = "start"
    BY <2>1 DEF AliveOK, FirstOp
  <2>3. \A k \in Key : \A w \in Writes(InstanceOf[e], k) : ~ w < 1
    BY Programs DEF Writes
  <2>4. WrittenOK(e)'
    BY <2>2, <2>3 DEF WrittenOK
  <2> QED BY <1>1, <1>2, <2>4, OwnQuiet
<1>5. CatchDone(e) => Replay(e)
  BY DEF CatchDone, Replay, Begin, Call, End, Die, Crash, FieldMismatch, InOp
<1> QED BY <1>3, <1>4, <1>5

\* What a write without log does: the item and its VERSION stay, or are those of the
\* write, whose cursor is then newer.
Updates(k, seq, val) ==
  /\ \/ version'[k] = version[k] /\ item'[k] = item[k] /\ version[k] >= seq
     \/ /\ version[k] = 0 \/ version[k] < seq
        /\ item'[k][0] = val /\ version'[k] = seq
  /\ \A x \in Key : x # k => item'[x] = item[x] /\ version'[x] = version[x]

LEMMA PutSingleIs ==
  ASSUME RWTypeOK, NEW k \in Key, NEW val \in Val, PutVersion(k, 0, val)
  PROVE  item'[k][0] = val /\ \A x \in Key : x # k => item'[x] = item[x]
BY PutVersionIs

LEMMA UpdatesRaise ==
  ASSUME version \in [Key -> Nat], NEW k \in Key, NEW seq \in Nat, NEW val, Updates(k, seq, val)
  PROVE  \A x \in Key : version'[x] >= version[x]
<1>1. ASSUME NEW x \in Key, x # k PROVE version'[x] >= version[x]
  <2>1. version[x] \in Nat /\ version'[x] = version[x]
    BY <1>1 DEF Updates
  <2> QED BY <2>1
<1>2. version'[k] >= version[k]
  <2>1. version[k] \in Nat
    OBVIOUS
  <2>2. version'[k] = version[k] \/ ((version[k] = 0 \/ version[k] < seq) /\ version'[k] = seq)
    BY DEF Updates
  <2> QED BY <2>1, <2>2
<1> QED BY <1>1, <1>2

LEMMA WriteIs ==
  ASSUME RWInv, OwnInv, Keeps, ChecksExit, NEW e \in Executor, WriteSingle(e),
         NEW i, i = InstanceOf[e], NEW j, j = op[e].idx,
         NEW k, k = Program[i][j].key, NEW seq, seq = env[e].seqNum
  PROVE  /\ UNCHANGED <<stream, pc, env>> /\ pc[e] = "run" /\ ~ env[e].exit
         /\ i \in Instance /\ j \in Nat \ {0} /\ j \in DOMAIN Program[i]
         /\ k \in Key /\ IsWrite(i, j) /\ OthersRun(e)
         /\ op'[e].idx = j + 1 /\ op'[e].at = "start"
         /\ seq \in Nat /\ version[k] \in Nat /\ Updates(k, seq, Program[i][j].val)
         /\ StepsBefore(i, j) \in Nat /\ StepsBefore(i, j) <= Len(stream[i])
         /\ seq = CursorOf(i, j) /\ CursorOf(i, j)' = seq
<1>1. InOp(e, "write", "start") /\ NextOp(e) /\ UNCHANGED <<logTail, stream, pc, env, fsm>>
  BY DEF WriteSingle, vars
<1>2. /\ RWTypeOK /\ pc[e] = "run" /\ i \in Instance /\ op[e].at = "start"
      /\ Op(e) = Program[i][j] /\ Op(e).kind = "write" /\ k = Op(e).key
      /\ j \in DOMAIN Program[i] /\ j \in Nat \ {0} /\ k \in Key
  BY <1>1, InOpIs
<1>3. ~ env[e].exit /\ seq \in Nat
  BY <1>1, <1>2, Processes DEF InOp, Returns
<1>4. PICK val \in Val : val = Op(e).val /\ val = Program[i][j].val
  BY <1>1, <1>2, InOpIs
<1>5. CondUpdate(k, seq, val)
  BY <1>2, <1>4 DEF WriteSingle
<1>6. version \in [Key -> Nat]
  BY <1>2 DEF RWTypeOK
<1>7. Updates(k, seq, val)
  <2>1. CASE UNCHANGED <<item, version>> /\ ~ (version[k] = 0 \/ version[k] < seq)
    <3>1. version[k] \in Nat /\ version[k] >= seq
      BY <1>2, <1>3, <1>6, <2>1
    <3> QED BY <2>1, <3>1 DEF Updates
  <2>2. CASE /\ version[k] = 0 \/ version[k] < seq
             /\ PutVersion(k, 0, val) /\ version' = [version EXCEPT ![k] = seq]
    <3>0. RWTypeOK /\ k \in Key /\ PutVersion(k, 0, val)
      BY <1>2, <2>2
    <3>1. item'[k][0] = val /\ \A x \in Key : x # k => item'[x] = item[x]
      BY <3>0, PutSingleIs
    <3>2. version'[k] = seq /\ \A x \in Key : x # k => version'[x] = version[x]
      BY <1>2, <1>6, <2>2
    <3> QED BY <2>2, <3>1, <3>2 DEF Updates
  <2> QED BY <1>5, <2>1, <2>2 DEF CondUpdate
<1>8. \A x \in Key : version'[x] >= version[x]
  BY <1>2, <1>3, <1>6, <1>7, UpdatesRaise
<1>9. StepsBefore(i, j) \in Nat /\ StepsBefore(i, j) <= Len(stream[i]) /\ seq = CursorOf(i, j)
  <2>1. op[e].at \notin Writing
    BY <1>2 DEF Writing
  <2> QED BY <1>2, <1>3, <1>8, <2>1, KeepWritten
<1>10. CursorOf(i, j)' = seq
  BY <1>1, <1>9 DEF CursorOf, Cursor
<1>11. OthersRun(e) /\ op'[e].idx = j + 1 /\ op'[e].at = "start"
  BY <1>1, <1>2, NextOpIs DEF OthersRun
<1>12. version[k] \in Nat /\ IsWrite(i, j)
  BY <1>2, <1>6 DEF IsWrite
<1> QED BY <1>1, <1>2, <1>3, <1>4, <1>7, <1>9, <1>10, <1>11, <1>12

LEMMA OwnWrite ==
  ASSUME RWInv, OwnInv, Keeps, ChecksExit, NEW e \in Executor, WriteSingle(e)
  PROVE  OwnInv'
<1>1. PICK i, j, k, seq : /\ i = InstanceOf[e] /\ j = op[e].idx
                          /\ k = Program[i][j].key /\ seq = env[e].seqNum
  OBVIOUS
<1>2. /\ UNCHANGED <<stream, pc, env>> /\ pc[e] = "run" /\ ~ env[e].exit
      /\ i \in Instance /\ j \in Nat \ {0} /\ j \in DOMAIN Program[i] /\ k \in Key
      /\ IsWrite(i, j) /\ OthersRun(e) /\ op'[e].idx = j + 1 /\ op'[e].at = "start"
      /\ StepsBefore(i, j) <= Len(stream[i]) /\ CursorOf(i, j)' = seq
  BY <1>1, WriteIs
<1>3. seq \in Nat /\ version[k] \in Nat /\ Updates(k, seq, Program[i][j].val)
  BY <1>1, WriteIs
<1>4. \A x \in Key : version'[x] >= version[x]
  BY <1>2, <1>3, UpdatesRaise DEF RWInv, RWTypeOK
<1>8. /\ \/ version'[k] = version[k] /\ item'[k] = item[k] /\ version[k] >= seq
         \/ /\ version[k] = 0 \/ version[k] < seq
            /\ item'[k][0] = Program[i][j].val /\ version'[k] = seq
      /\ \A x \in Key : x # k => item'[x] = item[x] /\ version'[x] = version[x]
  BY <1>3 DEF Updates
<1>5. \A x \in Key : \A w \in Writes(i, x) : w < j => version'[x] >= CursorOf(i, w)'
  BY <1>1, <1>2, <1>4, KeepWritten
<1>6. (version'[k] = version[k] /\ item'[k][0] = item[k][0]) \/ SingleOK(k)'
  <2>1. ASSUME NEW val, val = Program[i][j].val, item'[k][0] = val, version'[k] = seq
        PROVE  SingleOK(k)'
    <3>1. Wrote(i, j, k, val, seq)'
      BY <1>1, <1>2, <2>1 DEF Wrote, IsWrite
    <3>2. PutAt(k, val, seq)'
      BY <1>2, <3>1 DEF PutAt
    <3> QED BY <2>1, <3>2 DEF SingleOK
  <2> QED BY <1>8, <2>1
<1>7. WrittenOK(e)'
  <2>1. ASSUME NEW x \in Key, NEW w \in Writes(i, x), w < j + 1
        PROVE  version'[x] >= CursorOf(i, w)'
    <3>1. w \in Nat
      BY <1>2, Programs DEF Writes
    <3>2. CASE w < j
      BY <1>5, <3>2
    <3>3. CASE w = j
      <4>1. x = k
        BY <1>1, <3>3 DEF Writes
      <4> QED BY <1>2, <1>3, <1>8, <3>3, <4>1
    <3> QED BY <1>2, <2>1, <3>1, <3>2, <3>3
  <2> QED BY <1>1, <1>2, <2>1 DEF WrittenOK
<1> QED BY <1>2, <1>4, <1>6, <1>7, <1>8, OwnKept

\* What a logged read has fetched is not behind the writes of its instance.
LEMMA OwnFetch ==
  ASSUME RWInv, OwnInv, Keeps, ChecksExit, CallSeqNum # 0, NEW e \in Executor, FetchItem(e)
  PROVE  OwnInv'
<1> DEFINE i == InstanceOf[e]
<1>1. /\ InOp(e, "read", "start")
      /\ op' = [op EXCEPT ![e].tmp = GetItem(Op(e).key, 0), ![e].at = "fetched"]
      /\ UNCHANGED <<logTail, stream, pc, env, fsm, item, version, keyStream>>
  BY DEF FetchItem, vars, dbVars
<1>2. /\ RWTypeOK /\ pc[e] = "run" /\ i \in Instance /\ op[e].at = "start"
      /\ Op(e) = Program[i][op[e].idx] /\ Op(e).key \in Key /\ StreamOK(i)
      /\ op[e].idx \in DOMAIN Program[i] /\ op[e].idx \in Nat \ {0}
  BY <1>1, InOpIs DEF LogOK
<1>3. ~ env[e].exit
  BY <1>1 DEF InOp, Returns
<1>4. PICK j \in Nat \ {0} : j = op[e].idx /\ j \in DOMAIN Program[i]
  BY <1>2
<1>5. PICK k \in Key : k = Op(e).key /\ k = Program[i][j].key
  BY <1>2, <1>4
<1>6. PICK t : t = item[k][0]
  OBVIOUS
<1>7. op'[e].idx = j /\ op'[e].tmp = t
  <2>1. GetItem(k, 0) = t
    BY <1>2, <1>6 DEF GetItem, RWTypeOK
  <2>2. op[e] = [idx |-> op[e].idx, at |-> op[e].at, tmp |-> op[e].tmp, ver |-> op[e].ver]
    BY <1>2, Processes DEF OpState
  <2>3. op'[e] = [op[e] EXCEPT !.tmp = GetItem(Op(e).key, 0), !.at = "fetched"]
    BY <1>1, <1>2 DEF RWTypeOK
  <2> QED BY <1>4, <1>5, <2>1, <2>2, <2>3
<1>8. \A x \in Key : version[x] \in Nat /\ version'[x] = version[x]
  BY <1>1, <1>2 DEF RWTypeOK
<1>9. /\ StepsBefore(i, j) \in Nat /\ StepsBefore(i, j) <= Len(stream[i])
      /\ \A x \in Key : \A w \in Writes(i, x) : w < j => version[x] >= CursorOf(i, w)'
  <2>1. \A x \in Key : version'[x] >= version[x]
    BY <1>8
  <2> QED BY <1>2, <1>3, <1>4, <1>8, <2>1, KeepWritten
<1>10. Recent(i, j, t)'
  <2>1. ASSUME NEW w \in Writes(i, k), w < j
        PROVE  \E c \in Nat : c >= CursorOf(i, w)' /\ PutAt(k, t, c)'
    <3>1. version[k] >= CursorOf(i, w)'
      BY <1>9, <2>1
    <3>2. CursorOf(i, w) \in Nat /\ CallSeqNum <= CursorOf(i, w) /\ CursorOf(i, w)' = CursorOf(i, w)
      <4>1. w \in Nat /\ w <= j
        BY <1>2, <1>4, <2>1, Programs DEF Writes
      <4>2. StepsBefore(i, w) \in Nat /\ StepsBefore(i, w) <= StepsBefore(i, j)
        BY <1>2, <1>4, <4>1, WritesBefore
      <4>3. StepsBefore(i, w) <= Len(stream[i])
        BY <1>2, <1>9, <4>2, Entries
      <4> QED BY <1>1, <1>2, <4>2, <4>3, CursorIs DEF CursorOf, Cursor
    <3>3. version[k] # 0
      BY <1>8, <3>1, <3>2
    <3>4. PICK c \in Nat : c = version[k]
      BY <1>8
    <3>5. PutAt(k, t, c)
      BY <1>6, <3>3, <3>4 DEF OwnInv, SingleOK
    <3>6. PutAt(k, t, c)'
      BY <1>1, <3>5 DEF PutAt, Wrote, CursorOf, Cursor
    <3> QED BY <3>1, <3>4, <3>6
  <2>2. StepsBefore(i, j) <= Len(stream'[i])
    BY <1>1, <1>9
  <2> QED BY <1>5, <2>1, <2>2 DEF Recent
<1>11. WrittenOK(e)'
  BY <1>1, <1>7, <1>9, <1>10 DEF WrittenOK
<1>12. OthersRun(e)
  BY <1>1, <1>2 DEF OthersRun, RWTypeOK
<1> QED BY <1>1, <1>11, <1>12, OwnQuiet

\* The execution ends a read and keeps the writes before it behind it.
LEMMA OwnReadOver ==
  ASSUME RWInv, OwnInv, Keeps, NEW e \in Executor, NEW at, InOp(e, "read", at), NextOp(e),
         at \notin Writing, pc' = pc, env'[e].exit \/ ~ env[e].exit, version' = version
  PROVE  WrittenOK(e)'
<1> DEFINE i == InstanceOf[e]
<1>1. /\ RWTypeOK /\ pc[e] = "run" /\ i \in Instance /\ op[e].at = at
      /\ Op(e) = Program[i][op[e].idx] /\ Op(e).kind = "read"
      /\ op[e].idx \in DOMAIN Program[i] /\ op[e].idx \in Nat \ {0}
  BY InOpIs
<1> SUFFICES ASSUME ~ env[e].exit PROVE WrittenOK(e)'
  BY DEF WrittenOK
<1>2. PICK j \in Nat \ {0} : j = op[e].idx
  BY <1>1
<1>3. \A x \in Key : version'[x] >= version[x] /\ version'[x] = version[x]
  BY <1>1 DEF RWTypeOK
<1>4. \A x \in Key : \A w \in Writes(i, x) : w < j => version'[x] >= CursorOf(i, w)'
  BY <1>1, <1>2, <1>3, KeepWritten
<1>5. op'[e].idx = j + 1 /\ op'[e].at = "start"
  BY <1>1, <1>2, NextOpIs
<1>6. ASSUME NEW x \in Key, NEW w \in Writes(i, x), w < j + 1
      PROVE  version'[x] >= CursorOf(i, w)'
  <2>1. w \in Nat /\ w # j
    BY <1>1, <1>2, Programs DEF Writes
  <2> QED BY <1>2, <1>4, <1>6, <2>1
<1> QED BY <1>5, <1>6 DEF WrittenOK

LEMMA OwnReplay ==
  ASSUME RWInv, OwnInv, Keeps, NEW e \in Executor, ReplayRead(e)
  PROVE  OwnInv'
<1>1. /\ InOp(e, "read", "start") /\ ReplayStep(e) /\ NextOp(e)
      /\ UNCHANGED <<stream, item, version, pc>>
  BY DEF ReplayRead, ReplayStep, Deliver, dbVars
<1>2. RWTypeOK /\ AliveOK(e) /\ StreamOK(InstanceOf[e])
  BY <1>1, InOpIs DEF LogOK
<1>3. EnvMoves(e) /\ ~ env[e].exit
  BY <1>1, <1>2, ReplayIs
<1>4. OthersRun(e)
  BY <1>1, <1>2, <1>3, NextOpIs DEF OthersRun, EnvMoves
<1>5. WrittenOK(e)'
  <2>1. "start" \notin Writing
    BY DEF Writing
  <2> QED BY <1>1, <1>3, <2>1, OwnReadOver
<1> QED BY <1>1, <1>4, <1>5, OwnQuiet

LEMMA OwnPost ==
  ASSUME RWInv, OwnInv, Keeps, Mode = "READLOG", ChecksExit, NEW e \in Executor, PostRead(e)
  PROVE  OwnInv'
<1> DEFINE i == InstanceOf[e]
           d == PostReadData(Op(e).key, op[e].tmp)
<1>1. InOp(e, "read", "fetched") /\ UNCHANGED <<item, version>>
  BY DEF PostRead, dbVars
<1>2. /\ RWTypeOK /\ LogOK /\ pc[e] = "run" /\ i \in Instance /\ op[e].at = "fetched"
      /\ AliveOK(e) /\ Op(e) = Program[i][op[e].idx] /\ Op(e).key \in Key /\ Op(e).kind = "read"
      /\ op[e].idx \in DOMAIN Program[i] /\ op[e].idx \in Nat \ {0}
  BY <1>1, InOpIs
<1>3. ~ env[e].exit
  BY <1>1 DEF InOp, Returns
<1>4. PICK j \in Nat \ {0} : j = op[e].idx /\ j \in DOMAIN Program[i]
  BY <1>2
<1>5. PICK t \in Val : t = op[e].tmp
  BY <1>2 DEF AliveOK, InOpOK
<1>6. Recent(i, j, t)
  BY <1>2, <1>3, <1>4, <1>5 DEF OwnInv, WrittenOK
<1>7. Typed /\ Grows
  BY DEF Keeps, RWInv, Typed
<1>8. "fetched" \notin Writing
  BY DEF Writing
<1>9. CASE LoseStep(e) /\ Deliver(e, None)
  <2>1. EnvMoves(e) /\ env'[e].exit /\ UNCHANGED <<stream, pc>>
    BY <1>2, <1>9, LoseIs
  <2>2. OthersRun(e)
    BY <1>2, <1>9, <2>1, NextOpIs DEF OthersRun, EnvMoves, Deliver
  <2> QED BY <1>1, <2>1, <2>2, OwnQuiet DEF WrittenOK
<1>10. ASSUME AppendOK(e, Proposal(e, d)) PROVE \A m \in Instance : stream'[m] = stream[m] \/ LoggedOK(m)'
  <2>1. d \in LogData /\ d.type = "PostRead" /\ d.result = t
    BY <1>2, <1>5 DEF PostReadData, LogData
  <2>2. Proposal(e, d).data = d
    BY DEF Proposal
  <2> HIDE DEF d
  <2>3. Added(i, Proposal(e, d)) /\ env[e].stepNumber = Len(stream[i])
    BY <1>2, <1>5, <1>10, <2>1, AppendIs
  <2>4. PICK n \in Nat : n = Len(stream[i])
    BY <1>2, Entries
  <2>5. /\ \A m \in Instance : m # i => stream'[m] = stream[m]
        /\ Len(stream'[i]) = n + 1 /\ stream'[i][n + 1].data.result = t
        /\ \A q \in 1 .. n : stream'[i][q] = stream[i][q]
    BY <2>1, <2>2, <2>3, <2>4 DEF Added
  <2>6. StepsBefore(i, j) = n
    <3>1. OnTrack(e) /\ n + 0 = n /\ StepsBefore(i, j) \in Nat
      BY <1>2, <1>3, <1>4, StepsNext DEF AliveOK
    <3> QED BY <1>2, <1>4, <1>8, <2>3, <2>4, <3>1 DEF OnTrack
  <2>7. LoggedOK(i)'
    <3> SUFFICES ASSUME NEW l \in DOMAIN Program[i], IsRead(i, l),
                        StepsBefore(i, l) + 1 <= n + 1, NEW r,
                        r = stream'[i][StepsBefore(i, l) + 1].data.result
                 PROVE  Recent(i, l, r)'
      BY <2>5 DEF LoggedOK
    <3>1. PICK p \in Nat : p = StepsBefore(i, l)
      BY <1>2, Programs, StepsNext
    <3>2. CASE p + 1 <= n
      <4>1. p + 1 \in 1 .. n
        BY <3>1, <3>2
      <4>2. r = stream[i][p + 1].data.result
        BY <2>5, <3>1, <4>1
      <4>3. Recent(i, l, r)
        BY <1>2, <2>4, <3>1, <3>2, <4>2 DEF OwnInv, LoggedOK
      <4> QED BY <1>2, <1>7, <4>3, KeepRecent
    <3>3. CASE p = n
      <4>1. Logs("read") /\ l \in Nat \ {0}
        BY <1>2, Programs DEF Logs
      <4>2. Program[i][l].kind = "read" /\ Program[i][j].kind = "read"
        BY <1>2, <1>4 DEF IsRead
      <4>3. l = j
        BY <1>2, <2>6, <3>1, <3>3, <4>1, <4>2, StepsDiffer
      <4>4. r = t
        BY <2>5, <3>1, <3>3
      <4> QED BY <1>2, <1>4, <1>6, <1>7, <4>3, <4>4, KeepRecent
    <3> QED BY <3>1, <3>2, <3>3
  <2> QED BY <2>5, <2>7
<1>11. \A x \in Key : version'[x] >= version[x] /\ version'[x] = version[x] /\ item'[x][0] = item[x][0]
  BY <1>1, <1>2 DEF RWTypeOK
<1>12. CASE AppendStep(e, d) /\ Deliver(e, op[e].tmp)
  <2>1. d \in LogData /\ d.type = "PostRead" /\ d.result \in Val
    BY <1>2, <1>5 DEF PostReadData, LogData
  <2> HIDE DEF d
  <2>2. EnvMoves(e) /\ pc' = pc /\ ~ env[e].exit /\ AppendOK(e, Proposal(e, d))
    BY <1>2, <1>12, <2>1, AppendRuns DEF AppendStep
  <2>3. NextOp(e)
    BY <1>12 DEF Deliver
  <2>4. OthersRun(e)
    BY <1>2, <2>2, <2>3, NextOpIs DEF OthersRun, EnvMoves
  <2>5. WrittenOK(e)'
    BY <1>1, <1>8, <2>2, <2>3, OwnReadOver
  <2> QED BY <1>10, <1>11, <2>2, <2>4, <2>5, OwnKept DEF d
<1>13. CASE AppendPanic(e, d) /\ UNCHANGED <<op, told>>
  <2>1. pc'[e] # "run" /\ AppendOK(e, Proposal(e, d))
    BY <1>2, <1>13 DEF AppendPanic, RWTypeOK
  <2>2. OthersRun(e)
    BY <1>2, <1>13 DEF OthersRun, AppendPanic, RWTypeOK
  <2> QED BY <1>10, <1>11, <2>1, <2>2, OwnKept DEF WrittenOK
<1> QED BY <1>9, <1>12, <1>13 DEF PostRead

\* What is done with WRITELOG only.
LEMMA NoneOfWriteLog ==
  ASSUME RWInv, Mode = "READLOG", NEW e \in Executor,
         LoggedWrite(e) \/ FindVersion(e) \/ ReadItem(e)
  PROVE  FALSE
<1>1. Mode # "WRITELOG"
  OBVIOUS
<1>2. ASSUME NEW at \in Writing, InOp(e, "write", at) PROVE FALSE
  BY <1>1, <1>2, Prewritten
<1>3. ~ InOp(e, "read", "versioned")
  BY <1>1, InOpIs DEF AliveOK, InOpOK
<1> QED BY <1>1, <1>2, <1>3 DEF LoggedWrite, PreWrite, SkipWrite, WriteItem, PostWrite,
                                     FindVersion, ReadItem, Writing

LEMMA OwnStays ==
  ASSUME RWInv, OwnInv, Mode = "READLOG", ChecksExit, CallSeqNum # 0, [RWNext]_rwVars
  PROVE  OwnInv'
<1>1. Keeps
  BY EveryStep
<1>2. CASE UNCHANGED rwVars
  <2>1. UNCHANGED <<stream, pc, env, item, version, op>>
    BY <1>2 DEF rwVars
  <2>2. \A i, j : CursorOf(i, j)' = CursorOf(i, j)
    BY <2>1 DEF CursorOf, Cursor
  <2>3. \A k, val, c : PutAt(k, val, c)' <=> PutAt(k, val, c)
    BY <2>1, <2>2 DEF PutAt, Wrote
  <2>4. \A i, j, t : Recent(i, j, t)' <=> Recent(i, j, t)
    BY <2>1, <2>2, <2>3 DEF Recent
  <2>5. \A k \in Key : SingleOK(k)'
    BY <2>1, <2>3 DEF OwnInv, SingleOK
  <2>6. \A e \in Executor : WrittenOK(e)'
    BY <2>1, <2>2, <2>4 DEF OwnInv, WrittenOK
  <2>7. \A i \in Instance : LoggedOK(i)'
    BY <2>1, <2>4 DEF OwnInv, LoggedOK
  <2> QED BY <2>5, <2>6, <2>7 DEF OwnInv
<1>3. ASSUME NEW e \in Executor, LoggedWrite(e) \/ FindVersion(e) \/ ReadItem(e) PROVE FALSE
  BY <1>3, NoneOfWriteLog
<1> QED BY <1>1, <1>2, <1>3, OwnRests, OwnWrite, OwnFetch, OwnReplay, OwnPost
        DEF RWNext, Work, LoggedRead

(***************************************************************************)
(* With WRITELOG, an operation that returned has the writes before it in   *)
(* the log.                                                                *)
(***************************************************************************)
PastTold ==
  \A i \in Instance : \A j \in DOMAIN Program[i] : told[i][j] # {} =>
    \A w \in DOMAIN Program[i] : w < j /\ IsWrite(i, w) => WriteOver(i, w)

LEMMA OwnInit ==
  ASSUME RWInit PROVE OwnInv /\ PastTold
<1>1. \A e \in Executor : pc[e] # "run"
  BY DEF RWInit, Init
<1>2. \A i \in Instance : stream[i] = <<>> /\ Len(stream[i]) = 0
  BY DEF RWInit, Init
<1>3. \A i \in Instance : LoggedOK(i)
  <2> SUFFICES ASSUME NEW i \in Instance, NEW j \in DOMAIN Program[i]
               PROVE  ~ StepsBefore(i, j) + 1 <= Len(stream[i])
    BY DEF LoggedOK
  <2>1. StepsBefore(i, j) \in Nat
    BY Programs, StepsNext
  <2> QED BY <1>2, <2>1
<1>4. \A i \in Instance : \A j \in DOMAIN Program[i] : told[i][j] = {}
  BY Programs DEF RWInit
<1>5. \A k \in Key : version[k] = 0
  BY DEF RWInit
<1> QED BY <1>1, <1>3, <1>4, <1>5 DEF OwnInv, SingleOK, WrittenOK, PastTold

LEMMA PastToldStays ==
  ASSUME RWInv, PastTold, Mode = "WRITELOG", [RWNext]_rwVars
  PROVE  PastTold'
<1>1. Keeps /\ Typed /\ Grows
  BY EveryStep DEF Keeps, RWInv, Typed
<1>2. ASSUME NEW i \in Instance, NEW j \in DOMAIN Program[i], told'[i][j] # {},
             NEW w \in DOMAIN Program[i], w < j, IsWrite(i, w), told[i][j] # {}
      PROVE  WriteOver(i, w)'
  <2>1. WriteOver(i, w)
    BY <1>2 DEF PastTold
  <2> QED BY <1>1, <2>1, KeepOver
<1>3. CASE told' = told
  BY <1>2, <1>3 DEF PastTold
<1>4. ASSUME NEW e \in Executor, ReadItem(e) PROVE PastTold'
  <2> DEFINE i == InstanceOf[e]
  <2>1. InOp(e, "read", "versioned") /\ env' = env /\ UNCHANGED stream
    BY <1>4 DEF ReadItem, vars
  <2>2. /\ RWTypeOK /\ pc[e] = "run" /\ PastOK(e) /\ i \in Instance
        /\ op[e].idx \in DOMAIN Program[i] /\ op[e].idx \in Nat \ {0}
    BY <2>1, InOpIs
  <2>3. PICK j \in DOMAIN Program[i] : j = op[e].idx
    BY <2>2
  <2>4. CASE env[e].exit
    BY <1>3, <1>4, <2>1, <2>4 DEF ReadItem, Deliver
  <2>5. CASE ~ env[e].exit
    <3>1. PICK r : told' = [told EXCEPT ![i][j] = @ \cup {r}]
      BY <1>4, <2>1, <2>3, <2>5 DEF ReadItem, Deliver
    <3>2. \A m \in Instance : \A l \in DOMAIN Program[m] :
            (m = i /\ l = j) \/ told'[m][l] = told[m][l]
      <4>1. DOMAIN told = Instance /\ \A m \in Instance : DOMAIN told[m] = DOMAIN Program[m]
        BY <2>2, Programs DEF RWTypeOK
      <4> QED BY <2>2, <3>1, <4>1
    <3> SUFFICES ASSUME NEW m \in Instance, NEW l \in DOMAIN Program[m], told'[m][l] # {},
                        NEW w \in DOMAIN Program[m], w < l, IsWrite(m, w)
                 PROVE  WriteOver(m, w)'
      BY DEF PastTold
    <3>3. CASE m = i /\ l = j
      <4>1. WriteOver(m, w)
        BY <2>2, <2>3, <2>5, <3>3 DEF PastOK
      <4> QED BY <1>1, <4>1, KeepOver
    <3> QED BY <1>2, <3>2, <3>3
  <2> QED BY <2>4, <2>5
<1>5. ASSUME NEW e \in Executor, LoggedRead(e) \/ WriteSingle(e) PROVE FALSE
  <2>1. Mode # "READLOG"
    OBVIOUS
  <2>2. ~ InOp(e, "read", "fetched")
    BY <2>1, InOpIs DEF AliveOK, InOpOK
  <2> QED BY <1>5, <2>1, <2>2 DEF LoggedRead, ReplayRead, FetchItem, PostRead, WriteSingle
<1>6. ASSUME NEW e \in Executor, ~ ReadItem(e), Work(e) \/ Die(e) PROVE told' = told
  BY <1>5, <1>6 DEF Work, Die, Begin, Replay, End, LoggedWrite, PreWrite, SkipWrite, WriteItem,
                    PostWrite, FindVersion, FieldMismatch
<1> QED BY <1>3, <1>4, <1>6 DEF RWNext, rwVars

\* A cursor at or behind an entry selects it or a later one.
LEMMA LastAtNotBefore ==
  ASSUME NEW s, Len(s) \in Nat, NEW seq, NEW n \in 1 .. Len(s), s[n].seqNum <= seq
  PROVE  LastAt(s, seq) \in 1 .. Len(s) /\ n <= LastAt(s, seq)
<1> DEFINE before == {k \in 1 .. Len(s) : s[k].seqNum <= seq}
<1>1. before \in SUBSET (1 .. Len(s)) /\ n \in before
  OBVIOUS
<1>2. \E k \in before : \A j \in before : j <= k
  BY <1>1, LastPosition
<1>3. LastAt(s, seq) = CHOOSE k \in before : \A j \in before : j <= k
  BY <1>1 DEF LastAt
<1>4. LastAt(s, seq) \in before /\ \A j \in before : j <= LastAt(s, seq)
  BY <1>2, <1>3
<1> QED BY <1>1, <1>4

(***************************************************************************)
(* A write is told by its data: no two writes of a key have the same, and  *)
(* none has that of Populate.                                              *)
(***************************************************************************)
WritesDiffer ==
  \A i, m \in Instance : \A j \in DOMAIN Program[i] : \A l \in DOMAIN Program[m] :
    IsWrite(i, j) /\ IsWrite(m, l) /\ Program[i][j].key = Program[m][l].key =>
      /\ Program[i][j].val # InitVal
      /\ Program[i][j].val = Program[m][l].val => i = m /\ j = l

(***************************************************************************)
(* Between two log-free writes of a key the instance logs a step.  Without *)
(* one they have one cursor, and the second is dropped.                    *)
(***************************************************************************)
CursorsDiffer ==
  \A i \in Instance : \A k \in Key : \A w, x \in Writes(i, k) :
    w < x => \E r \in DOMAIN Program[i] : w < r /\ r < x /\ IsRead(i, r)

LEMMA LastOwn ==
  ASSUME NEW i \in Instance, NEW j \in DOMAIN Program[i], NEW t, t \in Superseded(i, j)
  PROVE  LET k == Program[i][j].key
         IN  \E x \in Writes(i, k) :
               /\ x < j
               /\ t = InitVal \/ \E w \in Writes(i, k) : w < x /\ t = Program[i][w].val
<1> DEFINE k == Program[i][j].key
           own == {w \in Writes(i, k) : w < j}
           last == CHOOSE w \in own : \A x \in own : x <= w
<1>1. own # {} /\ t \in {InitVal} \cup {Program[i][w].val : w \in own \ {last}}
  BY DEF Superseded
<1>2. \A w \in own : w \in Nat \ {0} /\ w < j /\ j \in Nat \ {0}
  BY Programs DEF Writes
<1>3. own \in SUBSET (1 .. j) /\ j \in Nat
  BY <1>2, Programs
<1>4. \E w \in own : \A x \in own : x <= w
  BY <1>1, <1>3, LastPosition
<1>5. last \in own /\ \A x \in own : x <= last
  BY <1>4
<1> HIDE DEF last
<1>6. ASSUME NEW w \in own \ {last} PROVE w < last
  BY <1>2, <1>5
<1> QED BY <1>1, <1>5, <1>6

(***************************************************************************)
(* With WRITELOG the cursor of the read is behind the PostWrite of the     *)
(* last own write, so it selects that entry or a later one of the key.     *)
(***************************************************************************)
LEMMA VersionIsLater ==
  ASSUME RWInv, Mode = "WRITELOG", NEW i \in Instance, NEW j \in DOMAIN Program[i],
         NEW k \in Key, NEW x \in Writes(i, k), x < j, WriteOver(i, x), Plain(k),
         StepsBefore(i, j) <= Len(stream[i])
  PROVE  \E m \in Instance : \E l \in DOMAIN Program[m] :
           /\ IsWrite(m, l) /\ Program[m][l].key = k
           /\ item[k][VersionAt(k, Cursor(i, StepsBefore(i, j)))] = Program[m][l].val
           /\ ~ (m = i /\ l < x)
<1>1. RWTypeOK /\ LogOK /\ StreamOK(i)
  BY DEF RWInv, LogOK
<1>2. x \in DOMAIN Program[i] /\ IsWrite(i, x) /\ Program[i][x].key = k
  BY DEF Writes, IsWrite
<1>3. x \in Nat \ {0} /\ j \in Nat \ {0} /\ Logs("write") /\ Width = 2
  BY <1>2, Programs DEF Logs, Width
<1>4. PICK p \in Nat, q \in Nat : p = StepsBefore(i, j) /\ q = StepsBefore(i, x) + 2
  BY <1>3, StepsNext
<1>5. q <= p
  BY <1>2, <1>3, <1>4, StepsApart DEF IsWrite
<1>6. /\ q <= Len(stream[i]) /\ stream[i][q].data.type = "PostWrite"
      /\ stream[i][q].data.key = k
  BY <1>2, <1>4 DEF WriteOver
<1>7. q \in 1 .. Len(stream[i]) /\ p \in 1 .. Len(stream[i]) /\ q # 0 /\ p # 0
  <2>1. StepsBefore(i, x) \in Nat
    BY <1>3, StepsNext
  <2> QED BY <1>1, <1>4, <1>5, <1>6, <2>1, Entries
<1>8. PICK c \in Nat : c = Cursor(i, p) /\ stream[i][q].seqNum <= c /\ c = stream[i][p].seqNum
  <2>1. stream[i][q].seqNum \in Nat /\ stream[i][p].seqNum \in Nat
    BY <1>1, <1>7, Entries
  <2>2. q < p => stream[i][q].seqNum < stream[i][p].seqNum
    BY <1>1, <1>4, <1>7 DEF StreamOK
  <2>3. q < p \/ q = p
    BY <1>4, <1>5
  <2> QED BY <1>7, <2>1, <2>2, <2>3 DEF Cursor
<1>9. PICK n \in 1 .. Len(keyStream[k]) : keyStream[k][n].seqNum = stream[i][q].seqNum
  BY <1>1, <1>6, <1>7 DEF LogOK, PostWritesOK
<1>10. PICK y \in Nat : y = LastAt(keyStream[k], c) /\ y \in 1 .. Len(keyStream[k]) /\ n <= y
  <2>1. Len(keyStream[k]) \in Nat /\ keyStream[k][n].seqNum <= c
    BY <1>1, <1>8, <1>9, KeyEntries
  <2> QED BY <2>1, LastAtNotBefore
<1>11. VersionAt(k, c) = keyStream[k][y].version
  BY <1>10 DEF VersionAt
<1>12. KeyStreamOK(k)
  BY <1>1 DEF LogOK
<1>13. keyStream[k][n].seqNum <= keyStream[k][y].seqNum
  <2>1. keyStream[k][n].seqNum \in Nat
    BY <1>1, KeyEntries
  <2>2. n < y => keyStream[k][n].seqNum < keyStream[k][y].seqNum
    BY <1>10, <1>12 DEF KeyStreamOK
  <2>3. keyStream[k][y].seqNum \in Nat
    BY <1>1, <1>10, KeyEntries
  <2> QED BY <1>10, <2>1, <2>2, <2>3
<1>14. PICK m \in Instance : \E l \in DOMAIN Program[m] : Published(k, y, m, l)
  BY <1>10, <1>12 DEF KeyStreamOK
<1>15. PICK l \in DOMAIN Program[m] : Published(k, y, m, l)
  BY <1>14
<1>16. IsWrite(m, l) /\ Program[m][l].key = k /\ ~ Program[m][l].dep
  BY <1>15 DEF Published, Plain, IsWrite
<1>17. item[k][keyStream[k][y].version] = Program[m][l].val
  BY <1>10, <1>15, <1>16, PublishedHolds DEF Owns
<1>18. ASSUME m = i, l < x PROVE FALSE
  <2>1. PICK z \in Nat : z = StepsBefore(i, l) + 2
    BY <1>18, Programs, StepsNext
  <2>2. z < q /\ z # 0
    <3>1. l \in Nat \ {0}
      BY <1>18, Programs
    <3>2. StepsBefore(i, l) + Width <= StepsBefore(i, x)
      BY <1>3, <1>16, <1>18, <3>1, StepsApart DEF IsWrite
    <3>3. StepsBefore(i, l) \in Nat /\ StepsBefore(i, x) \in Nat
      BY <1>3, <3>1, StepsNext
    <3> QED BY <1>3, <1>4, <2>1, <3>2, <3>3
  <2>3. keyStream[k][y].seqNum = stream[i][z].seqNum
    BY <1>15, <1>18, <2>1 DEF Published
  <2>4. z \in 1 .. q - 1
    BY <1>4, <2>1, <2>2
  <2>5. stream[i][z].seqNum < stream[i][q].seqNum
    BY <1>1, <1>7, <2>4 DEF StreamOK
  <2>6. stream[i][z].seqNum \in Nat /\ stream[i][q].seqNum \in Nat
    <3>1. z \in 1 .. Len(stream[i])
      BY <1>1, <1>4, <1>7, <2>4, Entries
    <3> QED BY <1>1, <1>7, <3>1, Entries
  <2> QED BY <1>9, <1>13, <2>3, <2>5, <2>6
<1> QED BY <1>4, <1>8, <1>11, <1>16, <1>17, <1>18

(***************************************************************************)
(* With READLOG the cursor of an own write before the last one is smaller. *)
(***************************************************************************)
LEMMA CursorsRise ==
  ASSUME RWInv, Mode = "READLOG", CursorsDiffer, NEW i \in Instance, NEW k \in Key,
         NEW w \in Writes(i, k), NEW x \in Writes(i, k), w < x,
         StepsBefore(i, x) <= Len(stream[i])
  PROVE  CursorOf(i, w) < CursorOf(i, x)
<1>1. PICK r \in DOMAIN Program[i] : w < r /\ r < x /\ IsRead(i, r)
  BY DEF CursorsDiffer
<1>2. /\ w \in Nat \ {0} /\ x \in Nat \ {0} /\ r \in Nat \ {0}
      /\ Logs(Program[i][r].kind) /\ Width = 1
  BY <1>1, Programs DEF Writes, Logs, Width, IsRead
<1>3. PICK p \in Nat, q \in Nat, n \in Nat :
        p = StepsBefore(i, w) /\ q = StepsBefore(i, r) /\ n = StepsBefore(i, x)
  BY <1>2, StepsNext
<1>4. p <= q /\ q + 1 <= n
  BY <1>1, <1>2, <1>3, StepsGrow, StepsApart
<1>5. RWTypeOK /\ StreamOK(i) /\ Len(stream[i]) \in Nat
  BY Entries DEF RWInv, LogOK
<1>6. n \in 1 .. Len(stream[i]) /\ n # 0 /\ stream[i][n].seqNum \in Nat
  BY <1>3, <1>4, <1>5, Entries
<1>7. CASE p = 0
  BY <1>3, <1>5, <1>6, <1>7 DEF CursorOf, Cursor, StreamOK
<1>8. CASE p # 0
  <2>1. p \in 1 .. n - 1
    BY <1>3, <1>4, <1>8
  <2>2. stream[i][p].seqNum < stream[i][n].seqNum
    BY <1>5, <1>6, <2>1 DEF StreamOK
  <2> QED BY <1>3, <1>6, <1>8, <2>2 DEF CursorOf, Cursor
<1> QED BY <1>7, <1>8

(***************************************************************************)
(* A read never goes behind a write that its instance made before it: not  *)
(* to the initial value, nor to an earlier write of the instance.  A       *)
(* log-free read selects the version at the cursor that the PostWrite of   *)
(* the write left (ReadWithoutLog); a log-free write raises VERSION to its *)
(* cursor or finds it there, and the read that follows logs what it        *)
(* fetched after that (WriteWithoutLog, ReadWithLog).  With READLOG this   *)
(* is shown for handlers that return when they have lost a step.           *)
(***************************************************************************)
THEOREM ReadYourWritesHolds ==
  ASSUME ReadsArePlain, WritesDiffer,
         Mode = "READLOG" => ChecksExit /\ CallSeqNum # 0 /\ CursorsDiffer
  PROVE  RWSpec => []ReadYourWrites
<1> DEFINE Inv == /\ RWInv
                  /\ Mode = "READLOG" => OwnInv
                  /\ Mode = "WRITELOG" => PastTold
<1>1. RWInit => OwnInv /\ PastTold
  BY OwnInit
<1>2. RWInv /\ Inv /\ [RWNext]_rwVars => (RWInv' => Inv')
  <2> SUFFICES ASSUME RWInv, Inv, [RWNext]_rwVars, RWInv' PROVE Inv'
    OBVIOUS
  <2>1. Mode = "READLOG" => OwnInv'
    BY OwnStays
  <2>2. Mode = "WRITELOG" => PastTold'
    BY PastToldStays
  <2> QED BY <2>1, <2>2
<1>3. Inv => ReadYourWrites
  <2> SUFFICES ASSUME Inv, NEW i \in Instance, NEW j \in DOMAIN told[i], NEW t \in told[i][j],
                      t \in Superseded(i, j)
               PROVE  FALSE
    BY DEF ReadYourWrites
  <2>1. RWTypeOK /\ LogOK /\ j \in DOMAIN Program[i]
    BY Programs DEF RWInv, RWTypeOK
  <2>2. TellOK(i, j, t)
    BY <2>1 DEF RWInv, ToldOK
  <2>3. PICK k \in Key : k = Program[i][j].key
    BY <2>1, Programs
  <2>4. PICK x \in Writes(i, k) :
          x < j /\ (t = InitVal \/ \E w \in Writes(i, k) : w < x /\ t = Program[i][w].val)
    BY <2>1, <2>3, LastOwn
  <2>5. ASSUME NEW m \in Instance, NEW l \in DOMAIN Program[m], IsWrite(m, l),
               Program[m][l].key = k, Program[m][l].val = t
        PROVE  m = i /\ l < x
    <3>1. t # InitVal
      BY <2>5 DEF WritesDiffer
    <3>2. PICK w \in Writes(i, k) : w < x /\ t = Program[i][w].val
      BY <2>4, <3>1
    <3>3. w \in DOMAIN Program[i] /\ IsWrite(i, w) /\ Program[i][w].key = k
      BY DEF Writes, IsWrite
    <3>4. m = i /\ l = w
      BY <2>5, <3>2, <3>3 DEF WritesDiffer
    <3> QED BY <3>2, <3>4
  <2>6. StepsBefore(i, j) \in Nat /\ StepsBefore(i, x) \in Nat /\ StepsBefore(i, x) <= StepsBefore(i, j)
    <3>1. x \in Nat \ {0} /\ j \in Nat \ {0}
      BY <2>1, Programs DEF Writes
    <3> QED BY <2>4, <3>1, StepsNext, StepsGrow
  <2>7. CASE Mode = "WRITELOG"
    <3>1. Plain(k) /\ StepsBefore(i, j) <= Len(stream[i])
      BY <2>1, <2>2, <2>3, <2>6, <2>7 DEF TellOK, ReadsArePlain
    <3>2. t = item[k][VersionAt(k, Cursor(i, StepsBefore(i, j)))]
      BY <2>2, <2>3, <2>7, <3>1 DEF TellOK, Outcome
    <3>3. WriteOver(i, x)
      BY <2>1, <2>4, <2>7 DEF PastTold, Writes, IsWrite
    <3>4. PICK m \in Instance : \E l \in DOMAIN Program[m] :
            /\ IsWrite(m, l) /\ Program[m][l].key = k
            /\ t = Program[m][l].val /\ ~ (m = i /\ l < x)
      BY <2>1, <2>4, <2>7, <3>1, <3>2, <3>3, VersionIsLater
    <3> QED BY <2>5, <3>4
  <2>8. CASE Mode = "READLOG"
    <3>1. /\ IsRead(i, j) /\ StepsBefore(i, j) + 1 <= Len(stream[i])
          /\ t = stream[i][StepsBefore(i, j) + 1].data.result
      BY <2>2, <2>8 DEF TellOK, Outcome
    <3>2. Recent(i, j, t)
      BY <2>1, <2>8, <3>1 DEF OwnInv, LoggedOK
    <3>3. PICK c \in Nat : c >= CursorOf(i, x) /\ PutAt(k, t, c)
      BY <2>3, <2>4, <3>2 DEF Recent
    <3>4. PICK m \in Instance : \E l \in DOMAIN Program[m] : Wrote(m, l, k, t, c)
      BY <3>3 DEF PutAt
    <3>5. PICK l \in DOMAIN Program[m] : Wrote(m, l, k, t, c)
      BY <3>4
    <3>6. m = i /\ l < x
      BY <2>5, <3>5 DEF Wrote
    <3>7. l \in Writes(i, k)
      BY <3>5, <3>6 DEF Wrote, Writes, IsWrite
    <3>8. StepsBefore(i, x) <= Len(stream[i]) /\ CursorOf(i, x) \in Nat
      <4>1. StepsBefore(i, x) <= Len(stream[i])
        BY <2>1, <2>6, <3>1, Entries
      <4> QED BY <2>1, <2>6, <4>1, CursorIs DEF CursorOf, LogOK
    <3>9. CursorOf(i, l) < CursorOf(i, x)
      BY <2>8, <3>6, <3>7, <3>8, CursorsRise
    <3>10. CursorOf(i, l) = c
      BY <3>5, <3>6 DEF Wrote
    <3> QED BY <3>3, <3>8, <3>9, <3>10
  <2> QED BY <2>7, <2>8, ModeAssumption
<1> HIDE DEF Inv
<1>4. RWInit /\ RWInv => Inv
  BY <1>1 DEF Inv
<1> QED BY <1>2, <1>3, <1>4, RWInvHolds, PTL DEF RWSpec
-----------------------------------------------------------------------------
(***************************************************************************)
(* That the item of a key has the largest cursor of its writes rests on    *)
(* OwnInv: an execution is past a write only if VERSION has reached the    *)
(* cursor of the write, and a step goes to the log of an instance only     *)
(* from an execution that is past all writes before it.                    *)
(***************************************************************************)
MadeOK(i, k, w) ==
  Made(i, w) => StepsBefore(i, w) <= Len(stream[i]) /\ version[k] >= CursorOf(i, w)

LastOK(k) ==
  IF version[k] = 0 THEN item[k][0] = InitVal
  ELSE \E i \in Instance : \E j \in Writes(i, k) : ItemIsOf(k, i, j)

LastInv ==
  /\ \A k \in Key : LastOK(k)
  /\ \A i \in Instance, k \in Key : \A w \in Writes(i, k) : MadeOK(i, k, w)

LEMMA LastKept ==
  ASSUME RWInv, LastInv, Keeps,
         \A k \in Key : version'[k] >= version[k],
         \A k \in Key : (version'[k] = version[k] /\ item'[k][0] = item[k][0]) \/ LastOK(k)',
         \A i \in Instance, k \in Key : \A w \in Writes(i, k) :
           Made(i, w)' => Made(i, w) \/ MadeOK(i, k, w)'
  PROVE  LastInv'
<1>1. Typed /\ Grows /\ RWTypeOK /\ RWTypeOK' /\ LogOK
  BY DEF Keeps, RWInv, Typed
<1>2. ASSUME NEW k \in Key PROVE LastOK(k)'
  <2> SUFFICES ASSUME version'[k] = version[k], item'[k][0] = item[k][0] PROVE LastOK(k)'
    OBVIOUS
  <2>1. CASE version[k] = 0
    BY <2>1 DEF LastInv, LastOK
  <2>2. CASE version[k] # 0
    <3>1. PICK i \in Instance : \E j \in Writes(i, k) : ItemIsOf(k, i, j)
      BY <2>2 DEF LastInv, LastOK
    <3>2. PICK j \in Writes(i, k) : ItemIsOf(k, i, j)
      BY <3>1
    <3>3. CursorOf(i, j)' = CursorOf(i, j) /\ StepsBefore(i, j) <= Len(stream'[i])
      BY <1>1, <3>2, KeepCursorOf DEF ItemIsOf, Writes
    <3>4. ItemIsOf(k, i, j)'
      BY <3>2, <3>3 DEF ItemIsOf
    <3> QED BY <2>2, <3>4 DEF LastOK
  <2> QED BY <2>1, <2>2
<1>3. ASSUME NEW i \in Instance, NEW k \in Key, NEW w \in Writes(i, k) PROVE MadeOK(i, k, w)'
  <2> SUFFICES ASSUME Made(i, w) PROVE MadeOK(i, k, w)'
    BY DEF MadeOK
  <2>1. StepsBefore(i, w) <= Len(stream[i]) /\ version[k] >= CursorOf(i, w)
    BY DEF LastInv, MadeOK
  <2>2. w \in DOMAIN Program[i] /\ w \in Nat \ {0}
    BY Programs DEF Writes
  <2>3. CursorOf(i, w)' = CursorOf(i, w) /\ StepsBefore(i, w) <= Len(stream'[i])
    BY <1>1, <2>1, <2>2, KeepCursorOf
  <2>4. CursorOf(i, w) \in Nat
    BY <1>1, <2>1, <2>2, StepsNext, CursorIs DEF CursorOf, LogOK
  <2>5. version[k] \in Nat /\ version'[k] \in Nat /\ version'[k] >= version[k]
    BY <1>1 DEF RWTypeOK
  <2>6. version'[k] >= CursorOf(i, w)'
    BY <2>1, <2>3, <2>4, <2>5
  <2> QED BY <2>3, <2>6 DEF MadeOK
<1> QED BY <1>2, <1>3 DEF LastInv

LEMMA LastQuiet ==
  ASSUME RWInv, LastInv, Keeps, UNCHANGED <<item, version>>,
         \A i \in Instance, k \in Key : \A w \in Writes(i, k) :
           Made(i, w)' => Made(i, w) \/ MadeOK(i, k, w)'
  PROVE  LastInv'
<1>1. \A k \in Key : version'[k] >= version[k]
  BY DEF RWInv, RWTypeOK
<1> QED BY <1>1, LastKept

\* Past is e: who else is past a write is so before the step, too.
Past(e, w) == pc[e] \in {"run", "done"} /\ ~ env[e].exit /\ op[e].idx > w

LEMMA PastMade ==
  ASSUME NEW e \in Executor, NEW w, Past(e, w), NEW i, i = InstanceOf[e]
  PROVE  Made(i, w)
BY DEF Past, Made

LEMMA MadeBefore ==
  ASSUME NEW e \in Executor, OthersRun(e), NEW i \in Instance, NEW w, Made(i, w)',
         stream'[i] = stream[i]
  PROVE  Made(i, w) \/ (InstanceOf[e] = i /\ Past(e, w)')
<1>1. CASE StepsBefore(i, w) < Len(stream'[i])
  <2>1. StepsBefore(i, w) < Len(stream[i])
    BY <1>1
  <2> QED BY <2>1 DEF Made
<1>2. CASE \E x \in Executor : InstanceOf[x] = i /\ Past(x, w)'
  <2>1. PICK x \in Executor : InstanceOf[x] = i /\ Past(x, w)'
    BY <1>2
  <2>2. CASE x # e
    <3>1. Past(x, w)
      BY <2>1, <2>2 DEF Past, OthersRun
    <3> QED BY <2>1, <3>1, PastMade
  <2> QED BY <2>1, <2>2
<1>3. \/ StepsBefore(i, w) < Len(stream'[i])
      \/ \E x \in Executor : InstanceOf[x] = i /\ Past(x, w)'
  BY DEF Made, Past
<1> QED BY <1>1, <1>2, <1>3

LEMMA LastRests ==
  ASSUME RWInv, LastInv, Keeps, NEW e \in Executor,
         Begin(e) \/ Replay(e) \/ End(e) \/ Die(e) \/ FieldMismatch(e)
  PROVE  LastInv'
<1>1. /\ RWTypeOK /\ UNCHANGED <<stream, item, version>>
  BY DEF RWInv, Begin, Call, Replay, CatchNext, CatchDone, End, Die, Crash, FieldMismatch, dbVars
<1>2. OthersRun(e)
  BY <1>1 DEF RWTypeOK, OthersRun, Begin, Call, Replay, CatchNext, CatchDone, End, Die, Crash,
              FieldMismatch
<1>3. ASSUME NEW i \in Instance, NEW k \in Key, NEW w \in Writes(i, k), i = InstanceOf[e],
             Past(e, w)'
      PROVE  Made(i, w)
  <2>1. CASE End(e)
    <3>1. pc[e] = "run" /\ op' = op /\ env' = env
      BY <2>1 DEF End
    <3> QED BY <1>3, <3>1 DEF Past, Made
  <2>2. CASE CatchDone(e) /\ Replay(e)
    <3>1. AliveOK(e) /\ pc[e] = "catch" /\ op' = op
      BY <2>2 DEF CatchDone, Replay, RWInv
    <3>2. op'[e].idx = 1
      BY <3>1 DEF AliveOK, FirstOp
    <3>3. w \in Nat \ {0}
      BY Programs DEF Writes
    <3> QED BY <1>3, <3>2, <3>3 DEF Past
  <2>3. CASE ~ End(e) /\ ~ CatchDone(e)
    <3>1. pc'[e] \notin {"run", "done"}
      BY <1>1, <2>3 DEF RWTypeOK, Begin, Call, Replay, CatchNext, Die, Crash, FieldMismatch
    <3> QED BY <1>3, <3>1 DEF Past
  <2>4. CatchDone(e) => Replay(e)
    BY DEF CatchDone, Replay, Begin, Call, End, Die, Crash, FieldMismatch, InOp
  <2> QED BY <2>1, <2>2, <2>3, <2>4
<1>4. ASSUME NEW i \in Instance, NEW k \in Key, NEW w \in Writes(i, k), Made(i, w)'
      PROVE  Made(i, w)
  BY <1>1, <1>2, <1>3, <1>4, MadeBefore
<1> QED BY <1>1, <1>4, LastQuiet

LEMMA LastFetch ==
  ASSUME RWInv, LastInv, Keeps, NEW e \in Executor, FetchItem(e)
  PROVE  LastInv'
<1>1. /\ UNCHANGED <<stream, pc, env, item, version>>
      /\ op' = [op EXCEPT ![e].tmp = GetItem(Op(e).key, 0), ![e].at = "fetched"]
  BY DEF FetchItem, vars, dbVars
<1>2. OthersRun(e) /\ op'[e].idx = op[e].idx
  BY <1>1 DEF OthersRun, RWInv, RWTypeOK, OpState
<1>3. ASSUME NEW i \in Instance, NEW w, Made(i, w)'
      PROVE  Made(i, w)
  <2>1. Past(e, w)' => Past(e, w)
    BY <1>1, <1>2 DEF Past
  <2> QED BY <1>1, <1>2, <1>3, <2>1, MadeBefore, PastMade
<1> QED BY <1>1, <1>3, LastQuiet

\* A read ends, or is lost: there is no write that e is past only after it.
LEMMA LastRead ==
  ASSUME RWInv, LastInv, Keeps, NEW e \in Executor, NEW at, InOp(e, "read", at), NextOp(e),
         OthersRun(e), pc' = pc, ~ env[e].exit,
         NEW i \in Instance, NEW k \in Key, NEW w \in Writes(i, k),
         InstanceOf[e] = i, Past(e, w)'
  PROVE  Past(e, w)
<1>1. /\ RWTypeOK /\ op[e].idx \in Nat \ {0} /\ Program[i][op[e].idx].kind = "read"
  BY InOpIs
<1>2. op'[e].idx = op[e].idx + 1
  BY <1>1, NextOpIs
<1>3. w \in Nat /\ Program[i][w].kind = "write"
  BY Programs DEF Writes
<1>4. w # op[e].idx
  BY <1>1, <1>3
<1> QED BY <1>1, <1>2, <1>3, <1>4 DEF Past

LEMMA LastReplay ==
  ASSUME RWInv, LastInv, Keeps, ChecksExit, NEW e \in Executor, ReplayRead(e)
  PROVE  LastInv'
<1>1. /\ InOp(e, "read", "start") /\ ReplayStep(e) /\ NextOp(e)
      /\ UNCHANGED <<stream, item, version, pc>>
  BY DEF ReplayRead, ReplayStep, Deliver, dbVars
<1>2. RWTypeOK /\ AliveOK(e) /\ StreamOK(InstanceOf[e])
  BY <1>1, InOpIs DEF LogOK
<1>3. EnvMoves(e) /\ ~ env[e].exit
  BY <1>1, <1>2, ReplayIs
<1>4. OthersRun(e)
  BY <1>1, <1>2, <1>3, NextOpIs DEF OthersRun, EnvMoves
<1>5. ASSUME NEW i \in Instance, NEW k \in Key, NEW w \in Writes(i, k), Made(i, w)'
      PROVE  Made(i, w)
  <2> SUFFICES ASSUME InstanceOf[e] = i, Past(e, w)' PROVE Made(i, w)
    BY <1>1, <1>4, <1>5, MadeBefore
  <2>1. Past(e, w)
    BY <1>1, <1>3, <1>4, LastRead
  <2> QED BY <2>1, PastMade
<1> QED BY <1>1, <1>5, LastQuiet

(***************************************************************************)
(* The step of a read goes to the log behind those of all operations       *)
(* before it, and the execution is past the writes among them.             *)
(***************************************************************************)
LEMMA LastPost ==
  ASSUME RWInv, OwnInv, LastInv, Keeps, Mode = "READLOG", ChecksExit,
         NEW e \in Executor, PostRead(e)
  PROVE  LastInv'
<1> DEFINE d == PostReadData(Op(e).key, op[e].tmp)
<1>1. PICK i, j : i = InstanceOf[e] /\ j = op[e].idx
  OBVIOUS
<1>2. InOp(e, "read", "fetched") /\ UNCHANGED <<item, version>>
  BY DEF PostRead, dbVars
<1>3. /\ RWTypeOK /\ LogOK /\ pc[e] = "run" /\ i \in Instance /\ op[e].at = "fetched"
      /\ AliveOK(e) /\ Op(e).key \in Key
      /\ j \in DOMAIN Program[i] /\ j \in Nat \ {0} /\ Program[i][j].kind = "read"
  BY <1>1, <1>2, InOpIs
<1>4. ~ env[e].exit /\ Typed /\ Grows
  BY <1>2 DEF InOp, Returns, Keeps, RWInv, Typed
<1>5. d \in LogData /\ d.type = "PostRead" /\ d.result \in Val
  BY <1>3 DEF AliveOK, InOpOK, PostReadData, LogData
<1> HIDE DEF d
<1>6. /\ StepsBefore(i, j) \in Nat /\ StepsBefore(i, j) <= Len(stream[i])
      /\ \A k \in Key : \A w \in Writes(i, k) : w < j => version'[k] >= CursorOf(i, w)'
  <2>1. \A k \in Key : version'[k] >= version[k]
    BY <1>2, <1>3 DEF RWTypeOK
  <2> QED BY <1>1, <1>3, <1>4, <2>1, KeepWritten
<1>7. ASSUME NEW k \in Key, NEW w \in Writes(i, k), w < j
      PROVE  MadeOK(i, k, w)'
  <2>1. w \in Nat \ {0} /\ w \in DOMAIN Program[i]
    BY <1>3, Programs DEF Writes
  <2>2. StepsBefore(i, w) <= Len(stream[i])
    <3>1. StepsBefore(i, w) <= StepsBefore(i, j) /\ StepsBefore(i, w) \in Nat
      BY <1>3, <1>7, <2>1, WritesBefore
    <3> QED BY <1>3, <1>6, <3>1, Entries
  <2>3. StepsBefore(i, w) <= Len(stream'[i])
    BY <1>3, <1>4, <2>1, <2>2, KeepCursorOf
  <2> QED BY <1>6, <1>7, <2>3 DEF MadeOK
\* An execution that is past a write after the step is so before it.
<1>8. ASSUME NEW m \in Instance, NEW k \in Key, NEW w \in Writes(m, k),
             OthersRun(e), pc' = pc, NextOp(e), NEW x \in Executor, InstanceOf[x] = m, Past(x, w)'
      PROVE  Made(m, w)
  <2>1. CASE x = e
    <3>1. Past(e, w)
      BY <1>2, <1>4, <1>8, <2>1, LastRead
    <3> QED BY <1>8, <2>1, <3>1, PastMade
  <2>2. CASE x # e
    <3>1. Past(x, w)
      BY <1>8, <2>2 DEF Past, OthersRun
    <3> QED BY <1>8, <3>1, PastMade
  <2> QED BY <2>1, <2>2
<1>9. ASSUME AppendOK(e, Proposal(e, d)),
             NEW m \in Instance, NEW k \in Key, NEW w \in Writes(m, k),
             StepsBefore(m, w) < Len(stream'[m])
      PROVE  Made(m, w) \/ MadeOK(m, k, w)'
  <2>1. Added(i, Proposal(e, d)) /\ env[e].stepNumber = Len(stream[i])
    BY <1>1, <1>3, <1>5, <1>9, AppendIs
  <2>2. CASE m # i
    BY <1>9, <2>1, <2>2 DEF Added, Made
  <2>3. CASE m = i
    <3>1. PICK n \in Nat : n = Len(stream[i])
      BY <1>3, Entries
    <3>2. Len(stream'[i]) = n + 1
      BY <2>1, <3>1 DEF Added
    <3>3. StepsBefore(i, j) = n
      <4>1. OnTrack(e) /\ "fetched" \notin Writing /\ StepsBefore(i, j) + 0 = StepsBefore(i, j)
        BY <1>3, <1>4, <1>6 DEF AliveOK, Writing
      <4> QED BY <1>1, <1>3, <2>1, <3>1, <4>1 DEF OnTrack
    <3>4. w \in Nat \ {0} /\ StepsBefore(i, w) \in Nat /\ Program[i][w].kind = "write"
      BY <2>3, Programs, StepsNext DEF Writes
    <3>5. CASE w < j
      BY <1>7, <2>3, <3>5
    <3>6. ~ w > j
      <4>1. ASSUME w > j PROVE StepsBefore(i, j) + 1 <= StepsBefore(i, w)
        <5>1. Logs(Program[i][j].kind) /\ Width = 1
          BY <1>3 DEF Logs, Width
        <5> QED BY <1>3, <3>4, <4>1, <5>1, StepsApart
      <4> QED BY <1>9, <2>3, <3>1, <3>2, <3>3, <3>4, <4>1
    <3>7. w # j
      BY <1>3, <3>4
    <3> QED BY <1>3, <3>4, <3>5, <3>6, <3>7
  <2> QED BY <2>2, <2>3
<1>10. CASE LoseStep(e) /\ Deliver(e, None)
  <2>1. EnvMoves(e) /\ UNCHANGED <<stream, pc>>
    BY <1>3, <1>10, LoseIs
  <2>2. OthersRun(e) /\ NextOp(e)
    BY <1>3, <1>10, <2>1, NextOpIs DEF OthersRun, EnvMoves, Deliver
  <2>3. ASSUME NEW m \in Instance, NEW k \in Key, NEW w \in Writes(m, k), Made(m, w)'
        PROVE  Made(m, w)
    BY <1>8, <2>1, <2>2, <2>3, MadeBefore
  <2> QED BY <1>2, <2>3, LastQuiet
<1>11. CASE AppendStep(e, d) /\ Deliver(e, op[e].tmp)
  <2>1. EnvMoves(e) /\ pc' = pc /\ AppendOK(e, Proposal(e, d))
    BY <1>3, <1>5, <1>11, AppendRuns DEF AppendStep
  <2>2. OthersRun(e) /\ NextOp(e)
    BY <1>3, <1>11, <2>1, NextOpIs DEF OthersRun, EnvMoves, Deliver
  <2>3. ASSUME NEW m \in Instance, NEW k \in Key, NEW w \in Writes(m, k), Made(m, w)'
        PROVE  Made(m, w) \/ MadeOK(m, k, w)'
    <3>1. CASE StepsBefore(m, w) < Len(stream'[m])
      BY <1>9, <2>1, <3>1
    <3>2. CASE ~ StepsBefore(m, w) < Len(stream'[m])
      <4>1. PICK x \in Executor : InstanceOf[x] = m /\ Past(x, w)'
        BY <2>3, <3>2 DEF Made, Past
      <4> QED BY <1>8, <2>1, <2>2, <4>1
    <3> QED BY <3>1, <3>2
  <2> QED BY <1>2, <2>3, LastQuiet
<1>12. CASE AppendPanic(e, d) /\ UNCHANGED <<op, told>>
  <2>1. pc'[e] = "panic" /\ AppendOK(e, Proposal(e, d))
    BY <1>3, <1>12 DEF AppendPanic, RWTypeOK
  <2>2. OthersRun(e)
    BY <1>3, <1>12 DEF OthersRun, AppendPanic, RWTypeOK
  <2>3. ASSUME NEW m \in Instance, NEW k \in Key, NEW w \in Writes(m, k), Made(m, w)'
        PROVE  Made(m, w) \/ MadeOK(m, k, w)'
    <3>1. CASE StepsBefore(m, w) < Len(stream'[m])
      BY <1>9, <2>1, <3>1
    <3>2. CASE ~ StepsBefore(m, w) < Len(stream'[m])
      <4>1. PICK x \in Executor : InstanceOf[x] = m /\ Past(x, w)'
        BY <2>3, <3>2 DEF Made, Past
      <4>2. x # e
        BY <2>1, <4>1 DEF Past
      <4>3. Past(x, w)
        BY <2>2, <4>1, <4>2 DEF Past, OthersRun
      <4> QED BY <4>1, <4>3, PastMade
    <3> QED BY <3>1, <3>2
  <2> QED BY <1>2, <2>3, LastQuiet
<1> QED BY <1>10, <1>11, <1>12 DEF PostRead, d

(***************************************************************************)
(* A write takes effect if its cursor is newer than VERSION.  Then no      *)
(* write of its instance before it has the same cursor: the execution is   *)
(* past it, so VERSION has reached that cursor.                            *)
(***************************************************************************)
LEMMA LastWrite ==
  ASSUME RWInv, OwnInv, LastInv, Keeps, ChecksExit, CallSeqNum # 0,
         NEW e \in Executor, WriteSingle(e)
  PROVE  LastInv'
<1>1. PICK i, j, k, seq : /\ i = InstanceOf[e] /\ j = op[e].idx
                          /\ k = Program[i][j].key /\ seq = env[e].seqNum
  OBVIOUS
<1>2. /\ UNCHANGED <<stream, pc, env>> /\ pc[e] = "run" /\ ~ env[e].exit
      /\ i \in Instance /\ j \in Nat \ {0} /\ j \in DOMAIN Program[i] /\ k \in Key
      /\ IsWrite(i, j) /\ OthersRun(e) /\ op'[e].idx = j + 1
      /\ StepsBefore(i, j) \in Nat /\ StepsBefore(i, j) <= Len(stream[i])
      /\ seq = CursorOf(i, j) /\ CursorOf(i, j)' = seq
  BY <1>1, WriteIs
<1>3. seq \in Nat /\ version[k] \in Nat /\ Updates(k, seq, Program[i][j].val)
  BY <1>1, WriteIs
<1>4. \A x \in Key : version'[x] >= version[x]
  BY <1>2, <1>3, UpdatesRaise DEF RWInv, RWTypeOK
<1>10. /\ \/ version'[k] = version[k] /\ item'[k] = item[k] /\ version[k] >= seq
         \/ /\ version[k] = 0 \/ version[k] < seq
            /\ item'[k][0] = Program[i][j].val /\ version'[k] = seq
      /\ \A x \in Key : x # k => item'[x] = item[x] /\ version'[x] = version[x]
  BY <1>3 DEF Updates
<1>5. seq > 0 /\ RWTypeOK /\ WrittenOK(e)
  <2>1. seq >= CallSeqNum
    BY <1>1, <1>2 DEF AliveOK, RWInv
  <2>2. seq > 0
    BY <1>3, <2>1
  <2> QED BY <2>2 DEF RWInv, OwnInv
<1>6. j \in Writes(i, k)
  BY <1>1, <1>2 DEF Writes, IsWrite
<1>7. (version'[k] = version[k] /\ item'[k][0] = item[k][0]) \/ LastOK(k)'
  <2> SUFFICES ASSUME version[k] = 0 \/ version[k] < seq,
                      item'[k][0] = Program[i][j].val, version'[k] = seq
               PROVE  LastOK(k)'
    BY <1>10
  <2>1. ASSUME NEW w \in Writes(i, k), w < j PROVE StepsBefore(i, w) < StepsBefore(i, j)
    <3>1. version[k] >= CursorOf(i, w)
      BY <1>1, <1>2, <1>5, <2>1 DEF WrittenOK
    <3>2. CursorOf(i, w) # seq
      BY <1>3, <1>5, <3>1
    <3>3. StepsBefore(i, w) # StepsBefore(i, j)
      BY <1>2, <3>2 DEF CursorOf
    <3>4. StepsBefore(i, w) \in Nat /\ StepsBefore(i, w) <= StepsBefore(i, j)
      <4>1. w <= j
        BY <1>2, <2>1, Programs DEF Writes
      <4> QED BY <1>2, <4>1, WritesBefore
    <3> QED BY <1>2, <3>3, <3>4
  <2>2. ItemIsOf(k, i, j)'
    BY <1>2, <2>1 DEF ItemIsOf
  <2>3. version'[k] # 0
    BY <1>3, <1>5
  <2> QED BY <1>2, <1>6, <2>2, <2>3 DEF LastOK
<1>8. ASSUME NEW m \in Instance, NEW x \in Key, NEW w \in Writes(m, x), Made(m, w)'
      PROVE  Made(m, w) \/ MadeOK(m, x, w)'
  <2> SUFFICES ASSUME m = i, Past(e, w)' PROVE Made(m, w) \/ MadeOK(m, x, w)'
    BY <1>1, <1>2, <1>8, MadeBefore
  <2>1. w \in Nat /\ w < j + 1 /\ Program[i][w].key = x
    BY <1>2, Programs DEF Past, Writes
  <2>2. CASE w < j
    BY <1>1, <1>2, <2>2 DEF Made
  <2>3. CASE w = j
    <3>1. x = k
      BY <1>1, <2>1, <2>3
    <3>2. version'[k] >= CursorOf(i, j)'
      BY <1>2, <1>3, <1>10
    <3> QED BY <1>2, <2>3, <3>1, <3>2 DEF MadeOK
  <2> QED BY <1>2, <2>1, <2>2, <2>3
<1>9. \A x \in Key : (version'[x] = version[x] /\ item'[x][0] = item[x][0]) \/ LastOK(x)'
  BY <1>7, <1>10
<1> QED BY <1>4, <1>8, <1>9, LastKept

LEMMA LastStays ==
  ASSUME RWInv, OwnInv, LastInv, Mode = "READLOG", ChecksExit, CallSeqNum # 0,
         [RWNext]_rwVars
  PROVE  LastInv'
<1>1. Keeps
  BY EveryStep
<1>2. CASE UNCHANGED rwVars
  <2>1. UNCHANGED <<stream, pc, env, item, version, op>>
    BY <1>2 DEF rwVars
  <2>2. \A i \in Instance : \A w : Made(i, w)' => Made(i, w)
    BY <2>1 DEF Made
  <2> QED BY <1>1, <2>1, <2>2, LastQuiet
<1>3. ASSUME NEW e \in Executor, LoggedWrite(e) \/ FindVersion(e) \/ ReadItem(e) PROVE FALSE
  BY <1>3, NoneOfWriteLog
<1> QED BY <1>1, <1>2, <1>3, LastRests, LastWrite, LastFetch, LastReplay, LastPost
        DEF RWNext, Work, LoggedRead

(***************************************************************************)
(* With READLOG the item of a key is that of the write with the largest    *)
(* cursor of those that were made, and of the first one of its instance    *)
(* with this cursor (WriteWithoutLog, LibWriteSingleVersion), for handlers *)
(* that return when they have lost a step.  CallSeqNum is the sequence     *)
(* number of a log entry, that of the intent or of the PreInvoke step of   *)
(* the caller: a cursor of 0 would pass the condition and leave VERSION.   *)
(***************************************************************************)
THEOREM LastCursorHolds ==
  ASSUME Mode = "READLOG", ChecksExit, CallSeqNum # 0
  PROVE  RWSpec => []LastCursorWins
<1>1. RWInit => LastInv
  <2> SUFFICES ASSUME RWInit PROVE LastInv
    OBVIOUS
  <2>1. \A e \in Executor : pc[e] \notin {"run", "done"}
    BY DEF RWInit, Init
  <2>2. ASSUME NEW i \in Instance, NEW k \in Key, NEW w \in Writes(i, k) PROVE ~ Made(i, w)
    <3>1. Len(stream[i]) = 0
      BY DEF RWInit, Init
    <3>2. StepsBefore(i, w) \in Nat
      BY Programs, StepsNext DEF Writes
    <3> QED BY <2>1, <3>1, <3>2 DEF Made
  <2>3. \A k \in Key : version[k] = 0 /\ item[k][0] = InitVal
    BY DEF RWInit
  <2> QED BY <2>2, <2>3 DEF LastInv, LastOK, MadeOK
<1>2. RWInit => OwnInv
  BY OwnInit
<1>3. RWInv /\ OwnInv /\ LastInv /\ [RWNext]_rwVars => OwnInv' /\ LastInv'
  BY OwnStays, LastStays
<1>4. LastInv => LastCursorWins
  BY DEF LastInv, LastOK, MadeOK, LastCursorWins
<1> QED BY <1>1, <1>2, <1>3, <1>4, RWInvHolds, PTL DEF RWSpec
=============================================================================
