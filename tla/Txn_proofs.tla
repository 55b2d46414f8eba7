------------------------------- MODULE Txn_proofs -------------------------------
(***************************************************************************)
(* Proofs about the locks and the transactions of twopl.go.                *)
(*                                                                         *)
(* LockLog: the inductive invariant, that catch never panics, that a       *)
(* granted lock is held, that replicas agree, and that the locks implement *)
(* the lock service.                                                       *)
(*                                                                         *)
(* Txn: transactions are committed everywhere or nowhere, lose no update   *)
(* and leave no lock behind, for any number of transactions, participants  *)
(* and processes that die.                                                 *)
(*                                                                         *)
(* The two parts use nothing of each other.                                *)
(***************************************************************************)
EXTENDS LockLog, Txn, TLAPS

(***************************************************************************)
(* Locks.                                                                  *)
(***************************************************************************)
LockFsmType == [tailSeqNum : Nat, stepNumber : Nat, tail : LockLogEntry]

(***************************************************************************)
(* At most one position of a stream is the first with a given step, and    *)
(* appending an entry changes nothing at the positions before it.          *)
(***************************************************************************)
LEMMA FirstUnique ==
  ASSUME NEW s \in Seq(LockLogEntry),
         NEW j \in 1 .. Len(s), NEW k \in 1 .. Len(s),
         First(s, j), First(s, k), s[j].step = s[k].step
  PROVE  j = k
<1>1. CASE j < k
  <2>1. j \in 1 .. k - 1
    BY <1>1
  <2> QED
    BY <2>1 DEF First
<1>2. CASE k < j
  <2>1. k \in 1 .. j - 1
    BY <1>2
  <2> QED
    BY <2>1 DEF First
<1> QED
  BY <1>1, <1>2

\* An append leaves the earlier positions of a stream as they were.
LEMMA AppendFacts ==
  ASSUME NEW s \in Seq(LockLogEntry), NEW e \in LockLogEntry
  PROVE  LET z == Append(s, e)
         IN  /\ z \in Seq(LockLogEntry)
             /\ Len(z) = Len(s) + 1
             /\ z[Len(s) + 1] = e
             /\ \A k \in 1 .. Len(s) : z[k] = s[k]
             /\ \A k \in 1 .. Len(s) : First(z, k) <=> First(s, k)
<1> DEFINE z == Append(s, e)
<1>1. /\ z \in Seq(LockLogEntry)
      /\ Len(z) = Len(s) + 1
      /\ z[Len(s) + 1] = e
      /\ \A k \in 1 .. Len(s) : z[k] = s[k]
  OBVIOUS
<1>2. ASSUME NEW k \in 1 .. Len(s) PROVE First(z, k) <=> First(s, k)
  <2>1. \A j \in 1 .. k - 1 : j \in 1 .. Len(s)
    OBVIOUS
  <2> QED
    BY <1>1, <2>1 DEF First
<1> QED
  BY <1>1, <1>2

(***************************************************************************)
(* One round of catch keeps a LockFsm correct and does not panic: the      *)
(* entry is for the next step, and then it was allowed by the entry in the *)
(* tail, or it is for an earlier step and dead.                            *)
(***************************************************************************)
LEMMA ApplyOK ==
  ASSUME NEW s \in Seq(LockLogEntry), NEW n \in Nat, NEW f \in LockFsmType,
         LogOK(s, n), FsmOK(f, s, n),
         NEW k \in 1 .. Len(s), IsNext(s, f.tailSeqNum, k)
  PROVE  /\ Apply(f, s[k]) \in LockFsmType
         /\ FsmOK(Apply(f, s[k]), s, n)
         /\ ~ Panics(f, s[k])
<1> DEFINE g == Apply(f, s[k])
<1>0. s[k] \in LockLogEntry /\ EntryOK(s, k, n)
  BY DEF LogOK
<1>a. /\ f.tailSeqNum \in Nat /\ f.stepNumber \in Nat /\ f.tail \in LockLogEntry
      /\ f = [tailSeqNum |-> f.tailSeqNum, stepNumber |-> f.stepNumber, tail |-> f.tail]
  BY DEF LockFsmType
<1>b. \A j \in 1 .. Len(s) : /\ s[j].seqNum \in Nat /\ s[j].step \in Nat
                              /\ s[j].unlockOp \in BOOLEAN
  <2> SUFFICES ASSUME NEW j \in 1 .. Len(s)
               PROVE  /\ s[j].seqNum \in Nat /\ s[j].step \in Nat
                      /\ s[j].unlockOp \in BOOLEAN
    OBVIOUS
  <2>1. s[j] \in LockLogEntry
    OBVIOUS
  <2> QED
    BY <2>1 DEF LockLogEntry
<1>1. \A j \in 1 .. k - 1 : j \in 1 .. Len(s) /\ s[j].step < f.stepNumber
  BY DEF IsNext, FsmOK
<1>2. g \in LockFsmType
  <2>1. CASE s[k].step = f.stepNumber
    BY <1>0, <1>a, <1>b, <2>1 DEF Apply, LockFsmType
  <2>2. CASE s[k].step # f.stepNumber
    BY <1>0, <1>a, <1>b, <2>2 DEF Apply, LockFsmType
  <2> QED
    BY <2>1, <2>2
<1>3. s[k].step <= f.stepNumber
  <2>1. CASE s[k].step = 0
    BY <1>a, <2>1
  <2>2. CASE s[k].step > 0
    <3>1. PICK j \in 1 .. k - 1 : s[j].step + 1 = s[k].step
      BY <1>0, <2>2 DEF EntryOK
    <3>2. s[j].step \in Nat /\ s[j].step < f.stepNumber
      BY <1>1, <1>b
    <3> QED
      BY <1>a, <1>b, <3>1, <3>2
  <2> QED
    BY <1>b, <2>1, <2>2
<1>4. \A j \in 1 .. Len(s) : s[j].seqNum < s[k].seqNum + 1 => j \in 1 .. k
  <2> SUFFICES ASSUME NEW j \in 1 .. Len(s), j > k
               PROVE  ~ (s[j].seqNum < s[k].seqNum + 1)
    OBVIOUS
  <2>1. EntryOK(s, j, n) /\ k \in 1 .. j - 1
    BY DEF LogOK
  <2>2. s[k].seqNum < s[j].seqNum
    BY <2>1 DEF EntryOK
  <2>3. s[j] \in LockLogEntry
    OBVIOUS
  <2> QED
    BY <1>0, <2>2, <2>3 DEF LockLogEntry
<1>5. g.tailSeqNum = s[k].seqNum + 1
  BY DEF Apply, LockFsmType
<1>6. g.tailSeqNum <= n + 1
  BY <1>0, <1>5 DEF EntryOK, LockLogEntry
<1>7. CASE s[k].step = f.stepNumber
  <2>1. /\ g.stepNumber = f.stepNumber + 1
        /\ g.tail = s[k]
    BY <1>7 DEF Apply
  <2>2. First(s, k)
    BY <1>1, <1>7 DEF First, LockFsmType
  <2>3. ASSUME NEW j \in 1 .. Len(s), s[j].seqNum < g.tailSeqNum
        PROVE  s[j].step < g.stepNumber
    <3>1. j \in 1 .. k
      BY <1>4, <1>5, <2>3
    <3>2. CASE j = k
      BY <1>7, <1>a, <2>1, <3>2
    <3>3. CASE j \in 1 .. k - 1
      BY <1>1, <1>a, <1>b, <2>1, <3>3
    <3> QED
      BY <3>1, <3>2, <3>3
  <2>4. FsmOK(g, s, n)
    <3>1. g.stepNumber > 0
      BY <2>1 DEF LockFsmType
    <3>2. s[k].step + 1 = g.stepNumber
      BY <1>7, <2>1
    <3> HIDE DEF g
    <3> QED
      BY <1>6, <2>1, <2>2, <2>3, <3>1, <3>2 DEF FsmOK
  <2>5. ~ Invalid(f, s[k])
    <3>1. CASE f.stepNumber = 0
      BY <1>0, <1>7, <3>1 DEF EntryOK, FsmOK, Invalid, NilTail
    <3>2. CASE f.stepNumber > 0
      <4>1. PICK i \in 1 .. Len(s) : First(s, i) /\ s[i].step + 1 = f.stepNumber /\ f.tail = s[i]
        BY <3>2 DEF FsmOK
      <4>2. PICK j \in 1 .. k - 1 :
              /\ First(s, j)
              /\ s[j].step + 1 = s[k].step
              /\ s[j].unlockOp = ~ s[k].unlockOp
              /\ s[k].unlockOp => s[j].holder = s[k].holder
        BY <1>0, <1>7, <3>2 DEF EntryOK
      <4>3. s[i] \in LockLogEntry /\ s[j] \in LockLogEntry /\ j \in 1 .. Len(s)
        BY <1>1
      <4>4. s[i].step = s[j].step
        <5>1. /\ s[i].step \in Nat /\ s[j].step \in Nat /\ s[k].step = f.stepNumber
              /\ s[i].step + 1 = f.stepNumber /\ s[j].step + 1 = s[k].step
          BY <1>7, <4>1, <4>2, <4>3 DEF LockLogEntry
        <5>2. s[i].step + 1 = s[j].step + 1
          BY <5>1
        <5> HIDE DEF g
        <5> QED BY <5>1, <5>2
      <4>5. i = j
        BY <4>1, <4>2, <4>3, <4>4, FirstUnique
      <4>6. f.tail.unlockOp = ~ s[k].unlockOp
        BY <4>1, <4>2, <4>5
      <4>7. s[k].unlockOp => f.tail.holder = s[k].holder
        BY <4>1, <4>2, <4>5
      <4>8. s[k].unlockOp \in BOOLEAN /\ f.tail.unlockOp \in BOOLEAN
        BY <1>0, <4>1, <4>3 DEF LockLogEntry
      <4> QED
        BY <4>6, <4>7, <4>8, Zenon DEF Invalid
    <3> QED
      BY <3>1, <3>2 DEF LockFsmType
  <2> QED
    BY <1>2, <2>4, <2>5 DEF Panics
<1>8. CASE s[k].step # f.stepNumber
  <2>1. /\ g.stepNumber = f.stepNumber
        /\ g.tail = f.tail
    BY <1>8 DEF Apply, LockFsmType
  <2>2. s[k].step < f.stepNumber
    BY <1>0, <1>3, <1>8 DEF LockFsmType, LockLogEntry
  <2>3. ASSUME NEW j \in 1 .. Len(s), s[j].seqNum < g.tailSeqNum
        PROVE  s[j].step < g.stepNumber
    <3>1. j \in 1 .. k
      BY <1>4, <1>5, <2>3
    <3>2. j = k \/ j \in 1 .. k - 1
      BY <3>1
    <3> QED
      BY <1>1, <2>1, <2>2, <3>2
  <2>4. FsmOK(g, s, n)
    <3> HIDE DEF g
    <3> QED
      BY <1>6, <2>1, <2>3 DEF FsmOK
  <2> QED
    BY <1>2, <1>8, <2>4 DEF Panics
<1> QED
  BY <1>7, <1>8

(***************************************************************************)
(* Appending an entry keeps a LockFsm correct that has not read it.        *)
(***************************************************************************)
LEMMA FsmAfterAppend ==
  ASSUME NEW s \in Seq(LockLogEntry), NEW n \in Nat, NEW f \in LockFsmType,
         NEW e \in LockLogEntry, e.seqNum = n + 1,
         FsmOK(f, s, n)
  PROVE  FsmOK(f, Append(s, e), n + 1)
<1> DEFINE z == Append(s, e)
<1>1. f.tailSeqNum <= (n + 1) + 1
  BY DEF FsmOK, LockFsmType
<1>2. ASSUME NEW k \in 1 .. Len(z), z[k].seqNum < f.tailSeqNum
      PROVE  s[k].step < f.stepNumber /\ z[k].step < f.stepNumber
  <2>1. k # Len(s) + 1
    BY <1>2, AppendFacts DEF FsmOK, LockFsmType
  <2>2. k \in 1 .. Len(s) /\ z[k] = s[k]
    BY <2>1, AppendFacts
  <2> QED
    BY <1>2, <2>2 DEF FsmOK
<1>3. f.stepNumber = 0 => f.tail = NilTail
  BY DEF FsmOK
<1>4. ASSUME f.stepNumber > 0
      PROVE  \E k \in 1 .. Len(z) :
               First(z, k) /\ z[k].step + 1 = f.stepNumber /\ f.tail = z[k]
  <2>1. PICK k \in 1 .. Len(s) :
          First(s, k) /\ s[k].step + 1 = f.stepNumber /\ f.tail = s[k]
    BY <1>4 DEF FsmOK
  <2>2. k \in 1 .. Len(z) /\ z[k] = s[k] /\ First(z, k)
    BY <2>1, AppendFacts
  <2> HIDE DEF z
  <2> QED
    BY <2>1, <2>2
<1> HIDE DEF z
<1>5. FsmOK(f, z, n + 1)
  BY <1>1, <1>2, <1>3, <1>4 DEF FsmOK
<1> QED
  BY <1>5 DEF z

(***************************************************************************)
(* The tail of a LockFsm that has applied something is an entry of the     *)
(* stream, so its holder is a transaction.                                 *)
(***************************************************************************)
LEMMA TailFacts ==
  ASSUME NEW s \in Seq(LockLogEntry), NEW n \in Nat, NEW f \in LockFsmType,
         LogOK(s, n), FsmOK(f, s, n)
  PROVE  /\ f.stepNumber \in Nat
         /\ f.tail.unlockOp \in BOOLEAN
         /\ Holder(f) = NoTxn <=> f.tail.unlockOp
         /\ f.stepNumber = 0 => Holder(f) = NoTxn
<1>1. f.stepNumber \in Nat /\ f.tail \in LockLogEntry
  BY DEF LockFsmType
<1>2. f.tail.unlockOp \in BOOLEAN
  BY <1>1 DEF LockLogEntry
<1>3. CASE f.stepNumber = 0
  BY <1>1, <1>2, <1>3 DEF FsmOK, NilTail, Holder
<1>4. CASE f.stepNumber > 0
  <2>1. PICK k \in 1 .. Len(s) : f.tail = s[k]
    BY <1>4 DEF FsmOK
  <2>2. f.tail.holder \in Txn
    BY <2>1 DEF LogOK, EntryOK
  <2> QED
    BY <1>1, <1>2, <1>4, <2>2, NoTxnAssumption DEF Holder
<1> QED
  BY <1>1, <1>3, <1>4

(***************************************************************************)
(* A LockFsm that has applied every step knows who owns the lock.          *)
(***************************************************************************)
LEMMA KnowsHolder ==
  ASSUME NEW s \in Seq(LockLogEntry), NEW n \in Nat, NEW f \in LockFsmType,
         LogOK(s, n), FsmOK(f, s, n),
         \A j \in 1 .. Len(s) : s[j].step < f.stepNumber
  PROVE  \A u \in Txn : HeldBy(s, u) <=> Holder(f) = u
<1>1. f.stepNumber \in Nat
  BY DEF LockFsmType
<1>2. CASE f.stepNumber = 0
  <2>1. Holder(f) = NoTxn
    BY <1>2, TailFacts
  <2>2. \A j \in 1 .. Len(s) : s[j].step \in Nat
    <3>1. \A j \in 1 .. Len(s) : s[j] \in LockLogEntry
      OBVIOUS
    <3> QED
      BY <3>1 DEF LockLogEntry
  <2>3. \A u \in Txn : ~ HeldBy(s, u)
    BY <1>2, <2>2 DEF HeldBy
  <2> QED
    BY <2>1, <2>3, NoTxnAssumption
<1>3. CASE f.stepNumber > 0
  <2>1. PICK i \in 1 .. Len(s) : First(s, i) /\ s[i].step + 1 = f.stepNumber /\ f.tail = s[i]
    BY <1>3 DEF FsmOK
  <2>2. \A j \in 1 .. Len(s) : s[j].step \in Nat
    <3>1. \A j \in 1 .. Len(s) : s[j] \in LockLogEntry
      OBVIOUS
    <3> QED
      BY <3>1 DEF LockLogEntry
  <2>3. \A j \in 1 .. Len(s) : s[j].step <= s[i].step
    BY <1>1, <2>1, <2>2
  <2>4. Latest(s, i)
    BY <2>1, <2>3 DEF Latest
  <2>5. ASSUME NEW k \in 1 .. Len(s), Latest(s, k) PROVE k = i
    <3>1. s[k].step = s[i].step
      BY <2>2, <2>4, <2>5 DEF Latest
    <3> QED
      BY <2>1, <2>5, <3>1, FirstUnique DEF Latest
  <2>6. s[i].unlockOp \in BOOLEAN /\ s[i].holder \in Txn
    <3>1. s[i] \in LockLogEntry
      OBVIOUS
    <3> QED
      BY <3>1 DEF LockLogEntry, LogOK, EntryOK
  <2>7. ASSUME NEW u \in Txn PROVE HeldBy(s, u) <=> (~ s[i].unlockOp /\ s[i].holder = u)
    BY <2>4, <2>5 DEF HeldBy
  <2>8. ASSUME NEW u \in Txn PROVE Holder(f) = u <=> (~ s[i].unlockOp /\ s[i].holder = u)
    BY <2>1, <2>6, NoTxnAssumption DEF Holder
  <2> QED
    BY <2>7, <2>8
<1> QED
  BY <1>1, <1>2, <1>3

(***************************************************************************)
(* What an append does to a lock: nothing, if the copy that it was based   *)
(* on is behind; otherwise the copy knew the owner and the entry is obeyed.*)
(***************************************************************************)
LEMMA AppendEffect ==
  ASSUME NEW s \in Seq(LockLogEntry), NEW n \in Nat, NEW f \in LockFsmType,
         LogOK(s, n), FsmOK(f, s, n),
         NEW e \in LockLogEntry, e.step = f.stepNumber
  PROVE  \/ \A u \in Txn : HeldBy(Append(s, e), u) <=> HeldBy(s, u)
         \/ /\ \A u \in Txn : HeldBy(s, u) <=> Holder(f) = u
            /\ \A u \in Txn : HeldBy(Append(s, e), u) <=> ~ e.unlockOp /\ e.holder = u
<1> DEFINE z == Append(s, e)
           m == Len(s) + 1
<1>1. f.stepNumber \in Nat
  BY DEF LockFsmType
<1>2. \A j \in 1 .. Len(s) : s[j].step \in Nat
  <2>1. \A j \in 1 .. Len(s) : s[j] \in LockLogEntry
    OBVIOUS
  <2> QED
    BY <2>1 DEF LockLogEntry
<1>3. /\ Len(z) = m
      /\ z[m] = e
      /\ \A k \in 1 .. Len(s) : z[k] = s[k] /\ (First(z, k) <=> First(s, k))
  BY AppendFacts
<1>4. Len(s) \in Nat /\ m \in 1 .. m /\ \A k \in 1 .. m : k = m \/ k \in 1 .. Len(s)
  OBVIOUS
<1>5. CASE \A j \in 1 .. Len(s) : s[j].step < f.stepNumber
  <2>1. Latest(z, m)
    <3>1. First(z, m)
      BY <1>1, <1>2, <1>3, <1>4, <1>5 DEF First
    <3>2. \A j \in 1 .. m : z[j].step <= z[m].step
      BY <1>1, <1>2, <1>3, <1>4, <1>5
    <3> HIDE DEF z
    <3> QED
      BY <1>3, <1>4, <3>1, <3>2 DEF Latest
  <2>2. ASSUME NEW k \in 1 .. m, Latest(z, k) PROVE k = m
    <3>1. z[m].step <= z[k].step
      BY <1>3, <1>4, <2>2 DEF Latest
    <3> QED
      BY <1>1, <1>2, <1>3, <1>4, <1>5, <3>1
  <2>3. ASSUME NEW u \in Txn PROVE HeldBy(z, u) <=> ~ e.unlockOp /\ e.holder = u
    <3> HIDE DEF z
    <3> QED
      BY <1>3, <1>4, <2>1, <2>2 DEF HeldBy
  <2> QED
    BY <1>5, <2>3, KnowsHolder
<1>6. CASE \E j \in 1 .. Len(s) : s[j].step >= f.stepNumber
  <2>1. PICK j \in 1 .. Len(s) : s[j].step >= f.stepNumber
    BY <1>6
  <2>2. ASSUME NEW k \in 1 .. Len(s), Latest(s, k) PROVE Latest(z, k)
    <3>1. f.stepNumber <= s[k].step
      BY <1>1, <1>2, <2>1, <2>2 DEF Latest
    <3>2. \A i \in 1 .. m : z[i].step <= z[k].step
      BY <1>3, <1>4, <2>2, <3>1 DEF Latest
    <3>3. First(z, k) /\ k \in 1 .. m
      BY <1>3, <1>4, <2>2 DEF Latest
    <3> HIDE DEF z
    <3> QED
      BY <1>3, <3>2, <3>3 DEF Latest
  <2>3. ASSUME NEW k \in 1 .. m, Latest(z, k) PROVE k \in 1 .. Len(s) /\ Latest(s, k)
    <3>1. k # m
      <4>1. SUFFICES ASSUME k = m PROVE FALSE
        OBVIOUS
      <4>2. z[j].step = s[j].step /\ j \in 1 .. m /\ j \in 1 .. m - 1
        BY <1>3, <1>4
      <4>3. s[j].step <= f.stepNumber
        BY <1>3, <2>3, <4>1, <4>2 DEF Latest
      <4>4. z[j].step = z[m].step
        BY <1>1, <1>2, <1>3, <2>1, <4>2, <4>3
      <4> HIDE DEF z
      <4> QED
        BY <2>3, <4>1, <4>2, <4>4 DEF Latest, First
    <3>2. k \in 1 .. Len(s)
      BY <1>4, <3>1
    <3>3. \A i \in 1 .. Len(s) : i \in 1 .. m
      BY <1>4
    <3> HIDE DEF z, m
    <3> QED
      BY <1>3, <2>3, <3>2, <3>3 DEF Latest
  <2>4. ASSUME NEW u \in Txn PROVE HeldBy(z, u) <=> HeldBy(s, u)
    <3> HIDE DEF z
    <3> QED
      BY <1>3, <1>4, <2>2, <2>3 DEF HeldBy
  <2> QED
    BY <2>4
<1> QED
  BY <1>1, <1>2, <1>5, <1>6

(***************************************************************************)
(* Appending what the own copy allows keeps the stream correct.            *)
(***************************************************************************)
LEMMA LogAfterAppend ==
  ASSUME NEW s \in Seq(LockLogEntry), NEW n \in Nat, NEW f \in LockFsmType,
         LogOK(s, n), FsmOK(f, s, n),
         NEW e \in LockLogEntry, e.seqNum = n + 1, e.step = f.stepNumber,
         e.holder \in Txn,
         Holder(f) = IF e.unlockOp THEN e.holder ELSE NoTxn
  PROVE  LogOK(Append(s, e), n + 1)
<1> DEFINE z == Append(s, e)
           m == Len(s) + 1
<1>1. /\ Len(z) = m
      /\ z[m] = e
      /\ \A k \in 1 .. Len(s) : z[k] = s[k] /\ (First(z, k) <=> First(s, k))
  BY AppendFacts
<1>2. \A j \in 1 .. Len(s) : s[j].seqNum \in 1 .. n
  BY DEF LogOK, EntryOK
<1>3. ASSUME NEW k \in 1 .. Len(s) PROVE EntryOK(z, k, n + 1)
  <2>1. EntryOK(s, k, n)
    BY DEF LogOK
  <2>2. \A j \in 1 .. k - 1 : j \in 1 .. Len(s)
    OBVIOUS
  <2>3. z[k] = s[k] /\ \A j \in 1 .. k - 1 : z[j] = s[j] /\ (First(z, j) <=> First(s, j))
    BY <1>1, <2>2
  <2>4. s[k].seqNum \in 1 .. n + 1
    BY <1>2
  <2> HIDE DEF z
  <2> QED
    BY <2>1, <2>3, <2>4 DEF EntryOK
<1>4. EntryOK(z, m, n + 1)
  <2>1. e.unlockOp \in BOOLEAN /\ e.step \in Nat
    BY DEF LockLogEntry
  <2>2. e.seqNum \in 1 .. n + 1
    OBVIOUS
  <2>3. \A j \in 1 .. m - 1 : z[j].seqNum < e.seqNum
    BY <1>1, <1>2
  <2>4. e.step = 0 => ~ e.unlockOp
    BY NoTxnAssumption, TailFacts
  <2>5. ASSUME e.step > 0
        PROVE  \E j \in 1 .. m - 1 :
                 /\ First(z, j)
                 /\ z[j].step + 1 = e.step
                 /\ z[j].unlockOp = ~ e.unlockOp
                 /\ e.unlockOp => z[j].holder = e.holder
    <3>1. PICK i \in 1 .. Len(s) : First(s, i) /\ s[i].step + 1 = f.stepNumber /\ f.tail = s[i]
      BY <2>5 DEF FsmOK
    <3>2. z[i] = f.tail /\ First(z, i) /\ i \in 1 .. m - 1
      BY <1>1, <3>1
    <3>3. f.tail.unlockOp \in BOOLEAN /\ (Holder(f) = NoTxn <=> f.tail.unlockOp)
      BY TailFacts
    <3>4. CASE e.unlockOp
      BY <2>1, <3>1, <3>2, <3>3, <3>4, NoTxnAssumption DEF Holder
    <3>5. CASE ~ e.unlockOp
      BY <2>1, <3>1, <3>2, <3>3, <3>5
    <3> QED
      BY <3>4, <3>5
  <2> HIDE DEF z, m
  <2> QED
    BY <1>1, <2>2, <2>3, <2>4, <2>5 DEF EntryOK
<1>5. \A k \in 1 .. m : k = m \/ k \in 1 .. Len(s)
  OBVIOUS
<1> HIDE DEF z, m
<1>6. LogOK(z, n + 1)
  BY <1>1, <1>3, <1>4, <1>5 DEF LogOK
<1> QED
  BY <1>6 DEF z

(***************************************************************************)
(* A new LockFsm is correct for any stream.                                *)
(***************************************************************************)
LEMMA NewFsmOK ==
  ASSUME NEW s \in Seq(LockLogEntry), NEW n \in Nat, LogOK(s, n)
  PROVE  NewLockFsm \in LockFsmType /\ FsmOK(NewLockFsm, s, n)
<1>1. NewLockFsm \in LockFsmType
  BY DEF NewLockFsm, NilTail, LockFsmType, LockLogEntry
<1>2. \A k \in 1 .. Len(s) : ~ (s[k].seqNum < 0)
  BY DEF LogOK, EntryOK
<1> QED
  BY <1>1, <1>2 DEF NewLockFsm, FsmOK

(***************************************************************************)
(* The cache of a node only ever holds what was there or what a process    *)
(* stored back for the lock it was called for.                             *)
(***************************************************************************)
LEMMA StoreBackFacts ==
  ASSUME TypeOK, NEW p \in Process, StoreBack(p)
  PROVE  /\ lockFsms' \in [Node -> [LockId -> LockFsmType]]
         /\ \A n \in Node, l \in LockId :
              \/ lockFsms'[n][l] = lockFsms[n][l]
              \/ l = arg[p] /\ lockFsms'[n][l] = fsm[p]
<1>1. /\ lockFsms \in [Node -> [LockId -> LockFsmType]]
      /\ fsm[p] \in LockFsmType
      /\ NodeOf[p] \in Node
      /\ arg[p] \in LockId
  BY NodeOfAssumption DEF TypeOK, LockFsmType
<1> QED
  BY <1>1 DEF StoreBack

\* The invariant holds of empty streams, caches and processes.
LEMMA InitLockInv == Init => LockInv
<1> SUFFICES ASSUME Init PROVE LockInv
  OBVIOUS
<1>1. NewLockFsm \in LockFsmType
  BY DEF NewLockFsm, NilTail, LockFsmType, LockLogEntry
<1>2. TypeOK
  BY <1>1 DEF Init, TypeOK, LockFsmType
<1>3. \A l \in LockId : LogOK(stream[l], logTail)
  <2>1. \A l \in LockId : stream[l] = <<>>
    BY DEF Init
  <2>2. \A l \in LockId : \A k \in 1 .. Len(stream[l]) : FALSE
    BY <2>1
  <2> QED
    BY <2>2 DEF LogOK
<1>4. \A l \in LockId : FsmOK(NewLockFsm, stream[l], logTail)
  BY <1>2, <1>3, NewFsmOK DEF TypeOK
<1>5. \A p \in Process : ProcOK(p)
  <2>1. ASSUME NEW p \in Process
        PROVE  pc[p] = "idle" /\ arg[p] \in LockId /\ fsm[p] = NewLockFsm
    BY DEF Init
  <2> QED
    BY <1>4, <2>1 DEF ProcOK
<1>6. GrantedIsHeld
  BY DEF Init, GrantedIsHeld
<1> QED
  BY <1>2, <1>3, <1>4, <1>5, <1>6 DEF Init, LockInv

(***************************************************************************)
(* A step of p that leaves the log alone: what is left to prove is that    *)
(* p's own part and the caches are correct, and that a lock newly granted  *)
(* to p is held.                                                           *)
(***************************************************************************)
LEMMA QuietStep ==
  ASSUME LockInv, NEW p \in Process, UNCHANGED <<logTail, stream>>, TypeOK',
         \A x \in Process \ {p} : /\ pc'[x] = pc[x] /\ arg'[x] = arg[x]
                                  /\ fsm'[x] = fsm[x] /\ has'[x] = has[x],
         \A n \in Node, l \in LockId : FsmOK(lockFsms'[n][l], stream[l], logTail),
         \A l \in has'[p] : l \in has[p] \/ HeldBy(stream[l], TxnOf[p]),
         ProcOK(p)'
  PROVE  LockInv'
<1>1. (\A l \in LockId : LogOK(stream[l], logTail))'
  BY DEF LockInv
<1>2. ASSUME NEW x \in Process PROVE ProcOK(x)'
  BY DEF LockInv, ProcOK
<1>3. GrantedIsHeld'
  <2> SUFFICES ASSUME NEW x \in Process, Alone(x), NEW l \in has'[x]
               PROVE  HeldBy(stream[l], TxnOf[x])
    BY DEF GrantedIsHeld, Alone
  <2>1. l \in has[x] => HeldBy(stream[l], TxnOf[x])
    BY DEF LockInv, GrantedIsHeld
  <2> QED
    BY <2>1
<1> QED
  BY <1>1, <1>2, <1>3 DEF LockInv

\* Lock and Unlock start from the cached LockFsm and keep the invariant.
LEMMA EnterStep ==
  ASSUME LockInv, NEW p \in Process, NEW l \in LockId, Lock(p, l) \/ Unlock(p, l)
  PROVE  LockInv'
<1>1. TypeOK /\ lockFsms[NodeOf[p]][l] \in LockFsmType
  BY NodeOfAssumption DEF LockInv, TypeOK, LockFsmType
<1>2. TypeOK'
  <2>1. UNCHANGED <<logTail, stream, lockFsms, mine, cursor>>
    BY DEF Lock, Unlock, Enter
  <2>2. /\ pc' = [pc EXCEPT ![p] = "lock"] \/ pc' = [pc EXCEPT ![p] = "unlock"]
        /\ arg' = [arg EXCEPT ![p] = l]
        /\ fsm' = [fsm EXCEPT ![p] = lockFsms[NodeOf[p]][l]]
        /\ has' = has \/ has' = [has EXCEPT ![p] = @ \ {l}]
    BY DEF Lock, Unlock, Enter
  <2>3. fsm' \in [Process -> LockFsmType]
    <3>1. fsm \in [Process -> LockFsmType]
      BY <1>1 DEF TypeOK, LockFsmType
    <3> QED BY <1>1, <2>2, <3>1
  <2>4. has' \in [Process -> SUBSET LockId]
    <3>1. has \in [Process -> SUBSET LockId]
      BY <1>1 DEF TypeOK
    <3> QED BY <2>2, <3>1
  <2> QED
    BY <1>1, <2>1, <2>2, <2>3, <2>4 DEF TypeOK, LockFsmType
<1>3. ProcOK(p)'
  <2>1. FsmOK(lockFsms[NodeOf[p]][l], stream[l], logTail)
    BY NodeOfAssumption DEF LockInv
  <2>2. /\ fsm'[p] = lockFsms[NodeOf[p]][l] /\ arg'[p] = l
        /\ stream' = stream /\ logTail' = logTail
    BY <1>1 DEF Lock, Unlock, Enter, TypeOK
  <2>3. \/ pc'[p] = "lock"
        \/ pc'[p] = "unlock" /\ arg'[p] \notin has'[p]
    BY <1>1 DEF Lock, Unlock, Enter, TypeOK
  <2> QED
    BY <2>1, <2>2, <2>3 DEF ProcOK
<1>4. has'[p] \subseteq has[p]
  BY <1>1 DEF Lock, Unlock, Enter, TypeOK
<1>5. \A x \in Process \ {p} : /\ pc'[x] = pc[x] /\ arg'[x] = arg[x]
                               /\ fsm'[x] = fsm[x] /\ has'[x] = has[x]
  BY <1>1 DEF Lock, Unlock, Enter, TypeOK
<1>6. \A n \in Node, m \in LockId : FsmOK(lockFsms'[n][m], stream[m], logTail)
  BY DEF Lock, Unlock, Enter, LockInv
<1>7. UNCHANGED <<logTail, stream>>
  BY DEF Lock, Unlock, Enter
<1> QED
  BY <1>2, <1>3, <1>4, <1>5, <1>6, <1>7, QuietStep

\* Replaying one entry keeps the invariant: it is allowed where it takes effect.
LEMMA CatchNextStep ==
  ASSUME LockInv, NEW p \in Process, CatchNext(p)
  PROVE  LockInv'
<1> DEFINE s == stream[arg[p]]
<1>1. /\ TypeOK /\ ProcOK(p) /\ arg[p] \in LockId
      /\ s \in Seq(LockLogEntry) /\ LogOK(s, logTail)
      /\ logTail \in Nat /\ fsm[p] \in LockFsmType
  BY DEF LockInv, TypeOK, LockFsmType
<1>2. PICK k \in 1 .. Len(s) :
        /\ IsNext(s, fsm[p].tailSeqNum, k)
        /\ fsm' = [fsm EXCEPT ![p] = Apply(@, s[k])]
        /\ pc' = [pc EXCEPT ![p] = IF Panics(fsm[p], s[k]) THEN "panic" ELSE @]
  BY DEF CatchNext
<1>3. /\ Apply(fsm[p], s[k]) \in LockFsmType
      /\ FsmOK(Apply(fsm[p], s[k]), s, logTail)
      /\ ~ Panics(fsm[p], s[k])
  <2> HIDE DEF s
  <2> QED
    BY <1>1, <1>2, ApplyOK DEF ProcOK, s
<1>4. fsm'[p] = Apply(fsm[p], s[k]) /\ pc' = pc
  BY <1>1, <1>2, <1>3 DEF TypeOK
<1>5. UNCHANGED <<logTail, stream, lockFsms, arg, mine, cursor, has>>
  BY DEF CatchNext
<1>6. TypeOK'
  BY <1>1, <1>2, <1>3, <1>4, <1>5 DEF TypeOK, LockFsmType
<1>7. ProcOK(p)'
  <2>1. pc[p] \in {"lock", "confirm", "unlock"}
    BY DEF CatchNext
  <2> QED
    BY <1>1, <1>3, <1>4, <1>5, <2>1 DEF ProcOK
<1>8. \A x \in Process \ {p} : /\ pc'[x] = pc[x] /\ arg'[x] = arg[x]
                               /\ fsm'[x] = fsm[x] /\ has'[x] = has[x]
  BY <1>1, <1>2, <1>4, <1>5 DEF TypeOK
<1>9. \A n \in Node, m \in LockId : FsmOK(lockFsms'[n][m], stream[m], logTail)
  BY <1>5 DEF LockInv
<1> QED
  BY <1>5, <1>6, <1>7, <1>8, <1>9, QuietStep

(***************************************************************************)
(* Lock and Unlock decide to append: only the place of p changes.          *)
(***************************************************************************)
LEMMA DecideStep ==
  ASSUME LockInv, NEW p \in Process, LockFree(p) \/ UnlockOwn(p)
  PROVE  LockInv'
<1>1. TypeOK /\ ProcOK(p)
  BY DEF LockInv
<1>2. TypeOK'
  BY <1>1 DEF TypeOK, LockFree, UnlockOwn
<1>3. ProcOK(p)'
  <2>1. UNCHANGED <<logTail, stream, arg, fsm, has>>
    BY DEF LockFree, UnlockOwn
  <2>2. \/ pc'[p] = "append" /\ Holder(fsm[p]) = NoTxn
        \/ pc'[p] = "release" /\ pc[p] = "unlock" /\ Holder(fsm[p]) = TxnOf[p]
    BY <1>1 DEF TypeOK, LockFree, UnlockOwn, Caught
  <2> QED
    BY <1>1, <2>1, <2>2 DEF ProcOK
<1>4. \A x \in Process \ {p} : /\ pc'[x] = pc[x] /\ arg'[x] = arg[x]
                               /\ fsm'[x] = fsm[x] /\ has'[x] = has[x]
  BY <1>1 DEF TypeOK, LockFree, UnlockOwn
<1>5. \A n \in Node, m \in LockId : FsmOK(lockFsms'[n][m], stream[m], logTail)
  BY DEF LockFree, UnlockOwn, LockInv
<1>6. UNCHANGED <<logTail, stream, has>>
  BY DEF LockFree, UnlockOwn
<1> QED
  BY <1>2, <1>3, <1>4, <1>5, <1>6, QuietStep

(***************************************************************************)
(* A copy that is caught up and names a transaction as holder is right.    *)
(***************************************************************************)
LEMMA CaughtHolder ==
  ASSUME LockInv, NEW p \in Process, CaughtUp(fsm[p], stream[arg[p]])
  PROVE  \A u \in Txn : HeldBy(stream[arg[p]], u) <=> Holder(fsm[p]) = u
<1> DEFINE s == stream[arg[p]]
<1>1. /\ s \in Seq(LockLogEntry) /\ LogOK(s, logTail)
      /\ logTail \in Nat /\ fsm[p] \in LockFsmType
      /\ FsmOK(fsm[p], s, logTail)
  BY DEF LockInv, TypeOK, LockFsmType, ProcOK
<1>2. \A j \in 1 .. Len(s) : s[j].step < fsm[p].stepNumber
  BY <1>1 DEF CaughtUp, FsmOK
<1> HIDE DEF s
<1>3. \A u \in Txn : HeldBy(s, u) <=> Holder(fsm[p]) = u
  BY <1>1, <1>2, KnowsHolder
<1> QED
  BY <1>3 DEF s

(***************************************************************************)
(* Lock and Unlock return without another append.                          *)
(***************************************************************************)
LEMMA ReturnStep ==
  ASSUME LockInv, NEW p \in Process, LockTaken(p) \/ Confirm(p) \/ UnlockForeign(p)
  PROVE  LockInv'
<1>1. /\ TypeOK /\ ProcOK(p) /\ arg[p] \in LockId
      /\ stream[arg[p]] \in Seq(LockLogEntry) /\ LogOK(stream[arg[p]], logTail)
      /\ logTail \in Nat
  BY DEF LockInv, TypeOK
<1>2. PICK granted \in BOOLEAN :
        Return(p, granted) /\ (granted => Holder(fsm[p]) = TxnOf[p])
  BY DEF LockTaken, Confirm, UnlockForeign
<1>3. UNCHANGED <<logTail, stream, arg>>
  BY DEF LockTaken, Confirm, UnlockForeign, Return
<1>4. CaughtUp(fsm[p], stream[arg[p]])
  BY DEF LockTaken, Confirm, UnlockForeign, Caught
<1>5. /\ lockFsms' \in [Node -> [LockId -> LockFsmType]]
      /\ \A n \in Node, l \in LockId :
           \/ lockFsms'[n][l] = lockFsms[n][l]
           \/ l = arg[p] /\ lockFsms'[n][l] = fsm[p]
  BY <1>1, <1>2, StoreBackFacts DEF Return
<1>6. NewLockFsm \in LockFsmType /\ FsmOK(NewLockFsm, stream[arg[p]], logTail)
  BY <1>1, NewFsmOK
<1>7. /\ pc' = [pc EXCEPT ![p] = "idle"]
      /\ fsm' = [fsm EXCEPT ![p] = NewLockFsm]
      /\ mine' = [mine EXCEPT ![p] = 0]
      /\ has' = IF granted THEN [has EXCEPT ![p] = @ \cup {arg[p]}] ELSE has
  BY <1>2 DEF Return
<1>8. cursor' \in [Process -> Nat]
  BY <1>1 DEF LockTaken, Confirm, UnlockForeign, TypeOK
<1>9. TypeOK'
  <2>1. fsm' \in [Process -> LockFsmType]
    BY <1>1, <1>6, <1>7 DEF TypeOK, LockFsmType
  <2>2. has' \in [Process -> SUBSET LockId]
    BY <1>1, <1>7 DEF TypeOK
  <2>3. /\ pc' \in [Process -> {"idle", "lock", "append", "confirm", "unlock", "release", "panic"}]
        /\ mine' \in [Process -> Nat]
    BY <1>1, <1>7 DEF TypeOK
  <2> QED
    BY <1>1, <1>3, <1>5, <1>8, <2>1, <2>2, <2>3 DEF TypeOK, LockFsmType
<1>10. ProcOK(p)'
  BY <1>1, <1>3, <1>6, <1>7 DEF ProcOK, TypeOK
<1>11. \A x \in Process \ {p} : /\ pc'[x] = pc[x] /\ arg'[x] = arg[x]
                                /\ fsm'[x] = fsm[x] /\ has'[x] = has[x]
  BY <1>1, <1>3, <1>7 DEF TypeOK
<1>12. \A n \in Node, l \in LockId : FsmOK(lockFsms'[n][l], stream[l], logTail)
  BY <1>1, <1>5 DEF LockInv, ProcOK
<1>13. ASSUME NEW l \in has'[p] PROVE l \in has[p] \/ HeldBy(stream[l], TxnOf[p])
  <2>1. (granted /\ l = arg[p]) \/ l \in has[p]
    BY <1>1, <1>7 DEF TypeOK
  <2>2. granted => HeldBy(stream[arg[p]], TxnOf[p])
    BY <1>2, <1>4, CaughtHolder, TxnOfAssumption
  <2> QED
    BY <2>1, <2>2
<1> QED
  BY <1>3, <1>9, <1>10, <1>11, <1>12, <1>13, QuietStep

(***************************************************************************)
(* A stream stays correct when the rest of the log grows.                  *)
(***************************************************************************)
LEMMA LogGrows ==
  ASSUME NEW s, NEW n \in Nat, LogOK(s, n)
  PROVE  LogOK(s, n + 1)
<1> SUFFICES ASSUME NEW k \in 1 .. Len(s) PROVE EntryOK(s, k, n + 1)
  BY DEF LogOK
<1>1. EntryOK(s, k, n)
  BY DEF LogOK
<1>2. s[k].seqNum \in 1 .. n + 1
  BY <1>1 DEF EntryOK
<1> QED
  BY <1>1, <1>2 DEF EntryOK

(***************************************************************************)
(* An append: the caches and all copies stay correct for the longer        *)
(* stream, and no lock that a lone process was granted changes hands.      *)
(***************************************************************************)
LEMMA AppendKeeps ==
  ASSUME LockInv, NEW p \in Process, NEW unlockOp \in BOOLEAN,
         AppendEntry(p, unlockOp),
         Holder(fsm[p]) = IF unlockOp THEN TxnOf[p] ELSE NoTxn,
         unlockOp => arg[p] \notin has[p]
  PROVE  /\ logTail' \in Nat
         /\ stream' \in [LockId -> Seq(LockLogEntry)]
         /\ \A l \in LockId : LogOK(stream'[l], logTail')
         /\ \A f \in LockFsmType, l \in LockId :
              FsmOK(f, stream[l], logTail) => FsmOK(f, stream'[l], logTail')
         /\ \A x \in Process : Alone(x) =>
              \A l \in has[x] : HeldBy(stream'[l], TxnOf[x])
<1> DEFINE a == arg[p]
           s == stream[a]
           f == fsm[p]
           e == [seqNum |-> logTail + 1, step |-> f.stepNumber,
                 unlockOp |-> unlockOp, holder |-> TxnOf[p]]
<1>1. /\ TypeOK /\ a \in LockId /\ s \in Seq(LockLogEntry) /\ logTail \in Nat
      /\ f \in LockFsmType /\ LogOK(s, logTail) /\ FsmOK(f, s, logTail)
      /\ stream \in [LockId -> Seq(LockLogEntry)]
  BY DEF LockInv, TypeOK, ProcOK, LockFsmType
<1>2. TxnOf[p] \in Txn
  BY TxnOfAssumption
<1>3. e \in LockLogEntry
  BY <1>1, <1>2 DEF LockFsmType, LockLogEntry
<1>4. /\ logTail' = logTail + 1
      /\ stream' = [stream EXCEPT ![a] = Append(s, e)]
  BY DEF AppendEntry
<1>5. /\ e.seqNum = logTail + 1 /\ e.step = f.stepNumber
      /\ e.holder = TxnOf[p] /\ e.unlockOp = unlockOp
  OBVIOUS
<1>6. Holder(f) = IF e.unlockOp THEN e.holder ELSE NoTxn
  BY <1>5
<1>7. Append(s, e) \in Seq(LockLogEntry)
  BY <1>1, <1>3
<1>8. \A l \in LockId : stream'[l] = IF l = a THEN Append(s, e) ELSE stream[l]
  BY <1>1, <1>4
<1>9. stream' \in [LockId -> Seq(LockLogEntry)]
  BY <1>1, <1>4, <1>7
<1> HIDE DEF e, f, s, a
<1>10. LogOK(Append(s, e), logTail + 1)
  BY <1>1, <1>2, <1>3, <1>5, <1>6, LogAfterAppend
<1>11. ASSUME NEW l \in LockId PROVE LogOK(stream'[l], logTail')
  <2>1. CASE l = a
    BY <1>4, <1>8, <1>10, <2>1
  <2>2. CASE l # a
    <3>1. stream'[l] = stream[l] /\ LogOK(stream[l], logTail)
      BY <1>8, <2>2 DEF LockInv
    <3> QED
      BY <1>1, <1>4, <3>1, LogGrows
  <2> QED
    BY <2>1, <2>2
<1>12. ASSUME NEW g \in LockFsmType, NEW l \in LockId, FsmOK(g, stream[l], logTail)
       PROVE  FsmOK(g, stream'[l], logTail')
  <2>1. CASE l = a
    <3>1. FsmOK(g, s, logTail)
      BY <1>12, <2>1 DEF s
    <3>2. FsmOK(g, Append(s, e), logTail + 1)
      BY <1>1, <1>3, <1>5, <3>1, FsmAfterAppend
    <3> QED
      BY <1>4, <1>8, <2>1, <3>2
  <2>2. CASE l # a
    <3>1. stream'[l] = stream[l] /\ g.tailSeqNum \in Nat
      BY <1>8, <2>2 DEF LockFsmType
    <3>2. g.tailSeqNum <= logTail + 1
      BY <1>12 DEF FsmOK
    <3>3. g.tailSeqNum <= logTail' + 1
      BY <1>1, <1>4, <3>1, <3>2
    <3> QED
      BY <1>12, <3>1, <3>3 DEF FsmOK
  <2> QED
    BY <2>1, <2>2
<1>13. ASSUME NEW x \in Process, Alone(x), NEW l \in has[x]
       PROVE  HeldBy(stream'[l], TxnOf[x])
  <2>1. HeldBy(stream[l], TxnOf[x]) /\ l \in LockId /\ TxnOf[x] \in Txn
    BY <1>1, <1>13, TxnOfAssumption DEF LockInv, GrantedIsHeld, TypeOK
  <2>2. CASE l # a
    BY <1>8, <2>1, <2>2
  <2>3. CASE l = a
    <3>1. HeldBy(s, TxnOf[x])
      BY <2>1, <2>3 DEF s
    <3>2. Holder(f) # TxnOf[x]
      <4>1. CASE unlockOp
        <5>1. x # p
          BY <2>3, <4>1 DEF a
        <5> QED
          BY <1>5, <1>6, <1>13, <4>1, <5>1 DEF Alone
      <4>2. CASE ~ unlockOp
        BY <1>5, <1>6, <2>1, <4>2, NoTxnAssumption
      <4> QED
        BY <4>1, <4>2
    <3>3. HeldBy(Append(s, e), TxnOf[x]) <=> HeldBy(s, TxnOf[x])
      BY <1>1, <1>3, <1>5, <2>1, <3>1, <3>2, AppendEffect
    <3> QED
      BY <1>8, <2>1, <2>3, <3>1, <3>3
  <2> QED
    BY <2>2, <2>3
<1> QED
  BY <1>1, <1>4, <1>9, <1>11, <1>12, <1>13

\* The unconditional append of Lock keeps the invariant, won or lost.
LEMMA AppendLockStep ==
  ASSUME LockInv, NEW p \in Process, AppendLock(p)
  PROVE  LockInv'
<1>1. TypeOK /\ ProcOK(p) /\ pc[p] = "append" /\ Holder(fsm[p]) = NoTxn
  BY DEF LockInv, ProcOK, AppendLock
<1>2. AppendEntry(p, FALSE)
  BY DEF AppendLock
<1>3. /\ logTail' \in Nat
      /\ stream' \in [LockId -> Seq(LockLogEntry)]
      /\ \A l \in LockId : LogOK(stream'[l], logTail')
      /\ \A f \in LockFsmType, l \in LockId :
           FsmOK(f, stream[l], logTail) => FsmOK(f, stream'[l], logTail')
      /\ \A x \in Process : Alone(x) =>
           \A l \in has[x] : HeldBy(stream'[l], TxnOf[x])
  BY <1>1, <1>2, AppendKeeps
<1>4. /\ UNCHANGED <<lockFsms, arg, fsm, cursor, has>>
      /\ pc' = [pc EXCEPT ![p] = "confirm"]
      /\ mine' = [mine EXCEPT ![p] = logTail + 1]
  BY DEF AppendLock
<1>5. TypeOK'
  BY <1>1, <1>3, <1>4 DEF TypeOK
<1>6. ASSUME NEW x \in Process PROVE ProcOK(x)'
  <2>1. ProcOK(x) /\ fsm[x] \in LockFsmType /\ arg[x] \in LockId
    BY DEF LockInv, TypeOK, LockFsmType
  <2>2. FsmOK(fsm'[x], stream'[arg'[x]], logTail')
    BY <1>3, <1>4, <2>1 DEF ProcOK
  <2>3. x # p => pc'[x] = pc[x]
    BY <1>1, <1>4 DEF TypeOK
  <2>4. pc'[p] = "confirm"
    BY <1>1, <1>4 DEF TypeOK
  <2> QED
    BY <1>4, <2>1, <2>2, <2>3, <2>4 DEF ProcOK
<1>7. \A n \in Node, l \in LockId : FsmOK(lockFsms'[n][l], stream'[l], logTail')
  <2>1. \A n \in Node, l \in LockId :
          lockFsms[n][l] \in LockFsmType /\ FsmOK(lockFsms[n][l], stream[l], logTail)
    <3>1. lockFsms \in [Node -> [LockId -> LockFsmType]]
      BY <1>1 DEF TypeOK, LockFsmType
    <3> QED
      BY <3>1 DEF LockInv
  <2> QED
    BY <1>3, <1>4, <2>1
<1>8. GrantedIsHeld'
  BY <1>3, <1>4 DEF GrantedIsHeld, Alone
<1> QED
  BY <1>3, <1>5, <1>6, <1>7, <1>8 DEF LockInv

\* The unconditional append of Unlock keeps the invariant, won or lost.
LEMMA AppendUnlockStep ==
  ASSUME LockInv, NEW p \in Process, AppendUnlock(p)
  PROVE  LockInv'
<1>1. /\ TypeOK /\ ProcOK(p) /\ pc[p] = "release"
      /\ Holder(fsm[p]) = TxnOf[p] /\ arg[p] \notin has[p]
  BY DEF LockInv, ProcOK, AppendUnlock
<1>2. AppendEntry(p, TRUE) /\ StoreBack(p)
  BY DEF AppendUnlock, Return
<1>3. /\ logTail' \in Nat
      /\ stream' \in [LockId -> Seq(LockLogEntry)]
      /\ \A l \in LockId : LogOK(stream'[l], logTail')
      /\ \A f \in LockFsmType, l \in LockId :
           FsmOK(f, stream[l], logTail) => FsmOK(f, stream'[l], logTail')
      /\ \A x \in Process : Alone(x) =>
           \A l \in has[x] : HeldBy(stream'[l], TxnOf[x])
  BY <1>1, <1>2, AppendKeeps
<1>4. /\ UNCHANGED <<arg, has>>
      /\ pc' = [pc EXCEPT ![p] = "idle"]
      /\ fsm' = [fsm EXCEPT ![p] = NewLockFsm]
      /\ mine' = [mine EXCEPT ![p] = 0]
      /\ cursor' = [cursor EXCEPT ![p] = logTail + 1]
  BY DEF AppendUnlock, Return
<1>5. /\ lockFsms' \in [Node -> [LockId -> LockFsmType]]
      /\ \A n \in Node, l \in LockId :
           \/ lockFsms'[n][l] = lockFsms[n][l]
           \/ l = arg[p] /\ lockFsms'[n][l] = fsm[p]
  BY <1>1, <1>2, StoreBackFacts
<1>6. NewLockFsm \in LockFsmType
  BY DEF NewLockFsm, NilTail, LockFsmType, LockLogEntry
<1>7. TypeOK'
  <2>1. fsm' \in [Process -> LockFsmType]
    BY <1>1, <1>4, <1>6 DEF TypeOK, LockFsmType
  <2>2. /\ pc' \in [Process -> {"idle", "lock", "append", "confirm", "unlock", "release", "panic"}]
        /\ mine' \in [Process -> Nat] /\ cursor' \in [Process -> Nat]
    BY <1>1, <1>4 DEF TypeOK
  <2> QED
    BY <1>1, <1>3, <1>4, <1>5, <2>1, <2>2 DEF TypeOK, LockFsmType
<1>8. ASSUME NEW x \in Process PROVE ProcOK(x)'
  <2>1. ProcOK(x) /\ fsm[x] \in LockFsmType /\ arg[x] \in LockId
    BY DEF LockInv, TypeOK, LockFsmType
  <2>2. CASE x = p
    <3>1. stream'[arg[p]] \in Seq(LockLogEntry) /\ LogOK(stream'[arg[p]], logTail')
      BY <1>3, <2>1, <2>2
    <3>2. FsmOK(NewLockFsm, stream'[arg[p]], logTail')
      BY <1>3, <3>1, NewFsmOK
    <3>3. fsm'[p] = NewLockFsm /\ pc'[p] = "idle"
      BY <1>1, <1>4 DEF TypeOK
    <3> QED
      BY <1>4, <2>2, <3>2, <3>3 DEF ProcOK
  <2>3. CASE x # p
    <3>1. fsm'[x] = fsm[x] /\ pc'[x] = pc[x]
      BY <1>1, <1>4, <2>3 DEF TypeOK
    <3>2. FsmOK(fsm'[x], stream'[arg'[x]], logTail')
      BY <1>3, <1>4, <2>1, <3>1 DEF ProcOK
    <3> QED
      BY <1>4, <2>1, <3>1, <3>2 DEF ProcOK
  <2> QED
    BY <2>2, <2>3
<1>9. \A n \in Node, l \in LockId : FsmOK(lockFsms'[n][l], stream'[l], logTail')
  <2>1. \A n \in Node, l \in LockId :
          lockFsms[n][l] \in LockFsmType /\ FsmOK(lockFsms[n][l], stream[l], logTail)
    <3>1. lockFsms \in [Node -> [LockId -> LockFsmType]]
      BY <1>1 DEF TypeOK, LockFsmType
    <3> QED
      BY <3>1 DEF LockInv
  <2>2. fsm[p] \in LockFsmType /\ FsmOK(fsm[p], stream[arg[p]], logTail)
    BY <1>1 DEF ProcOK, TypeOK, LockFsmType
  <2> QED
    BY <1>3, <1>5, <2>1, <2>2
<1>10. GrantedIsHeld'
  BY <1>3, <1>4 DEF GrantedIsHeld, Alone
<1> QED
  BY <1>3, <1>7, <1>8, <1>9, <1>10 DEF LockInv

(***************************************************************************)
(* A node that dies takes its cache and its processes' locks with it.      *)
(***************************************************************************)
LEMMA CrashStep ==
  ASSUME LockInv, NEW n \in Node, Crash(n)
  PROVE  LockInv'
<1>1. TypeOK
  BY DEF LockInv
<1>2. UNCHANGED <<logTail, stream, arg>>
  BY DEF Crash
<1>3. NewLockFsm \in LockFsmType
  BY DEF NewLockFsm, NilTail, LockFsmType, LockLogEntry
<1>4. \A l \in LockId : LogOK(stream[l], logTail) /\ FsmOK(NewLockFsm, stream[l], logTail)
  BY <1>1, NewFsmOK DEF LockInv, TypeOK
<1>5. /\ lockFsms' = [lockFsms EXCEPT ![n] = [l \in LockId |-> NewLockFsm]]
      /\ pc' = [p \in Process |-> IF NodeOf[p] = n THEN "idle" ELSE pc[p]]
      /\ has' = [p \in Process |-> IF NodeOf[p] = n THEN {} ELSE has[p]]
      /\ cursor' = [p \in Process |-> IF NodeOf[p] = n THEN 0 ELSE cursor[p]]
      /\ fsm' = [p \in Process |-> IF NodeOf[p] = n THEN NewLockFsm ELSE fsm[p]]
      /\ mine' = [p \in Process |-> IF NodeOf[p] = n THEN 0 ELSE mine[p]]
  BY DEF Crash
<1>6. TypeOK'
  <2>1. lockFsms' \in [Node -> [LockId -> LockFsmType]]
    BY <1>1, <1>3, <1>5 DEF TypeOK, LockFsmType
  <2>2. fsm' \in [Process -> LockFsmType]
    BY <1>1, <1>3, <1>5 DEF TypeOK, LockFsmType
  <2>3. /\ pc' \in [Process -> {"idle", "lock", "append", "confirm", "unlock", "release", "panic"}]
        /\ mine' \in [Process -> Nat] /\ cursor' \in [Process -> Nat]
        /\ has' \in [Process -> SUBSET LockId]
    BY <1>1, <1>5 DEF TypeOK
  <2> QED
    BY <1>1, <1>2, <2>1, <2>2, <2>3 DEF TypeOK, LockFsmType
<1>7. \A m \in Node, l \in LockId : FsmOK(lockFsms'[m][l], stream[l], logTail)
  <2>1. \A m \in Node, l \in LockId :
          lockFsms'[m][l] = lockFsms[m][l] \/ lockFsms'[m][l] = NewLockFsm
    BY <1>1, <1>5 DEF TypeOK
  <2> QED
    BY <1>4, <2>1 DEF LockInv
<1>8. ASSUME NEW p \in Process PROVE ProcOK(p)'
  <2>1. ProcOK(p) /\ arg[p] \in LockId
    BY <1>1 DEF LockInv, TypeOK
  <2>2. CASE NodeOf[p] = n
    <3>1. fsm'[p] = NewLockFsm /\ pc'[p] = "idle"
      BY <1>5, <2>2
    <3> QED
      BY <1>2, <1>4, <2>1, <3>1 DEF ProcOK
  <2>3. CASE NodeOf[p] # n
    <3>1. fsm'[p] = fsm[p] /\ pc'[p] = pc[p] /\ has'[p] = has[p]
      BY <1>5, <2>3
    <3> QED
      BY <1>2, <2>1, <3>1 DEF ProcOK
  <2> QED
    BY <2>2, <2>3
<1>9. GrantedIsHeld'
  <2>1. \A p \in Process : has'[p] \subseteq has[p]
    BY <1>5
  <2> QED
    BY <1>2, <2>1 DEF LockInv, GrantedIsHeld, Alone
<1> QED
  BY <1>2, <1>4, <1>6, <1>7, <1>8, <1>9 DEF LockInv

\* The invariant is inductive: every step keeps it.
LEMMA NextLockInv == LockInv /\ [Next]_vars => LockInv'
<1> SUFFICES ASSUME LockInv, [Next]_vars PROVE LockInv'
  OBVIOUS
<1>1. ASSUME NEW p \in Process, Step(p) PROVE LockInv'
  BY <1>1, EnterStep, CatchNextStep, DecideStep, ReturnStep, AppendLockStep,
     AppendUnlockStep DEF Step
<1>2. ASSUME NEW n \in Node, Crash(n) PROVE LockInv'
  BY <1>2, CrashStep
<1>3. CASE UNCHANGED vars
  BY <1>3 DEF vars, LockInv, TypeOK, ProcOK, GrantedIsHeld, Alone
<1> QED
  BY <1>1, <1>2, <1>3 DEF Next

(***************************************************************************)
(* The invariant of the lock log holds in every reachable state.           *)
(***************************************************************************)
THEOREM LockInvHolds == Spec => []LockInv
<1> QED
  BY InitLockInv, NextLockInv, PTL DEF Spec

(***************************************************************************)
(* catch never reaches its "Invalid Lock op" or "Invalid Unlock op" panic. *)
(***************************************************************************)
THEOREM CatchNeverPanics == Spec => []NoInvalidOp
<1>1. LockInv => NoInvalidOp
  BY DEF LockInv, ProcOK, NoInvalidOp
<1> QED
  BY <1>1, LockInvHolds, PTL

(***************************************************************************)
(* A lock granted to a process that alone carries its transaction is held  *)
(* by that transaction until the process unlocks it.                       *)
(***************************************************************************)
THEOREM GrantsAreHeld == Spec => []GrantedIsHeld
<1>1. LockInv => GrantedIsHeld
  BY DEF LockInv
<1> QED
  BY <1>1, LockInvHolds, PTL

(***************************************************************************)
(* Replicas of a lock that applied equally many operations are equal.      *)
(***************************************************************************)
THEOREM ReplicasOfALockAgree == Spec => []ReplicasAgree
<1>1. LockInv => ReplicasAgree
  <2> SUFFICES ASSUME LockInv, NEW l \in LockId,
                      NEW f \in Replicas(l), NEW g \in Replicas(l),
                      f.stepNumber = g.stepNumber
               PROVE  f.tail = g.tail
    BY DEF ReplicasAgree
  <2> DEFINE s == stream[l]
  <2>1. s \in Seq(LockLogEntry) /\ lockFsms \in [Node -> [LockId -> LockFsmType]]
        /\ fsm \in [Process -> LockFsmType]
    BY DEF LockInv, TypeOK, LockFsmType
  <2>2. \A h \in Replicas(l) : h \in LockFsmType /\ FsmOK(h, s, logTail)
    BY <2>1 DEF LockInv, ProcOK, Replicas
  <2>3. f.stepNumber \in Nat
    BY <2>2 DEF LockFsmType
  <2>4. FsmOK(f, s, logTail) /\ FsmOK(g, s, logTail)
    BY <2>2
  <2> HIDE DEF s
  <2>5. CASE f.stepNumber = 0
    BY <2>4, <2>5 DEF FsmOK
  <2>6. CASE f.stepNumber > 0
    <3>1. PICK i \in 1 .. Len(s) : First(s, i) /\ s[i].step + 1 = f.stepNumber /\ f.tail = s[i]
      BY <2>4, <2>6 DEF FsmOK
    <3>2. PICK j \in 1 .. Len(s) : First(s, j) /\ s[j].step + 1 = f.stepNumber /\ g.tail = s[j]
      BY <2>4, <2>6 DEF FsmOK
    <3>3. s[i] \in LockLogEntry /\ s[j] \in LockLogEntry
      BY <2>1
    <3>4. s[i].step \in Nat /\ s[j].step \in Nat
      BY <3>3 DEF LockLogEntry
    <3>5. s[i].step = s[j].step
      BY <3>1, <3>2, <3>4
    <3>6. i = j
      BY <2>1, <3>1, <3>2, <3>5, FirstUnique
    <3> QED
      BY <3>1, <3>2, <3>6
  <2> QED
    BY <2>3, <2>5, <2>6
<1> QED
  BY <1>1, LockInvHolds, PTL

(***************************************************************************)
(* The owner of a lock is the transaction its stream says holds it.        *)
(***************************************************************************)
LEMMA OwnerIs ==
  ASSUME NEW s \in Seq(LockLogEntry)
  PROVE  /\ Owner(s) \in Txn \cup {NoTxn}
         /\ \A u \in Txn : Owner(s) = u <=> HeldBy(s, u)
<1>1. ASSUME NEW t \in Txn, NEW u \in Txn, HeldBy(s, t), HeldBy(s, u) PROVE t = u
  <2>1. PICK j \in 1 .. Len(s) : Latest(s, j) /\ s[j].holder = t
    BY <1>1 DEF HeldBy
  <2>2. PICK k \in 1 .. Len(s) : Latest(s, k) /\ s[k].holder = u
    BY <1>1 DEF HeldBy
  <2>3. s[j] \in LockLogEntry /\ s[k] \in LockLogEntry
    OBVIOUS
  <2>4. s[j].step \in Nat /\ s[k].step \in Nat
    BY <2>3 DEF LockLogEntry
  <2>5. s[j].step = s[k].step
    BY <2>1, <2>2, <2>4 DEF Latest
  <2>6. j = k
    BY <2>1, <2>2, <2>5, FirstUnique DEF Latest
  <2> QED
    BY <2>1, <2>2, <2>6
<1>2. CASE \E t \in Txn : HeldBy(s, t)
  <2>1. Owner(s) \in Txn /\ HeldBy(s, Owner(s))
    BY <1>2 DEF Owner
  <2> QED
    BY <1>1, <2>1
<1>3. CASE ~ \E t \in Txn : HeldBy(s, t)
  BY <1>3, NoTxnAssumption DEF Owner
<1> QED
  BY <1>2, <1>3

\* Empty streams are locks without owner.
LEMMA RefineInit == Init => Service!Init
<1> SUFFICES ASSUME Init PROVE Service!Init
  OBVIOUS
<1>1. ASSUME NEW l \in LockId PROVE Owner(stream[l]) = NoTxn
  <2>1. stream[l] = <<>>
    BY DEF Init
  <2>2. \A k \in 1 .. Len(stream[l]) : FALSE
    BY <2>1
  <2> QED
    BY <2>2 DEF Owner, HeldBy
<1> QED
  BY <1>1 DEF Init, Service!Init

(***************************************************************************)
(* An append acquires, releases, or leaves every owner as it was.          *)
(***************************************************************************)
LEMMA RefineAppend ==
  ASSUME LockInv, LockInv', NEW p \in Process, NEW unlockOp \in BOOLEAN,
         AppendEntry(p, unlockOp), has' = has,
         Holder(fsm[p]) = IF unlockOp THEN TxnOf[p] ELSE NoTxn
  PROVE  [Service!Next]_(Service!vars)
<1> DEFINE a == arg[p]
           s == stream[a]
           f == fsm[p]
           e == [seqNum |-> logTail + 1, step |-> f.stepNumber,
                 unlockOp |-> unlockOp, holder |-> TxnOf[p]]
           owns == [l \in LockId |-> Owner(stream[l])]
<1>1. /\ a \in LockId /\ s \in Seq(LockLogEntry) /\ logTail \in Nat
      /\ f \in LockFsmType /\ LogOK(s, logTail) /\ FsmOK(f, s, logTail)
      /\ stream \in [LockId -> Seq(LockLogEntry)]
      /\ TxnOf[p] \in Txn
  BY TxnOfAssumption DEF LockInv, TypeOK, ProcOK, LockFsmType
<1>2. e \in LockLogEntry
  BY <1>1 DEF LockFsmType, LockLogEntry
<1>3. e.step = f.stepNumber /\ e.holder = TxnOf[p] /\ e.unlockOp = unlockOp
  OBVIOUS
<1>4. stream' = [stream EXCEPT ![a] = Append(s, e)]
  BY DEF AppendEntry
<1>5. Append(s, e) \in Seq(LockLogEntry)
  BY <1>1, <1>2
<1> HIDE DEF e, f, s, a
<1>6. owns' = [owns EXCEPT ![a] = Owner(Append(s, e))]
  BY <1>1, <1>4
<1>7. owns[a] = Owner(s)
  BY <1>1 DEF s
<1>8. CASE \A u \in Txn : HeldBy(Append(s, e), u) <=> HeldBy(s, u)
  <2>1. Owner(Append(s, e)) = Owner(s)
    BY <1>1, <1>5, <1>8, OwnerIs
  <2>2. owns' = owns
    BY <1>1, <1>6, <1>7, <2>1
  <2> QED
    BY <2>2 DEF Service!vars
<1>9. CASE /\ \A u \in Txn : HeldBy(s, u) <=> Holder(f) = u
           /\ \A u \in Txn : HeldBy(Append(s, e), u) <=> ~ e.unlockOp /\ e.holder = u
  <2>1. CASE unlockOp
    <3>1. Owner(s) = TxnOf[p]
      BY <1>1, <1>9, <2>1, OwnerIs DEF f
    <3>2. Owner(Append(s, e)) = NoTxn
      BY <1>3, <1>5, <1>9, <2>1, OwnerIs
    <3>3. Service!Release(a, TxnOf[p])
      BY <1>1, <1>6, <1>7, <3>1, <3>2 DEF Service!Release
    <3> QED
      BY <1>1, <3>3 DEF Service!Next
  <2>2. CASE ~ unlockOp
    <3>1. Owner(s) = NoTxn
      BY <1>1, <1>9, <2>2, NoTxnAssumption, OwnerIs DEF f
    <3>2. Owner(Append(s, e)) = TxnOf[p]
      BY <1>1, <1>3, <1>5, <1>9, <2>2, OwnerIs
    <3>3. Service!Acquire(a, TxnOf[p])
      BY <1>1, <1>6, <1>7, <3>1, <3>2 DEF Service!Acquire
    <3> QED
      BY <1>1, <3>3 DEF Service!Next
  <2> QED
    BY <2>1, <2>2
<1> QED
  BY <1>1, <1>2, <1>3, <1>8, <1>9, AppendEffect

(***************************************************************************)
(* Locks that are given up: an Unlock starts, or a node dies.              *)
(***************************************************************************)
LEMMA RefineForget ==
  ASSUME has \in [Process -> SUBSET LockId], has' \in [Process -> SUBSET LockId],
         stream' = stream, \A p \in Process : has'[p] \subseteq has[p]
  PROVE  [Service!Next]_(Service!vars)
<1>1. has' = [p \in Process |-> has'[p]]
  OBVIOUS
<1>2. [l \in LockId |-> Owner(stream[l])]' = [l \in LockId |-> Owner(stream[l])]
  OBVIOUS
<1>3. Service!Forget
  BY <1>1, <1>2 DEF Service!Forget
<1> QED
  BY <1>3 DEF Service!Next

\* A call that returns is a grant of the service, or changes nothing there.
LEMMA RefineReturn ==
  ASSUME LockInv, NEW p \in Process, LockTaken(p) \/ Confirm(p) \/ UnlockForeign(p)
  PROVE  [Service!Next]_(Service!vars)
<1>1. PICK granted \in BOOLEAN :
        Return(p, granted) /\ (granted => Holder(fsm[p]) = TxnOf[p])
  BY DEF LockTaken, Confirm, UnlockForeign
<1>2. stream' = stream /\ CaughtUp(fsm[p], stream[arg[p]])
  BY DEF LockTaken, Confirm, UnlockForeign, Caught
<1>3. arg[p] \in LockId /\ stream[arg[p]] \in Seq(LockLogEntry) /\ TxnOf[p] \in Txn
  BY TxnOfAssumption DEF LockInv, TypeOK
<1>4. [l \in LockId |-> Owner(stream[l])]' = [l \in LockId |-> Owner(stream[l])]
  BY <1>2
<1>5. CASE granted
  <2>1. Owner(stream[arg[p]]) = TxnOf[p]
    BY <1>1, <1>2, <1>3, <1>5, CaughtHolder, OwnerIs
  <2>2. Service!Grant(arg[p], p)
    BY <1>1, <1>3, <1>4, <1>5, <2>1 DEF Return, Service!Grant
  <2> QED
    BY <1>3, <2>2 DEF Service!Next
<1>6. CASE ~ granted
  BY <1>1, <1>4, <1>6 DEF Return, Service!vars
<1> QED
  BY <1>5, <1>6

\* Every step of the locks is a step of the lock service or a stutter.
LEMMA RefineNext == LockInv /\ LockInv' /\ [Next]_vars => [Service!Next]_(Service!vars)
<1> SUFFICES ASSUME LockInv, LockInv', [Next]_vars
             PROVE  [Service!Next]_(Service!vars)
  OBVIOUS
<1>0. TypeOK /\ TypeOK'
  BY DEF LockInv
<1>1. ASSUME stream' = stream, has' = has PROVE [Service!Next]_(Service!vars)
  BY <1>1 DEF Service!vars
<1>2. ASSUME NEW p \in Process, NEW l \in LockId, Lock(p, l)
      PROVE  [Service!Next]_(Service!vars)
  BY <1>1, <1>2 DEF Lock, Enter
<1>3. ASSUME NEW p \in Process, NEW l \in LockId, Unlock(p, l)
      PROVE  [Service!Next]_(Service!vars)
  <2>1. stream' = stream /\ \A x \in Process : has'[x] \subseteq has[x]
    BY <1>0, <1>3 DEF Unlock, Enter, TypeOK
  <2> QED
    BY <1>0, <2>1, RefineForget DEF TypeOK
<1>4. ASSUME NEW p \in Process, CatchNext(p) \/ LockFree(p) \/ UnlockOwn(p)
      PROVE  [Service!Next]_(Service!vars)
  BY <1>1, <1>4 DEF CatchNext, LockFree, UnlockOwn
<1>5. ASSUME NEW p \in Process, LockTaken(p) \/ Confirm(p) \/ UnlockForeign(p)
      PROVE  [Service!Next]_(Service!vars)
  BY <1>5, RefineReturn
<1>6. ASSUME NEW p \in Process, AppendLock(p) PROVE [Service!Next]_(Service!vars)
  <2>1. AppendEntry(p, FALSE) /\ has' = has /\ Holder(fsm[p]) = NoTxn
    BY <1>6 DEF AppendLock, LockInv, ProcOK
  <2> QED
    BY <2>1, RefineAppend
<1>7. ASSUME NEW p \in Process, AppendUnlock(p) PROVE [Service!Next]_(Service!vars)
  <2>1. AppendEntry(p, TRUE) /\ has' = has /\ Holder(fsm[p]) = TxnOf[p]
    BY <1>7 DEF AppendUnlock, Return, LockInv, ProcOK
  <2> QED
    BY <2>1, RefineAppend
<1>8. ASSUME NEW n \in Node, Crash(n) PROVE [Service!Next]_(Service!vars)
  <2>1. stream' = stream /\ \A p \in Process : has'[p] \subseteq has[p]
    BY <1>8 DEF Crash
  <2> QED
    BY <1>0, <2>1, RefineForget DEF TypeOK
<1>9. CASE UNCHANGED vars
  BY <1>1, <1>9 DEF vars
<1> QED
  BY <1>2, <1>3, <1>4, <1>5, <1>6, <1>7, <1>8, <1>9 DEF Next, Step

(***************************************************************************)
(* The locks that live in the log implement the lock service.              *)
(***************************************************************************)
THEOREM ImplementsService == Spec => ImplementsLockService
<1>1. Init => Service!Init
  BY RefineInit
<1>2. LockInv /\ LockInv' /\ [Next]_vars => [Service!Next]_(Service!vars)
  BY RefineNext
<1> QED
  BY <1>1, <1>2, LockInvHolds, PTL DEF Spec, ImplementsLockService, Service!Spec

-----------------------------------------------------------------------------
(***************************************************************************)
(* Transactions.                                                           *)
(***************************************************************************)
FrontState ==
  [pc : {"idle", "reserve", "exit", "commit", "abort", "placed", "failed"},
   at : Nat \ {0}, instruction : {"", "EXECUTE", "COMMIT", "ABORT", "EXIT"}, lost : BOOLEAN]

Asking == {"lock", "read", "write", "reply"}
Finishing == {"next", "apply", "applied", "unlock", "reply"}
JobState ==
  [at : {"none", "return"} \cup Asking \cup Finishing,
   ok : BOOLEAN, val : SUBSET TxnId, k : Nat \ {0}]

TxnTypeOK ==
  /\ front \in [TxnId -> FrontState]
  /\ job \in [TxnId -> JobState]
  /\ \A t \in TxnId : \E m \in 0 .. Len(Participants) : reserved[t] \in [1 .. m -> BOOLEAN]
  /\ DOMAIN reserved = TxnId
  /\ ended \in [TxnId -> SUBSET Nat]
  /\ applied \in [TxnId -> [1 .. MaxCalls -> Nat]]
  /\ callees \in [TxnId -> Seq(Lambda)]
  /\ writes \in [TxnId -> [Lambda -> Seq(SUBSET TxnId)]]
  /\ owner \in [Lambda -> TxnId \cup {Nobody}]
  /\ table \in [Lambda -> SUBSET TxnId]
  /\ faults \in 0 .. MaxFaults

Refused(t) == \E n \in DOMAIN reserved[t] : ~ reserved[t][n]
Decided(t) == AllAgreed(t) \/ Refused(t)
Called(t, l) == \E n \in 1 .. Len(callees[t]) : callees[t][n] = l
Released(t, l) == writes[t][l] # <<>> => owner[l] # t

(***************************************************************************)
(* A value is based on committed transactions only, and a write on them    *)
(* and its own transaction.                                                *)
(***************************************************************************)
Based(v, t) == t \in v /\ \A u \in v : u = t \/ AllAgreed(u)

TablesOK == \A l \in Lambda : \A u \in table[l] : AllAgreed(u)

(***************************************************************************)
(* The logs of a transaction: who agreed has logged a write, who logged a  *)
(* write was called, and there is room for the results of all calls.       *)
(***************************************************************************)
AgreedWrites(t) ==
  \A n \in DOMAIN reserved[t] : reserved[t][n] => writes[t][Participants[n]] # <<>>

WritersCalled(t) == \A l \in Lambda : writes[t][l] # <<>> => Called(t, l)

WritesBased(t) ==
  \A l \in Lambda : \A k \in 1 .. Len(writes[t][l]) : Based(writes[t][l][k], t)

Asks(t) == front[t].pc = "reserve" /\ job[t].at \in Asking

RoomForCalls(t) ==
  \A m \in Nat : DOMAIN reserved[t] = 1 .. m =>
    Len(callees[t]) <= m + faults + (IF Asks(t) THEN 1 ELSE 0)

\* A call of the second phase that is over: all is applied, and unlocked.
IsOver(t, n) ==
  /\ Released(t, callees[t][n])
  /\ AllAgreed(t) => applied[t][n] = Len(writes[t][callees[t][n]])

EndedOver(t) ==
  \A n \in ended[t] : Decided(t) /\ n \in 1 .. Len(callees[t]) /\ IsOver(t, n)

\* What a participant has logged of its writes is in its log.
AppliedFits(t) ==
  \A n \in 1 .. MaxCalls : applied[t][n] > 0 =>
    n <= Len(callees[t]) /\ applied[t][n] <= Len(writes[t][callees[t][n]])

LogsOK(t) ==
  /\ AgreedWrites(t) /\ WritersCalled(t) /\ WritesBased(t)
  /\ RoomForCalls(t) /\ EndedOver(t) /\ AppliedFits(t)

(***************************************************************************)
(* The first phase: the frontend is behind participants that agreed, and   *)
(* the one that it calls now has not answered before.                      *)
(***************************************************************************)
ReserveOK(t) ==
  front[t].pc = "reserve" =>
    /\ front[t].at <= Len(Participants)
    /\ \A n \in 1 .. front[t].at - 1 : n \in DOMAIN reserved[t] /\ reserved[t][n]
    /\ job[t].at \in {"none", "return"} \cup Asking
    /\ job[t].at \in Asking => front[t].at \notin DOMAIN reserved[t] /\ Called(t, Here(t))
    /\ job[t].at \in {"read", "write"} => owner[Here(t)] = t
    /\ job[t].at = "reply" /\ job[t].ok => writes[t][Here(t)] # <<>>
    /\ job[t].at = "return" =>
         front[t].at \in DOMAIN reserved[t] /\ reserved[t][front[t].at] = job[t].ok

(***************************************************************************)
(* The second phase: it was decided for good, and what the participant     *)
(* that is called now has applied and unlocked follows from where it is.   *)
(***************************************************************************)
OutcomeOK(t) ==
  /\ front[t].pc \in {"commit", "placed"} => AllAgreed(t)
  /\ front[t].pc \in {"abort", "failed"} => Refused(t)
  /\ front[t].instruction = "EXIT" => front[t].lost
  /\ front[t].pc \in Ending /\ ~ front[t].lost =>
       \A n \in 1 .. front[t].at - 1 : n \in ended[t]
  /\ Finished(t) /\ ~ front[t].lost => \A n \in 1 .. Len(callees[t]) : n \in ended[t]
  /\ front[t].pc \notin {"reserve"} \cup Ending => job[t].at = "none"
  /\ job[t].at = "none" => job[t].k = 1

CallOK(t) ==
  LET own == Len(OwnWrites(t))
      k == job[t].k
  IN  /\ job[t].at \in {"return"} \cup Finishing
      /\ front[t].at <= Len(callees[t])
      /\ k > 1 => owner[Peer(t)] # t
      /\ k <= own + 1
      /\ front[t].pc = "commit" => k <= Done(t) + 1
      /\ job[t].at \in {"apply", "applied"} => front[t].pc = "commit" /\ Done(t) = k - 1
      /\ job[t].at \in {"apply", "applied", "unlock"} => k <= own
      /\ job[t].at = "unlock" /\ front[t].pc = "commit" => k <= Done(t)
      /\ job[t].at = "reply" => k = own + 1
      /\ job[t].at = "return" => front[t].at \in ended[t]

EndOK(t) == OutcomeOK(t) /\ (front[t].pc \in Ending /\ job[t].at # "none" => CallOK(t))

(***************************************************************************)
(* A lock is held from the read to the first application of the write, so  *)
(* that the write is based on what is there: unless it is the write of a   *)
(* transaction that logged twice.                                          *)
(***************************************************************************)
Covers(v, l) == table[l] \subseteq v \/ \E u \in table[l] : LoggedTwice(u, l)

Unapplied(t, l) ==
  \A n \in 1 .. Len(callees[t]) : callees[t][n] = l => applied[t][n] = 0

Holds(t, l) ==
  /\ writes[t][l] # <<>> /\ ~ LoggedTwice(t, l) /\ ~ Refused(t) /\ Unapplied(t, l)
  => owner[l] = t /\ Covers(writes[t][l][1], l)

HoldsOK(t) ==
  /\ front[t].pc = "reserve" /\ job[t].at = "write" =>
       Based(job[t].val, t) /\ Covers(job[t].val, Here(t))
  /\ \A l \in Lambda : Holds(t, l)

TxnOK(t) == LogsOK(t) /\ ReserveOK(t) /\ EndOK(t) /\ HoldsOK(t)

TxnInv == TxnTypeOK /\ TablesOK /\ \A t \in TxnId : TxnOK(t)

-----------------------------------------------------------------------------
(***************************************************************************)
(* A step of a transaction leaves the others as they are: it frees and     *)
(* takes only its own locks, decisions and log entries stay, and a value   *)
(* that it writes under a lock of somebody else has been logged twice.     *)
(***************************************************************************)
SameTxn(u) ==
  /\ front'[u] = front[u] /\ job'[u] = job[u]
  /\ reserved'[u] = reserved[u] /\ ended'[u] = ended[u] /\ applied'[u] = applied[u]
  /\ callees'[u] = callees[u] /\ writes'[u] = writes[u]

StepOf(t) ==
  /\ \A u \in TxnId : u # t => SameTxn(u)
  /\ faults \in Nat /\ faults' \in Nat /\ faults <= faults'
  /\ AllAgreed(t) => AllAgreed(t)'
  /\ \A l \in Lambda : LoggedTwice(t, l) => LoggedTwice(t, l)'
  /\ \A l \in Lambda : owner'[l] = owner[l] \/ {owner[l], owner'[l]} \subseteq {t, Nobody}
  /\ \A l \in Lambda : \/ table'[l] = table[l]
                       \/ owner[l] = t
                       \/ \E w \in table'[l] : LoggedTwice(w, l)'

LEMMA ParticipantsAreLambda ==
  /\ Len(Participants) \in Nat
  /\ \A n \in Nat \ {0} : n <= Len(Participants) => Participants[n] \in Lambda
BY ParticipantsAssumption DEF Lambda

LEMMA StaysTrue ==
  ASSUME NEW t \in TxnId, StepOf(t), NEW u \in TxnId
  PROVE  /\ AllAgreed(u) => AllAgreed(u)'
         /\ \A l \in Lambda : LoggedTwice(u, l) => LoggedTwice(u, l)'
<1>1. CASE u = t
  BY <1>1 DEF StepOf
<1>2. CASE u # t
  BY <1>2 DEF StepOf, SameTxn, AllAgreed, LoggedTwice
<1> QED
  BY <1>1, <1>2

LEMMA BasedStays ==
  ASSUME NEW t \in TxnId, StepOf(t), NEW u \in TxnId, NEW v \in SUBSET TxnId, Based(v, u)
  PROVE  \A w \in v : w = u \/ AllAgreed(w)'
BY StaysTrue DEF Based

\* What is known of a transaction stays true while another makes a step.
LEMMA OthersKeep ==
  ASSUME TxnTypeOK, NEW t \in TxnId, StepOf(t), NEW u \in TxnId, u # t, TxnOK(u)
  PROVE  TxnOK(u)'
<1>1. SameTxn(u)
  BY DEF StepOf
<1>2. callees[u] \in Seq(Lambda) /\ front[u] \in FrontState /\ job[u] \in JobState
      /\ writes[u] \in [Lambda -> Seq(SUBSET TxnId)]
  BY DEF TxnTypeOK
<1>3. \A n \in 1 .. Len(callees[u]) : callees[u][n] \in Lambda
  BY <1>2
<1>4. /\ AllAgreed(u)' = AllAgreed(u) /\ Refused(u)' = Refused(u) /\ Decided(u)' = Decided(u)
      /\ Finished(u)' = Finished(u)
      /\ \A l : Called(u, l)' = Called(u, l)
      /\ \A l : LoggedTwice(u, l)' = LoggedTwice(u, l)
      /\ \A l : Unapplied(u, l)' = Unapplied(u, l)
  BY <1>1 DEF SameTxn, AllAgreed, Refused, Decided, Finished, Called, LoggedTwice, Unapplied
<1>5. \A l \in Lambda : owner'[l] = u <=> owner[l] = u
  BY NobodyAssumption DEF StepOf
<1>6. ASSUME NEW v \in SUBSET TxnId, NEW l \in Lambda, owner[l] = u, Covers(v, l)
      PROVE  table'[l] \subseteq v \/ \E w \in table'[l] : LoggedTwice(w, l)'
  <2>1. CASE table'[l] = table[l]
    <3>1. \A w \in table[l] : w \in TxnId
      BY DEF TxnTypeOK
    <3> QED
      BY <1>6, <2>1, <3>1, StaysTrue DEF Covers
  <2>2. CASE table'[l] # table[l]
    BY <1>6, <2>2 DEF StepOf
  <2> QED
    BY <2>1, <2>2
<1>7. LogsOK(u)'
  <2>1. AgreedWrites(u)' /\ WritersCalled(u)'
    BY <1>1, <1>4 DEF TxnOK, LogsOK, AgreedWrites, WritersCalled, SameTxn
  <2>2. WritesBased(u)'
    <3> SUFFICES ASSUME NEW l \in Lambda, NEW k \in 1 .. Len(writes[u][l])
                 PROVE  Based(writes[u][l][k], u)'
      BY <1>1 DEF WritesBased, SameTxn
    <3>1. Based(writes[u][l][k], u) /\ writes[u][l][k] \in SUBSET TxnId
      BY <1>2 DEF TxnOK, LogsOK, WritesBased
    <3> QED
      BY <1>1, <3>1, BasedStays DEF SameTxn, Based
  <2>3. RoomForCalls(u)'
    <3>1. Len(callees[u]) \in Nat /\ faults \in Nat /\ faults' \in Nat /\ faults <= faults'
      BY <1>2 DEF StepOf
    <3>2. Asks(u)' = Asks(u)
      BY <1>1 DEF Asks, SameTxn
    <3>3. RoomForCalls(u)
      BY DEF TxnOK, LogsOK
    <3> QED
      BY <1>1, <3>1, <3>2, <3>3 DEF RoomForCalls, SameTxn
  <2>4. EndedOver(u)'
    <3> SUFFICES ASSUME NEW n \in ended[u]
                 PROVE  Decided(u)' /\ n \in 1 .. Len(callees[u]) /\ IsOver(u, n)'
      BY <1>1 DEF EndedOver, SameTxn
    <3>1. Decided(u) /\ n \in 1 .. Len(callees[u]) /\ IsOver(u, n)
      BY DEF TxnOK, LogsOK, EndedOver
    <3> QED
      BY <1>1, <1>3, <1>4, <1>5, <3>1 DEF IsOver, Released, SameTxn
  <2>5. AppliedFits(u)'
    BY <1>1 DEF TxnOK, LogsOK, AppliedFits, SameTxn
  <2> QED
    BY <2>1, <2>2, <2>3, <2>4, <2>5 DEF LogsOK
<1>8. ReserveOK(u)'
  <2>1. front[u].pc = "reserve" => Here(u) \in Lambda
    BY <1>2, ParticipantsAreLambda DEF TxnOK, ReserveOK, Here, FrontState
  <2> QED
    BY <1>1, <1>4, <1>5, <2>1 DEF TxnOK, ReserveOK, Here, SameTxn
<1>9. EndOK(u)'
  <2>1. OutcomeOK(u)'
    BY <1>1, <1>4 DEF TxnOK, EndOK, OutcomeOK, SameTxn
  <2>2. ASSUME CallOK(u) PROVE CallOK(u)'
    <3>1. front[u].at \in Nat \ {0} /\ front[u].at <= Len(callees[u]) /\ Len(callees[u]) \in Nat
      <4>1. front[u].at <= Len(callees[u])
        BY <2>2 DEF CallOK
      <4>2. Len(callees[u]) \in Nat
        BY <1>2
      <4>3. front[u].at \in Nat \ {0}
        BY <1>2 DEF FrontState
      <4> QED
        BY <4>1, <4>2, <4>3
    <3>2. Peer(u) \in Lambda
      BY <1>3, <3>1 DEF Peer
    <3> QED
      BY <1>1, <1>5, <2>2, <3>2 DEF CallOK, Peer, OwnWrites, Done, SameTxn
  <2> QED
    BY <1>1, <2>1, <2>2 DEF TxnOK, EndOK, SameTxn
<1>10. HoldsOK(u)'
  <2>1. ASSUME front[u].pc = "reserve", job[u].at = "write"
        PROVE  (Based(job[u].val, u) /\ Covers(job[u].val, Here(u)))'
    <3>0. Here(u) \in Lambda /\ owner[Here(u)] = u
      BY <1>2, <2>1, ParticipantsAreLambda DEF TxnOK, ReserveOK, Here, FrontState
    <3>1. job[u].val \in SUBSET TxnId /\ Based(job[u].val, u) /\ Covers(job[u].val, Here(u))
      BY <1>2, <2>1 DEF TxnOK, HoldsOK, JobState
    <3>2. Based(job[u].val, u)'
      BY <1>1, <3>1, BasedStays DEF SameTxn, Based
    <3>3. Covers(job[u].val, Here(u))'
      BY <1>1, <1>6, <3>0, <3>1 DEF Covers, SameTxn, Here
    <3> QED
      BY <3>2, <3>3
  <2>2. ASSUME NEW l \in Lambda PROVE Holds(u, l)'
    <3>1. CASE writes[u][l] # <<>> /\ ~ LoggedTwice(u, l) /\ ~ Refused(u) /\ Unapplied(u, l)
      <4>1. owner[l] = u /\ Covers(writes[u][l][1], l)
        BY <3>1 DEF TxnOK, HoldsOK, Holds
      <4>2. writes[u][l][1] \in SUBSET TxnId
        BY <1>2, <3>1
      <4>3. table'[l] \subseteq writes[u][l][1] \/ \E w \in table'[l] : LoggedTwice(w, l)'
        BY <1>6, <4>1, <4>2
      <4> QED
        BY <1>1, <1>5, <4>1, <4>3 DEF Holds, Covers, SameTxn
    <3> QED
      BY <1>1, <1>4, <3>1 DEF Holds, SameTxn
  <2> QED
    BY <1>1, <2>1, <2>2 DEF HoldsOK, SameTxn
<1> QED
  BY <1>7, <1>8, <1>9, <1>10 DEF TxnOK

-----------------------------------------------------------------------------
(***************************************************************************)
(* A step of t keeps the invariant when it keeps what concerns t.          *)
(***************************************************************************)
LEMMA StepKeeps ==
  ASSUME TxnInv, NEW t \in TxnId, StepOf(t), TxnTypeOK', TablesOK', TxnOK(t)'
  PROVE  TxnInv'
<1>1. ASSUME NEW u \in TxnId PROVE TxnOK(u)'
  BY OthersKeep DEF TxnInv
<1> QED
  BY <1>1 DEF TxnInv

\* As long as the tables are not written.
LEMMA TablesStay ==
  ASSUME TxnInv, NEW t \in TxnId, StepOf(t), table' = table
  PROVE  TablesOK'
<1>1. \A l \in Lambda : \A u \in table[l] : u \in TxnId /\ AllAgreed(u)
  BY DEF TxnInv, TablesOK, TxnTypeOK
<1> QED
  BY <1>1, StaysTrue DEF TablesOK

(***************************************************************************)
(* Steps that change only where the frontend and its call are.             *)
(***************************************************************************)
Moves(t) ==
  /\ front' \in [TxnId -> FrontState] /\ job' \in [TxnId -> JobState]
  /\ \A u \in TxnId : u # t => front'[u] = front[u] /\ job'[u] = job[u]
  /\ UNCHANGED <<reserved, ended, applied, callees, writes, owner, table>>
  /\ \/ faults' = faults /\ (Asks(t) => Asks(t)')
     \/ faults' = faults + 1 /\ faults < MaxFaults

LEMMA MovesKeep ==
  ASSUME TxnInv, NEW t \in TxnId, Moves(t), ReserveOK(t)', EndOK(t)',
         front'[t].pc = "reserve" /\ job'[t].at = "write" =>
           (Based(job[t].val, t) /\ Covers(job[t].val, Here(t)))'
  PROVE  TxnInv'
<1>1. faults \in Nat /\ faults' \in 0 .. MaxFaults /\ faults <= faults'
  BY MaxFaultsAssumption DEF Moves, TxnInv, TxnTypeOK
<1>2. /\ AllAgreed(t)' = AllAgreed(t) /\ Refused(t)' = Refused(t) /\ Decided(t)' = Decided(t)
      /\ \A u, l : Called(u, l)' = Called(u, l)
      /\ \A u, l : LoggedTwice(u, l)' = LoggedTwice(u, l)
      /\ \A u, l : Unapplied(u, l)' = Unapplied(u, l)
      /\ \A u : AllAgreed(u)' = AllAgreed(u)
      /\ \A v, l : Covers(v, l)' = Covers(v, l)
  BY DEF Moves, AllAgreed, Refused, Decided, Called, LoggedTwice, Unapplied, Covers
<1>3. StepOf(t)
  BY <1>1, <1>2 DEF StepOf, SameTxn, Moves
<1>4. TxnTypeOK'
  BY <1>1 DEF TxnInv, TxnTypeOK, Moves
<1>5. LogsOK(t)'
  <2>1. AgreedWrites(t)' /\ WritersCalled(t)' /\ WritesBased(t)'
    BY <1>2 DEF TxnInv, TxnOK, LogsOK, AgreedWrites, WritersCalled, WritesBased, Based, Moves
  <2>2. RoomForCalls(t)'
    <3>1. callees[t] \in Seq(Lambda)
      BY DEF TxnInv, TxnTypeOK
    <3>2. Len(callees[t]) \in Nat
      BY <3>1
    <3>3. RoomForCalls(t)
      BY DEF TxnInv, TxnOK, LogsOK
    <3> QED
      BY <1>1, <3>2, <3>3 DEF RoomForCalls, Moves
  <2>3. EndedOver(t)'
    BY <1>2 DEF TxnInv, TxnOK, LogsOK, EndedOver, IsOver, Released, Moves
  <2>4. AppliedFits(t)'
    BY DEF TxnInv, TxnOK, LogsOK, AppliedFits, Moves
  <2> QED
    BY <2>1, <2>2, <2>3, <2>4 DEF LogsOK
<1>6. HoldsOK(t)'
  <2>1. \A l \in Lambda : Holds(t, l)'
    BY <1>2 DEF TxnInv, TxnOK, HoldsOK, Holds, Moves
  <2> QED
    BY <2>1 DEF HoldsOK
<1> QED
  BY <1>3, <1>4, <1>5, <1>6, TablesStay, StepKeeps DEF TxnOK, Moves

-----------------------------------------------------------------------------
(***************************************************************************)
(* What the invariant says of one transaction.                             *)
(***************************************************************************)
LEMMA TypesOf ==
  ASSUME TxnInv, NEW t \in TxnId
  PROVE  /\ front[t] \in FrontState /\ job[t] \in JobState
         /\ front[t].at \in Nat \ {0} /\ job[t].k \in Nat \ {0}
         /\ callees[t] \in Seq(Lambda) /\ Len(callees[t]) \in Nat
         /\ writes[t] \in [Lambda -> Seq(SUBSET TxnId)]
         /\ \E m \in 0 .. Len(Participants) : reserved[t] \in [1 .. m -> BOOLEAN]
         /\ faults \in Nat /\ faults <= MaxFaults
         /\ LogsOK(t) /\ ReserveOK(t) /\ OutcomeOK(t) /\ HoldsOK(t)
         /\ front[t].pc \in Ending /\ job[t].at # "none" => CallOK(t)
<1>1. callees[t] \in Seq(Lambda)
  BY DEF TxnInv, TxnTypeOK
<1>2. Len(callees[t]) \in Nat
  BY <1>1
<1>3. front[t] \in FrontState /\ job[t] \in JobState
  BY DEF TxnInv, TxnTypeOK
<1>4. front[t].at \in Nat \ {0} /\ job[t].k \in Nat \ {0}
  BY <1>3 DEF FrontState, JobState
<1> QED
  BY <1>1, <1>2, <1>3, <1>4, MaxFaultsAssumption DEF TxnInv, TxnTypeOK, TxnOK, EndOK

\* A participant that has not answered yet: nothing is decided before it answers.
LEMMA Undecided ==
  ASSUME TxnInv, NEW t \in TxnId, front[t].pc = "reserve", front[t].at \notin DOMAIN reserved[t]
  PROVE  /\ ~ Decided(t) /\ ended[t] = {} /\ Here(t) \in Lambda /\ ~ AllAgreed(t) /\ ~ Refused(t)
         /\ \E m \in Nat : /\ reserved[t] \in [1 .. m -> BOOLEAN] /\ front[t].at = m + 1
                           /\ m < Len(Participants)
<1>1. PICK m \in 0 .. Len(Participants) : reserved[t] \in [1 .. m -> BOOLEAN]
  BY TypesOf
<1>2. /\ front[t].at \in Nat \ {0} /\ front[t].at <= Len(Participants)
      /\ front[t].at \notin 1 .. m
      /\ \A n \in 1 .. front[t].at - 1 : n \in 1 .. m /\ reserved[t][n]
  BY <1>1, TypesOf DEF ReserveOK
<1>3. front[t].at = m + 1
  <2>1. front[t].at > m
    BY <1>2
  <2>2. CASE front[t].at > 1
    <3>1. front[t].at - 1 \in 1 .. front[t].at - 1
      BY <1>2, <2>2
    <3> QED
      BY <1>2, <2>1, <3>1
  <2> QED
    BY <1>2, <2>1, <2>2
<1>4. ~ AllAgreed(t)
  BY <1>1, <1>2, <1>3, ParticipantsAreLambda DEF AllAgreed
<1>5. ~ Refused(t)
  BY <1>1, <1>2, <1>3 DEF Refused
<1>6. ended[t] = {}
  BY <1>4, <1>5, TypesOf DEF LogsOK, EndedOver, Decided
<1> QED
  BY <1>1, <1>2, <1>3, <1>4, <1>5, <1>6, ParticipantsAreLambda DEF Decided, Here

LEMMA AsksUndecided ==
  ASSUME TxnInv, NEW t \in TxnId, Asks(t)
  PROVE  ~ Decided(t) /\ ended[t] = {} /\ Here(t) \in Lambda /\ ~ AllAgreed(t) /\ ~ Refused(t)
BY Undecided, TypesOf DEF Asks, ReserveOK

\* There is a place for the result of each call.
LEMMA CallsFit ==
  ASSUME TxnInv, NEW t \in TxnId
  PROVE  Len(callees[t]) <= MaxCalls /\ MaxCalls \in Nat
<1>1. PICK m \in 0 .. Len(Participants) : reserved[t] \in [1 .. m -> BOOLEAN]
  BY TypesOf
<1>2. Len(callees[t]) <= m + faults + (IF Asks(t) THEN 1 ELSE 0)
  BY <1>1, TypesOf, SMTT(30) DEF LogsOK, RoomForCalls
<1>3. Asks(t) => m < Len(Participants)
  BY <1>1, TypesOf, ParticipantsAreLambda DEF Asks, ReserveOK
<1> QED
  BY <1>1, <1>2, <1>3, TypesOf, MaxFaultsAssumption, ParticipantsAreLambda DEF MaxCalls

\* What a frontend may set of its state.
LEMMA FrontFields ==
  ASSUME NEW f \in FrontState
  PROVE  /\ \A place \in {"exit", "commit", "abort", "placed", "failed"} :
              [f EXCEPT !.pc = place] \in FrontState
         /\ \A i \in {"", "COMMIT", "ABORT", "EXIT"} : [f EXCEPT !.instruction = i] \in FrontState
         /\ \A at \in Nat \ {0} : [f EXCEPT !.at = at] \in FrontState
         /\ [f EXCEPT !.lost = TRUE] \in FrontState
<1>1. \A place \in {"exit", "commit", "abort", "placed", "failed"} :
        [f EXCEPT !.pc = place] \in FrontState
  BY DEF FrontState
<1>2. \A i \in {"", "COMMIT", "ABORT", "EXIT"} : [f EXCEPT !.instruction = i] \in FrontState
  BY DEF FrontState
<1>3. \A at \in Nat \ {0} : [f EXCEPT !.at = at] \in FrontState
  BY DEF FrontState
<1>4. [f EXCEPT !.lost = TRUE] \in FrontState
  BY DEF FrontState
<1> QED
  BY <1>1, <1>2, <1>3, <1>4

LEMMA OnwardIs ==
  ASSUME TxnInv, NEW t \in TxnId, Onward(t)
  PROVE  /\ front' \in [TxnId -> FrontState]
         /\ \A u \in TxnId : u # t => front'[u] = front[u]
         /\ front'[t].pc = front[t].pc /\ front'[t].at = front[t].at + 1
         /\ front'[t].instruction = front[t].instruction /\ front'[t].lost = front[t].lost
<1>1. front \in [TxnId -> FrontState] /\ front[t] \in FrontState
  BY DEF TxnInv, TxnTypeOK
<1>2. front[t].at + 1 \in Nat \ {0}
  BY TypesOf
<1>3. front' = [front EXCEPT ![t].at = front[t].at + 1]
  BY DEF Onward
<1> QED
  BY <1>1, <1>2, <1>3 DEF FrontState

\* A step of a call.
LEMMA JobAtIs ==
  ASSUME TxnInv, NEW t \in TxnId, NEW at \in {"none", "return"} \cup Asking \cup Finishing,
         job' = [job EXCEPT ![t].at = at]
  PROVE  /\ job' \in [TxnId -> JobState]
         /\ \A u \in TxnId : u # t => job'[u] = job[u]
         /\ job'[t].at = at /\ job'[t].ok = job[t].ok
         /\ job'[t].val = job[t].val /\ job'[t].k = job[t].k
<1>1. job \in [TxnId -> JobState] /\ job[t] \in JobState
  BY DEF TxnInv, TxnTypeOK
<1> QED
  BY <1>1 DEF JobState

LEMMA AnswerIs ==
  ASSUME TxnInv, NEW t \in TxnId, NEW ok \in BOOLEAN, Answer(t, ok)
  PROVE  /\ job' \in [TxnId -> JobState]
         /\ \A u \in TxnId : u # t => job'[u] = job[u]
         /\ job'[t].at = "reply" /\ job'[t].ok = ok
<1>1. job \in [TxnId -> JobState] /\ job[t] \in JobState
  BY DEF TxnInv, TxnTypeOK
<1>2. "reply" \in {"none", "return"} \cup Asking \cup Finishing
  BY DEF Asking
<1> QED
  BY <1>1, <1>2 DEF Answer, JobState

LEMMA NoJobIs ==
  ASSUME TxnInv, NEW t \in TxnId, job' = [job EXCEPT ![t] = NoJob]
  PROVE  /\ job' \in [TxnId -> JobState]
         /\ \A u \in TxnId : u # t => job'[u] = job[u]
         /\ job'[t].at = "none" /\ job'[t].k = 1
<1>1. job \in [TxnId -> JobState]
  BY DEF TxnInv, TxnTypeOK
<1>2. NoJob \in JobState
  BY DEF NoJob, JobState
<1> QED
  BY <1>1, <1>2 DEF NoJob

LEMMA PeerIs ==
  ASSUME TxnInv, NEW t \in TxnId, front[t].at <= Len(callees[t])
  PROVE  /\ Peer(t) \in Lambda /\ Len(OwnWrites(t)) \in Nat
         /\ \A k \in 1 .. Len(OwnWrites(t)) : OwnWrites(t)[k] \in SUBSET TxnId
         /\ front[t].at \in 1 .. MaxCalls
         /\ Done(t) \in Nat /\ Done(t) <= Len(OwnWrites(t))
<1>1. front[t].at \in 1 .. Len(callees[t]) /\ front[t].at \in 1 .. MaxCalls
  BY TypesOf, CallsFit
<1>2. Peer(t) \in Lambda
  BY <1>1, TypesOf DEF Peer
<1>3. OwnWrites(t) \in Seq(SUBSET TxnId)
  BY <1>2, TypesOf DEF OwnWrites
<1>4. Len(OwnWrites(t)) \in Nat
  BY <1>3
<1>5. Done(t) \in Nat
  <2>1. applied[t] \in [1 .. MaxCalls -> Nat]
    BY DEF TxnInv, TxnTypeOK
  <2> QED
    BY <1>1, <2>1 DEF Done
<1>6. Done(t) <= Len(OwnWrites(t))
  <2>1. AppliedFits(t)
    BY TypesOf DEF LogsOK
  <2>2. CASE Done(t) = 0
    BY <1>4, <2>2
  <2>3. CASE Done(t) > 0
    BY <1>1, <2>1, <2>3 DEF AppliedFits, Done, OwnWrites, Peer
  <2> QED
    BY <1>5, <2>2, <2>3
<1> QED
  BY <1>1, <1>2, <1>3, <1>4, <1>5, <1>6

-----------------------------------------------------------------------------
(***************************************************************************)
(* Steps of the frontend.                                                  *)
(***************************************************************************)
LEMMA BeginKeeps == ASSUME TxnInv, NEW t \in TxnId, BeginTxn(t) PROVE TxnInv'
<1>1. /\ front' \in [TxnId -> FrontState] /\ job' \in [TxnId -> JobState]
      /\ \A u \in TxnId : u # t => front'[u] = front[u] /\ job'[u] = job[u]
      /\ front'[t] = [pc |-> "reserve", at |-> 1, instruction |-> "EXECUTE", lost |-> FALSE]
      /\ job'[t] = job[t] /\ job[t].at = "none" /\ job[t].k = 1
  BY TypesOf DEF BeginTxn, NewFront, FrontState, TxnInv, TxnTypeOK, OutcomeOK, Ending
<1>2. Moves(t)
  BY <1>1 DEF BeginTxn, Moves, txnLogs, Asks
<1>3. ReserveOK(t)' /\ EndOK(t)'
  BY <1>1, ParticipantsAssumption, ParticipantsAreLambda
  DEF ReserveOK, EndOK, OutcomeOK, Ending, Finished, Asking
<1> QED
  BY <1>1, <1>2, <1>3, MovesKeep

\* An answer that is in the log decides.
LEMMA DecideKeeps ==
  ASSUME TxnInv, NEW t \in TxnId,
         front[t].pc = "reserve", front[t].at \in DOMAIN reserved[t],
         Decide(t, reserved[t][front[t].at]),
         job' \in [TxnId -> JobState], job'[t].at = "none", job'[t].k = 1,
         \A u \in TxnId : u # t => job'[u] = job[u],
         ~ Asks(t), UNCHANGED <<txnLogs, owner, table, faults>>
  PROVE  TxnInv'
<1> DEFINE at == front[t].at
           ok == reserved[t][at]
<1>1. PICK m \in 0 .. Len(Participants) : reserved[t] \in [1 .. m -> BOOLEAN]
  BY TypesOf
<1>2. /\ at \in 1 .. m /\ ok \in BOOLEAN /\ Len(Participants) \in Nat
      /\ \A n \in 1 .. at - 1 : reserved[t][n]
      /\ front[t].instruction = "EXIT" => front[t].lost
  BY <1>1, TypesOf, ParticipantsAreLambda DEF ReserveOK, OutcomeOK
<1>5. front[t] \in FrontState
  BY TypesOf
<1>6. front \in [TxnId -> FrontState]
  BY DEF TxnInv, TxnTypeOK
<1>3. CASE ok /\ at < Len(Participants)
  <2>1. /\ front' \in [TxnId -> FrontState]
        /\ \A u \in TxnId : u # t => front'[u] = front[u]
        /\ front'[t] = [front[t] EXCEPT !.at = at + 1]
    <3>1. at + 1 \in Nat \ {0}
      BY <1>2
    <3>2. front' = [front EXCEPT ![t].at = at + 1]
      BY <1>3 DEF Decide
    <3> QED
      BY <3>1, <3>2, <1>5, <1>6 DEF FrontState
  <2>2. /\ front'[t].pc = "reserve" /\ front'[t].at = at + 1
        /\ front'[t].lost = front[t].lost /\ front'[t].instruction = front[t].instruction
    BY <2>1, TypesOf DEF FrontState
  <2>3. Moves(t)
    BY <2>1 DEF Moves, txnLogs
  <2>4. ReserveOK(t)'
    BY <1>1, <1>2, <1>3, <2>2, <2>3, SMTT(30) DEF ReserveOK, Moves, Asking
  <2>5. EndOK(t)'
    BY <1>2, <2>2 DEF EndOK, OutcomeOK, Ending, Finished
  <2> QED
    BY <2>3, <2>4, <2>5, MovesKeep
<1>4. CASE ~ (ok /\ at < Len(Participants))
  <2>1. /\ front' \in [TxnId -> FrontState]
        /\ \A u \in TxnId : u # t => front'[u] = front[u]
        /\ front'[t] = [front[t] EXCEPT !.pc = IF ok THEN "commit" ELSE "abort",
                                        !.instruction = IF ok THEN "COMMIT" ELSE "ABORT",
                                        !.at = 1]
    <3>1. PICK place \in {"commit", "abort"}, i \in {"COMMIT", "ABORT"} :
            /\ place = IF ok THEN "commit" ELSE "abort"
            /\ i = IF ok THEN "COMMIT" ELSE "ABORT"
      OBVIOUS
    <3>2. front' = [front EXCEPT ![t].pc = place, ![t].instruction = i, ![t].at = 1]
      BY <1>4, <3>1 DEF Decide
    <3>3. [front[t] EXCEPT !.pc = place, !.instruction = i, !.at = 1] \in FrontState
      <4>1. [front[t] EXCEPT !.pc = place] \in FrontState
        BY <1>5, FrontFields
      <4>2. [front[t] EXCEPT !.pc = place, !.instruction = i] \in FrontState
        BY <4>1, FrontFields
      <4>3. 1 \in Nat \ {0}
        OBVIOUS
      <4> QED
        BY <4>2, <4>3, FrontFields
    <3>4. front'[t] = [front[t] EXCEPT !.pc = place, !.instruction = i, !.at = 1]
      BY <3>2, <1>6
    <3>5. /\ front' \in [TxnId -> FrontState]
          /\ \A u \in TxnId : u # t => front'[u] = front[u]
      BY <3>2, <3>3, <1>6
    <3> QED
      BY <3>1, <3>4, <3>5
  <2>2. /\ front'[t].pc = (IF ok THEN "commit" ELSE "abort") /\ front'[t].at = 1
        /\ front'[t].instruction # "EXIT"
    BY <2>1, TypesOf DEF FrontState
  <2>3. Moves(t)
    BY <2>1 DEF Moves, txnLogs
  <2>4. ReserveOK(t)'
    BY <2>2 DEF ReserveOK
  <2>5. ok => AllAgreed(t)'
    BY <1>1, <1>2, <1>4, <2>3 DEF AllAgreed, Moves
  <2>6. ~ ok => Refused(t)'
    BY <1>1, <1>2, <2>3 DEF Refused, Moves
  <2>7. EndOK(t)'
    BY <2>2, <2>5, <2>6 DEF EndOK, OutcomeOK, Ending, Finished
  <2> QED
    BY <2>2, <2>3, <2>4, <2>7, MovesKeep
<1> QED
  BY <1>3, <1>4

LEMMA SeenReserveKeeps == ASSUME TxnInv, NEW t \in TxnId, SeenReserve(t) PROVE TxnInv'
<1>1. /\ job' = job /\ job[t].at = "none" /\ job[t].k = 1
      /\ front[t].pc = "reserve" /\ front[t].at \in DOMAIN reserved[t]
  BY TypesOf DEF SeenReserve, FrontAt, OutcomeOK
<1>2. job \in [TxnId -> JobState]
  BY DEF TxnInv, TxnTypeOK
<1> QED
  BY <1>1, <1>2, DecideKeeps DEF SeenReserve, Asks, Asking

LEMMA ReturnReservedKeeps == ASSUME TxnInv, NEW t \in TxnId, ReturnReserved(t) PROVE TxnInv'
<1>1. /\ job' \in [TxnId -> JobState] /\ job'[t].at = "none" /\ job'[t].k = 1
      /\ \A u \in TxnId : u # t => job'[u] = job[u]
  BY DEF ReturnReserved, NoJob, JobState, TxnInv, TxnTypeOK
<1>2. /\ front[t].pc = "reserve" /\ front[t].at \in DOMAIN reserved[t]
      /\ reserved[t][front[t].at] = job[t].ok /\ ~ Asks(t)
  BY TypesOf DEF ReturnReserved, Reserves, ReserveOK, Asks, Asking
<1> QED
  BY <1>1, <1>2, DecideKeeps DEF ReturnReserved

LEMMA SeenEndKeeps == ASSUME TxnInv, NEW t \in TxnId, SeenEnd(t) PROVE TxnInv'
<1>1. /\ front[t].pc \in Ending /\ job' = job /\ job[t].at = "none" /\ job[t].k = 1
      /\ job \in [TxnId -> JobState] /\ Onward(t)
  BY TypesOf DEF SeenEnd, FrontAt, OutcomeOK, TxnInv, TxnTypeOK
<1>2. Moves(t)
  BY <1>1, OnwardIs DEF SeenEnd, Moves, txnLogs, Asks, Ending
<1>3. ReserveOK(t)'
  BY <1>1, OnwardIs DEF ReserveOK, Ending
<1>4. \A n \in 1 .. front'[t].at - 1 : n = front[t].at \/ n \in 1 .. front[t].at - 1
  BY <1>1, OnwardIs, TypesOf
<1>5. OutcomeOK(t)'
  BY <1>1, <1>2, <1>4, OnwardIs, TypesOf
  DEF SeenEnd, OutcomeOK, Ending, Finished, Moves, AllAgreed, Refused
<1> QED
  BY <1>1, <1>2, <1>3, <1>5, MovesKeep, OnwardIs DEF EndOK, Ending

LEMMA InvokeEndKeeps == ASSUME TxnInv, NEW t \in TxnId, InvokeEnd(t) PROVE TxnInv'
<1>1. /\ front' = front /\ front \in [TxnId -> FrontState]
      /\ front[t].pc \in Ending /\ job[t].k = 1 /\ front[t].at <= Len(callees[t])
  BY TypesOf DEF InvokeEnd, FrontAt, More, OutcomeOK, TxnInv, TxnTypeOK
<1>2. /\ job' \in [TxnId -> JobState]
      /\ \A u \in TxnId : u # t => job'[u] = job[u]
      /\ job'[t].at = "next" /\ job'[t].k = 1
  BY <1>1, JobAtIs DEF InvokeEnd, Finishing
<1>3. Moves(t)
  BY <1>1, <1>2 DEF InvokeEnd, Moves, txnLogs, Asks, Ending
<1>4. ReserveOK(t)'
  BY <1>1 DEF ReserveOK, Ending
<1>5. OutcomeOK(t)'
  BY <1>1, <1>2, <1>3, TypesOf DEF OutcomeOK, Ending, Finished, Moves, AllAgreed, Refused
<1>6. CallOK(t)'
  <2>1. Peer(t)' = Peer(t) /\ OwnWrites(t)' = OwnWrites(t) /\ Done(t)' = Done(t)
    BY <1>1, <1>3 DEF Moves, Peer, OwnWrites, Done
  <2> QED
    BY <1>1, <1>2, <1>3, <2>1, PeerIs DEF CallOK, Moves, Finishing
<1> QED
  BY <1>1, <1>3, <1>4, <1>5, <1>6, MovesKeep DEF EndOK, Ending

LEMMA InvokeEndWithExitKeeps ==
  ASSUME TxnInv, NEW t \in TxnId, InvokeEndWithExit(t) PROVE TxnInv'
<1>1. /\ front[t].pc \in Ending /\ job' = job /\ job[t].at = "none" /\ job[t].k = 1
      /\ job \in [TxnId -> JobState] /\ Onward(t) /\ front[t].lost
  BY TypesOf DEF InvokeEndWithExit, FrontAt, OutcomeOK, TxnInv, TxnTypeOK
<1>2. Moves(t)
  BY <1>1, OnwardIs DEF InvokeEndWithExit, Moves, txnLogs, Asks, Ending
<1>3. ReserveOK(t)'
  BY <1>1, OnwardIs DEF ReserveOK, Ending
<1>4. OutcomeOK(t)'
  BY <1>1, <1>2, OnwardIs, TypesOf
  DEF OutcomeOK, Ending, Finished, Moves, AllAgreed, Refused
<1> QED
  BY <1>1, <1>2, <1>3, <1>4, MovesKeep, OnwardIs DEF EndOK, Ending

LEMMA EndTxnKeeps == ASSUME TxnInv, NEW t \in TxnId, EndTxn(t) PROVE TxnInv'
<1>1. /\ front[t].pc \in Ending /\ job' = job /\ job[t].at = "none" /\ job[t].k = 1
      /\ job \in [TxnId -> JobState]
      /\ front \in [TxnId -> FrontState] /\ front[t] \in FrontState
      /\ ~ (front[t].at <= Len(callees[t]))
  BY TypesOf DEF EndTxn, FrontAt, More, OutcomeOK, TxnInv, TxnTypeOK
<1>2. PICK place \in {"placed", "failed"} :
        /\ place = IF front[t].pc = "commit" THEN "placed" ELSE "failed"
        /\ front' = [front EXCEPT ![t].pc = place, ![t].instruction = ""]
  BY DEF EndTxn
<1>3. [front[t] EXCEPT !.pc = place, !.instruction = ""] \in FrontState
  <2>1. [front[t] EXCEPT !.pc = place] \in FrontState
    BY <1>1, FrontFields
  <2> QED
    BY <2>1, FrontFields
<1>4. /\ front' \in [TxnId -> FrontState]
      /\ \A u \in TxnId : u # t => front'[u] = front[u]
      /\ front'[t] = [front[t] EXCEPT !.pc = place, !.instruction = ""]
  BY <1>1, <1>2, <1>3
<1>5. /\ front'[t].pc = place /\ front'[t].instruction = "" /\ front'[t].lost = front[t].lost
  BY <1>1, <1>4 DEF FrontState
<1>6. Moves(t)
  BY <1>1, <1>4 DEF EndTxn, Moves, txnLogs, Asks, Ending
<1>7. ReserveOK(t)'
  BY <1>5 DEF ReserveOK
<1>8. \A n \in 1 .. Len(callees[t]) : n \in 1 .. front[t].at - 1
  BY <1>1, TypesOf
<1>9. OutcomeOK(t)'
  BY <1>1, <1>2, <1>5, <1>6, <1>8, TypesOf
  DEF OutcomeOK, Ending, Finished, Moves, AllAgreed, Refused
<1> QED
  BY <1>1, <1>5, <1>6, <1>7, <1>9, MovesKeep DEF EndOK, Ending

LEMMA ReturnEndedKeeps == ASSUME TxnInv, NEW t \in TxnId, ReturnEnded(t) PROVE TxnInv'
<1>1. /\ front[t].pc \in Ending /\ Onward(t) /\ job[t].at = "return"
      /\ front[t].at \in ended[t]
  BY TypesOf DEF ReturnEnded, Ends, CallOK
<1>2. /\ job' \in [TxnId -> JobState] /\ job'[t].at = "none" /\ job'[t].k = 1
      /\ \A u \in TxnId : u # t => job'[u] = job[u]
  BY NoJobIs DEF ReturnEnded
<1>3. Moves(t)
  BY <1>1, <1>2, OnwardIs DEF ReturnEnded, Moves, txnLogs, Asks, Ending
<1>4. ReserveOK(t)'
  BY <1>1, OnwardIs DEF ReserveOK, Ending
<1>5. \A n \in 1 .. front'[t].at - 1 : n = front[t].at \/ n \in 1 .. front[t].at - 1
  BY <1>1, OnwardIs, TypesOf
<1>6. OutcomeOK(t)'
  BY <1>1, <1>2, <1>3, <1>5, OnwardIs, TypesOf
  DEF OutcomeOK, Ending, Finished, Moves, AllAgreed, Refused
<1> QED
  BY <1>1, <1>2, <1>3, <1>4, <1>6, MovesKeep, OnwardIs DEF EndOK, Ending

LEMMA CalleeDiesKeeps == ASSUME TxnInv, NEW t \in TxnId, CalleeDies(t) PROVE TxnInv'
<1>1. /\ job' \in [TxnId -> JobState] /\ job'[t].at = "none" /\ job'[t].k = 1
      /\ \A u \in TxnId : u # t => job'[u] = job[u]
  BY NoJobIs DEF CalleeDies
<1>2. /\ front[t].pc = "reserve" \/ front[t].pc \in Ending
      /\ front \in [TxnId -> FrontState] /\ front[t] \in FrontState
  BY TypesOf DEF CalleeDies, OutcomeOK, TxnInv, TxnTypeOK
<1>3. PICK place \in {"exit", "commit", "abort"}, at \in Nat \ {0} :
        /\ place = IF front[t].pc = "reserve" THEN "exit" ELSE front[t].pc
        /\ at = IF front[t].pc = "reserve" THEN front[t].at ELSE front[t].at + 1
  BY <1>2, TypesOf DEF Ending
<1>4. front' = [front EXCEPT ![t].instruction = "EXIT", ![t].lost = TRUE,
                             ![t].pc = place, ![t].at = at]
  BY <1>3 DEF CalleeDies
<1>5. [front[t] EXCEPT !.instruction = "EXIT", !.lost = TRUE, !.pc = place, !.at = at]
        \in FrontState
  <2>1. [front[t] EXCEPT !.instruction = "EXIT"] \in FrontState
    BY <1>2, FrontFields
  <2>2. [front[t] EXCEPT !.instruction = "EXIT", !.lost = TRUE] \in FrontState
    BY <2>1, FrontFields
  <2>3. [front[t] EXCEPT !.instruction = "EXIT", !.lost = TRUE, !.pc = place] \in FrontState
    BY <2>2, FrontFields
  <2> QED
    BY <2>3, FrontFields
<1>6. /\ front' \in [TxnId -> FrontState]
      /\ \A u \in TxnId : u # t => front'[u] = front[u]
      /\ front'[t] = [front[t] EXCEPT !.instruction = "EXIT", !.lost = TRUE, !.pc = place, !.at = at]
  BY <1>2, <1>4, <1>5
<1>7. front'[t].pc = place /\ front'[t].lost
  BY <1>2, <1>6 DEF FrontState
<1>8. Moves(t)
  BY <1>1, <1>6 DEF CalleeDies, Moves, txnLogs
<1>9. ReserveOK(t)'
  BY <1>7 DEF ReserveOK
<1>10. OutcomeOK(t)'
  BY <1>1, <1>3, <1>7, <1>8, TypesOf DEF OutcomeOK, Ending, Finished, Moves, AllAgreed, Refused
<1> QED
  BY <1>1, <1>7, <1>8, <1>9, <1>10, MovesKeep DEF EndOK

LEMMA FrontendDiesKeeps == ASSUME TxnInv, NEW t \in TxnId, FrontendDies(t) PROVE TxnInv'
<1>1. /\ job' \in [TxnId -> JobState] /\ job'[t].at = "none" /\ job'[t].k = 1
      /\ \A u \in TxnId : u # t => job'[u] = job[u]
  BY NoJobIs DEF FrontendDies
<1>2. /\ front' \in [TxnId -> FrontState]
      /\ \A u \in TxnId : u # t => front'[u] = front[u]
      /\ front'[t].pc = "idle" /\ front'[t].instruction = ""
  <2>1. front \in [TxnId -> FrontState]
    BY DEF TxnInv, TxnTypeOK
  <2>2. NewFront \in FrontState
    BY DEF NewFront, FrontState
  <2> QED
    BY <2>1, <2>2 DEF FrontendDies, NewFront
<1>3. Moves(t)
  BY <1>1, <1>2 DEF FrontendDies, Moves, txnLogs
<1>4. ReserveOK(t)'
  BY <1>2 DEF ReserveOK
<1>5. OutcomeOK(t)'
  BY <1>1, <1>2 DEF OutcomeOK, Ending, Finished
<1> QED
  BY <1>1, <1>2, <1>3, <1>4, <1>5, MovesKeep DEF EndOK

-----------------------------------------------------------------------------
(***************************************************************************)
(* Steps of a participant that move only its call.                         *)
(***************************************************************************)
LEMMA ReadLockedKeeps == ASSUME TxnInv, NEW t \in TxnId, ReadLocked(t) PROVE TxnInv'
<1> DEFINE v == table[Here(t)] \cup {t}
<1>1. /\ front[t].pc = "reserve" /\ job[t].at = "read" /\ front' = front
      /\ front \in [TxnId -> FrontState] /\ job \in [TxnId -> JobState] /\ job[t] \in JobState
      /\ Here(t) \in Lambda
  BY AsksUndecided DEF ReadLocked, Reserves, Asks, Asking, TxnInv, TxnTypeOK
<1>2. v \in SUBSET TxnId /\ Based(v, t) /\ Covers(v, Here(t))
  BY <1>1 DEF TxnInv, TxnTypeOK, TablesOK, Based, Covers
<1>3. /\ job' \in [TxnId -> JobState]
      /\ \A u \in TxnId : u # t => job'[u] = job[u]
      /\ \/ job'[t].at = "write" /\ job'[t].val = v
         \/ job'[t].at = "reply" /\ ~ job'[t].ok
  <2>1. CASE job' = [job EXCEPT ![t].at = "write", ![t].val = v]
    <3>1. "write" \in {"none", "return"} \cup Asking \cup Finishing
      BY DEF Asking
    <3> QED
      BY <1>1, <1>2, <2>1, <3>1 DEF JobState
  <2>2. CASE Answer(t, FALSE)
    BY <2>2, AnswerIs
  <2> QED
    BY <2>1, <2>2 DEF ReadLocked
<1>4. Moves(t)
  BY <1>1, <1>3 DEF ReadLocked, Moves, txnLogs, Asks, Asking
<1>5. ReserveOK(t)'
  BY <1>1, <1>3, <1>4, TypesOf DEF ReserveOK, Moves, Asking, Called, Here
<1>6. EndOK(t)'
  BY <1>1, <1>3, <1>4, TypesOf DEF EndOK, OutcomeOK, Ending, Finished
<1>7. front'[t].pc = "reserve" /\ job'[t].at = "write" =>
        (Based(job[t].val, t) /\ Covers(job[t].val, Here(t)))'
  BY <1>1, <1>2, <1>3, <1>4 DEF Moves, Based, Covers, Here, AllAgreed, LoggedTwice
<1> QED
  BY <1>4, <1>5, <1>6, <1>7, MovesKeep

LEMMA NextEntryKeeps == ASSUME TxnInv, NEW t \in TxnId, NextEntry(t) PROVE TxnInv'
<1>1. /\ front[t].pc \in Ending /\ job[t].at = "next" /\ front' = front
      /\ front \in [TxnId -> FrontState] /\ CallOK(t) /\ front[t].at <= Len(callees[t])
  BY TypesOf DEF NextEntry, Ends, CallOK, TxnInv, TxnTypeOK
<1>2. PICK at \in {"reply", "unlock", "apply"} :
        /\ at = IF job[t].k > Len(OwnWrites(t)) THEN "reply"
                ELSE IF front[t].pc = "abort" \/ job[t].k <= Done(t) THEN "unlock"
                ELSE "apply"
        /\ job' = [job EXCEPT ![t].at = at]
  BY DEF NextEntry
<1>3. /\ job' \in [TxnId -> JobState]
      /\ \A u \in TxnId : u # t => job'[u] = job[u]
      /\ job'[t].at = at /\ job'[t].k = job[t].k
  <2>1. at \in {"none", "return"} \cup Asking \cup Finishing
    BY DEF Finishing
  <2>2. job' = [job EXCEPT ![t].at = at]
    BY <1>2
  <2> QED
    BY <2>1, <2>2, JobAtIs
<1>4. Moves(t)
  BY <1>1, <1>3 DEF NextEntry, Moves, txnLogs, Asks, Ending
<1>5. ReserveOK(t)'
  BY <1>1 DEF ReserveOK, Ending
<1>6. OutcomeOK(t)'
  BY <1>1, <1>2, <1>3, <1>4, TypesOf DEF OutcomeOK, Ending, Finished, Moves, AllAgreed, Refused
<1>7. CallOK(t)'
  <2>1. Peer(t)' = Peer(t) /\ OwnWrites(t)' = OwnWrites(t) /\ Done(t)' = Done(t)
    BY <1>1, <1>4 DEF Moves, Peer, OwnWrites, Done
  <2>2. owner' = owner /\ callees' = callees
    BY <1>4 DEF Moves
  <2> QED
    BY <1>1, <1>2, <1>3, <2>1, <2>2, PeerIs, TypesOf DEF CallOK, Finishing, Ending
<1> QED
  BY <1>1, <1>4, <1>5, <1>6, <1>7, MovesKeep DEF EndOK, Ending
-----------------------------------------------------------------------------
(***************************************************************************)
(* Steps that add to a log, or lock.  What held of the locks still holds   *)
(* when the locks and the tables stay.                                     *)
(***************************************************************************)
LEMMA HoldsStays ==
  ASSUME TxnInv, NEW t \in TxnId, StepOf(t), NEW l \in Lambda, table'[l] = table[l],
         owner[l] = t => owner'[l] = t, writes'[t][l] = writes[t][l],
         Refused(t) => Refused(t)', Unapplied(t, l)' => Unapplied(t, l)
  PROVE  Holds(t, l)'
<1>1. \A u \in table[l] : u \in TxnId
  BY DEF TxnInv, TxnTypeOK
<1>2. Covers(writes[t][l][1], l) => Covers(writes[t][l][1], l)'
  BY <1>1, StaysTrue DEF Covers
<1>3. Holds(t, l)
  BY TypesOf DEF HoldsOK
<1>4. LoggedTwice(t, l) => LoggedTwice(t, l)'
  BY StaysTrue
<1> QED
  BY <1>2, <1>3, <1>4 DEF Holds, Covers

LEMMA InvokeReserveKeeps == ASSUME TxnInv, NEW t \in TxnId, InvokeReserve(t) PROVE TxnInv'
<1> DEFINE c == callees[t]
           l == Here(t)
<1>1. /\ front[t].pc = "reserve" /\ job[t].at = "none" /\ front' = front
      /\ front[t].at \notin DOMAIN reserved[t]
  BY DEF InvokeReserve, FrontAt
<1>2. /\ ended[t] = {} /\ l \in Lambda
  BY <1>1, Undecided
<1>3. /\ job' \in [TxnId -> JobState] /\ job'[t].at = "lock"
      /\ \A u \in TxnId : u # t => job'[u] = job[u]
  BY JobAtIs DEF InvokeReserve, Asking
<1>4. /\ callees' \in [TxnId -> Seq(Lambda)] /\ callees'[t] = Append(c, l)
      /\ \A u \in TxnId : u # t => callees'[u] = callees[u]
  BY <1>2 DEF InvokeReserve, Here, TxnInv, TxnTypeOK
<1>5. /\ Len(c) \in Nat /\ Len(callees'[t]) = Len(c) + 1
      /\ callees'[t][Len(c) + 1] = l
      /\ \A n \in 1 .. Len(c) : callees'[t][n] = c[n]
  BY <1>2, <1>4, TypesOf
<1>6. \A h \in Lambda : LoggedTwice(t, h) => LoggedTwice(t, h)'
  BY <1>5 DEF LoggedTwice, InvokeReserve
<1>7. StepOf(t)
  BY <1>1, <1>3, <1>4, <1>6, TypesOf DEF InvokeReserve, StepOf, SameTxn, AllAgreed
<1>8. TxnTypeOK'
  BY <1>3, <1>4 DEF InvokeReserve, TxnInv, TxnTypeOK
<1>9. LogsOK(t)'
  <2>1. AgreedWrites(t)' /\ WritesBased(t)'
    BY TypesOf DEF InvokeReserve, LogsOK, AgreedWrites, WritesBased, Based, AllAgreed
  <2>5. WritersCalled(t)'
    <3>1. \A h \in Lambda : Called(t, h) => Called(t, h)'
      BY <1>5 DEF Called
    <3> QED
      BY <3>1, TypesOf DEF InvokeReserve, LogsOK, WritersCalled
  <2>2. RoomForCalls(t)'
    <3>1. RoomForCalls(t) /\ ~ Asks(t)
      BY <1>1, TypesOf DEF LogsOK, Asks, Asking
    <3>2. Asks(t)'
      BY <1>1, <1>3 DEF Asks, Asking
    <3> QED
      BY <1>5, <3>1, <3>2, TypesOf DEF RoomForCalls, InvokeReserve
  <2>3. EndedOver(t)'
    BY <1>2 DEF InvokeReserve, EndedOver
  <2>4. AppliedFits(t)'
    <3>1. AppliedFits(t) /\ applied' = applied /\ writes' = writes
      BY TypesOf DEF InvokeReserve, LogsOK
    <3> QED
      BY <1>5, <3>1, CallsFit, SMTT(30) DEF AppliedFits
  <2> QED
    BY <2>1, <2>2, <2>3, <2>4, <2>5 DEF LogsOK
<1>10. ReserveOK(t)'
  <2>1. Called(t, Here(t))'
    BY <1>1, <1>5 DEF Called, Here
  <2> QED
    BY <1>1, <1>3, <2>1, TypesOf DEF InvokeReserve, ReserveOK, Asking
<1>11. EndOK(t)'
  BY <1>1, <1>3, TypesOf DEF EndOK, OutcomeOK, Ending, Finished
<1>12. HoldsOK(t)'
  <2>1. ASSUME NEW h \in Lambda PROVE Holds(t, h)'
    <3>1. Unapplied(t, h)' => Unapplied(t, h)
      BY <1>5 DEF Unapplied, InvokeReserve
    <3> QED
      BY <1>7, <3>1, HoldsStays DEF InvokeReserve, Refused
  <2> QED
    BY <1>3, <2>1 DEF HoldsOK
<1> QED
  BY <1>7, <1>8, <1>9, <1>10, <1>11, <1>12, StepKeeps, TablesStay DEF TxnOK, InvokeReserve

LEMMA LockToReadKeeps == ASSUME TxnInv, NEW t \in TxnId, LockToRead(t) PROVE TxnInv'
<1> DEFINE l == Here(t)
<1>1. /\ front[t].pc = "reserve" /\ job[t].at = "lock" /\ front' = front
      /\ UNCHANGED <<txnLogs, table, faults>>
  BY DEF LockToRead, Reserves
<1>2. Asks(t) /\ ended[t] = {} /\ l \in Lambda
  BY <1>1, AsksUndecided DEF Asks, Asking
<1>3. /\ job' \in [TxnId -> JobState]
      /\ \A u \in TxnId : u # t => job'[u] = job[u]
      /\ owner' \in [Lambda -> TxnId \cup {Nobody}]
      /\ \A h \in Lambda : owner'[h] = owner[h] \/ {owner[h], owner'[h]} \subseteq {t, Nobody}
      /\ \A h \in Lambda : owner[h] = t => owner'[h] = t
      /\ \/ job'[t].at = "read" /\ owner'[l] = t
         \/ job'[t].at = "reply" /\ ~ job'[t].ok
  <2>1. owner \in [Lambda -> TxnId \cup {Nobody}]
    BY DEF TxnInv, TxnTypeOK
  <2>2. CASE owner[l] \in {t, Nobody}
    <3>1. owner' = [owner EXCEPT ![l] = t] /\ job' = [job EXCEPT ![t].at = "read"]
      BY <2>2 DEF LockToRead
    <3>2. "read" \in {"none", "return"} \cup Asking \cup Finishing
      BY DEF Asking
    <3>3. /\ job' \in [TxnId -> JobState] /\ job'[t].at = "read"
          /\ \A u \in TxnId : u # t => job'[u] = job[u]
      BY <3>1, <3>2, JobAtIs
    <3>4. /\ owner' \in [Lambda -> TxnId \cup {Nobody}] /\ owner'[l] = t
          /\ \A h \in Lambda : h # l => owner'[h] = owner[h]
      BY <1>2, <2>1, <3>1
    <3> QED
      BY <2>2, <3>3, <3>4
  <2>3. CASE owner[l] \notin {t, Nobody}
    BY <2>1, <2>3, AnswerIs DEF LockToRead
  <2> QED
    BY <2>2, <2>3
<1>4. StepOf(t)
  BY <1>1, <1>3, TypesOf DEF txnLogs, StepOf, SameTxn, AllAgreed, LoggedTwice
<1>5. TxnTypeOK'
  BY <1>1, <1>3 DEF txnLogs, TxnInv, TxnTypeOK
<1>6. LogsOK(t)'
  <2>1. AgreedWrites(t)' /\ WritersCalled(t)' /\ WritesBased(t)' /\ AppliedFits(t)'
    BY <1>1, TypesOf DEF txnLogs, LogsOK, AgreedWrites, WritersCalled, WritesBased, AppliedFits,
                         Based, AllAgreed, Called
  <2>2. RoomForCalls(t)'
    <3>1. Asks(t)'
      BY <1>1, <1>3 DEF Asks, Asking
    <3> QED
      BY <1>1, <1>2, <3>1, TypesOf DEF LogsOK, RoomForCalls, txnLogs
  <2>3. EndedOver(t)'
    BY <1>1, <1>2 DEF txnLogs, EndedOver
  <2> QED
    BY <2>1, <2>2, <2>3 DEF LogsOK
<1>7. ReserveOK(t)'
  BY <1>1, <1>3, TypesOf DEF txnLogs, ReserveOK, Asking, Called, Here
<1>8. EndOK(t)'
  BY <1>1, <1>3, TypesOf DEF EndOK, OutcomeOK, Ending, Finished
<1>9. HoldsOK(t)'
  <2>1. ASSUME NEW h \in Lambda PROVE Holds(t, h)'
    BY <1>1, <1>3, <1>4, HoldsStays DEF txnLogs, Refused, Unapplied
  <2> QED
    BY <1>3, <2>1 DEF HoldsOK
<1> QED
  BY <1>1, <1>4, <1>5, <1>6, <1>7, <1>8, <1>9, StepKeeps, TablesStay DEF TxnOK

LEMMA TPLWriteKeeps == ASSUME TxnInv, NEW t \in TxnId, TPLWrite(t) PROVE TxnInv'
<1> DEFINE l == Here(t)
           v == job[t].val
           w == writes[t][l]
<1>1. /\ front[t].pc = "reserve" /\ job[t].at = "write" /\ front' = front
      /\ UNCHANGED <<reserved, ended, applied, callees, owner, table, faults>>
  BY DEF TPLWrite, Reserves
<1>2. Asks(t) /\ ended[t] = {} /\ l \in Lambda
  BY <1>1, AsksUndecided DEF Asks, Asking
<1>3. /\ job' \in [TxnId -> JobState] /\ job'[t].at = "reply" /\ job'[t].ok
      /\ \A u \in TxnId : u # t => job'[u] = job[u]
  BY AnswerIs DEF TPLWrite
<1>4. /\ v \in SUBSET TxnId /\ Based(v, t) /\ Covers(v, l) /\ owner[l] = t /\ Called(t, l)
      /\ w \in Seq(SUBSET TxnId)
  BY <1>1, <1>2, TypesOf DEF JobState, HoldsOK, ReserveOK, Asking
<1>5. /\ writes' \in [TxnId -> [Lambda -> Seq(SUBSET TxnId)]]
      /\ writes'[t][l] = Append(w, v)
      /\ \A h \in Lambda : h # l => writes'[t][h] = writes[t][h]
      /\ \A u \in TxnId : u # t => writes'[u] = writes[u]
  <2>1. writes \in [TxnId -> [Lambda -> Seq(SUBSET TxnId)]]
    BY DEF TxnInv, TxnTypeOK
  <2>2. writes' = [writes EXCEPT ![t] = [writes[t] EXCEPT ![l] = Append(w, v)]]
    BY DEF TPLWrite
  <2>3. Append(w, v) \in Seq(SUBSET TxnId)
    BY <1>4
  <2> QED
    BY <1>2, <2>1, <2>2, <2>3
<1>6. /\ Len(w) \in Nat /\ Len(writes'[t][l]) = Len(w) + 1
      /\ writes'[t][l][Len(w) + 1] = v
      /\ \A k \in 1 .. Len(w) : writes'[t][l][k] = w[k]
      /\ writes'[t][l] # <<>>
  BY <1>4, <1>5
<1>7. \A h \in Lambda : LoggedTwice(t, h) => LoggedTwice(t, h)'
  <2>1. ASSUME NEW h \in Lambda, Len(writes[t][h]) > 1 PROVE Len(writes'[t][h]) > 1
    BY <1>5, <1>6, <2>1
  <2> QED
    BY <1>1, <2>1 DEF LoggedTwice
<1>8. StepOf(t)
  BY <1>1, <1>3, <1>5, <1>7, TypesOf DEF StepOf, SameTxn, AllAgreed
<1>9. TxnTypeOK'
  BY <1>1, <1>3, <1>5 DEF TxnInv, TxnTypeOK
<1>10. LogsOK(t)'
  <2>1. \A h \in Lambda : writes[t][h] # <<>> => writes'[t][h] # <<>>
    BY <1>5, <1>6
  <2>2. AgreedWrites(t)'
    <3>1. \A n \in DOMAIN reserved[t] : Participants[n] \in Lambda
      BY TypesOf, ParticipantsAreLambda
    <3> QED
      BY <1>1, <2>1, <3>1, TypesOf DEF LogsOK, AgreedWrites
  <2>3. WritersCalled(t)'
    BY <1>1, <1>4, <1>5, TypesOf DEF LogsOK, WritersCalled, Called
  <2>4. WritesBased(t)'
    <3>1. ASSUME NEW h \in Lambda, NEW k \in 1 .. Len(writes'[t][h])
          PROVE  Based(writes'[t][h][k], t)
      <4>1. CASE h # l
        BY <1>5, <4>1, TypesOf DEF LogsOK, WritesBased
      <4>2. CASE h = l /\ k = Len(w) + 1
        BY <1>4, <1>6, <4>2
      <4>3. CASE h = l /\ k # Len(w) + 1
        <5>1. k \in 1 .. Len(w)
          BY <1>6, <4>3
        <5>2. Based(w[k], t)
          BY <1>2, <5>1, TypesOf DEF LogsOK, WritesBased
        <5> QED
          BY <1>6, <4>3, <5>1, <5>2
      <4> QED
        BY <4>1, <4>2, <4>3
    <3> QED
      BY <1>1, <3>1 DEF WritesBased, Based, AllAgreed
  <2>5. RoomForCalls(t)'
    <3>1. Asks(t)'
      BY <1>1, <1>3 DEF Asks, Asking
    <3> QED
      BY <1>1, <1>2, <3>1, TypesOf DEF LogsOK, RoomForCalls
  <2>6. EndedOver(t)'
    BY <1>1, <1>2 DEF EndedOver
  <2>7. AppliedFits(t)'
    <3> SUFFICES ASSUME NEW n \in 1 .. MaxCalls, applied[t][n] > 0
                 PROVE  n <= Len(callees[t]) /\ applied[t][n] <= Len(writes'[t][callees[t][n]])
      BY <1>1 DEF AppliedFits
    <3>1. n <= Len(callees[t]) /\ applied[t][n] <= Len(writes[t][callees[t][n]])
      BY TypesOf DEF LogsOK, AppliedFits
    <3>2. callees[t][n] \in Lambda
      BY <3>1, TypesOf
    <3>3. applied[t][n] \in Nat
      <4>1. applied[t] \in [1 .. MaxCalls -> Nat]
        BY DEF TxnInv, TxnTypeOK
      <4> QED
        BY <4>1
    <3>4. CASE callees[t][n] = l
      BY <1>6, <3>1, <3>3, <3>4
    <3>5. CASE callees[t][n] # l
      BY <1>5, <3>1, <3>2, <3>5
    <3> QED
      BY <3>4, <3>5
  <2> QED
    BY <2>2, <2>3, <2>4, <2>5, <2>6, <2>7 DEF LogsOK
<1>11. ReserveOK(t)'
  BY <1>1, <1>3, <1>6, TypesOf DEF ReserveOK, Asking, Called, Here
<1>12. EndOK(t)'
  BY <1>1, <1>3, TypesOf DEF EndOK, OutcomeOK, Ending, Finished
<1>13. HoldsOK(t)'
  <2>1. ASSUME NEW h \in Lambda PROVE Holds(t, h)'
    <3>1. CASE h # l
      BY <1>1, <1>5, <1>8, <3>1, HoldsStays DEF Refused, Unapplied
    <3>2. CASE h = l /\ Len(w) > 0
      BY <1>6, <3>2 DEF Holds, LoggedTwice
    <3>3. CASE h = l /\ Len(w) = 0
      <4>1. PICK x \in SUBSET TxnId : writes'[t][h][1] = x /\ Covers(x, h)
        BY <1>4, <1>6, <3>3
      <4>2. \A u \in table[h] : LoggedTwice(u, h) => LoggedTwice(u, h)'
        BY <1>8, StaysTrue DEF TxnInv, TxnTypeOK
      <4>3. table'[h] \subseteq x \/ \E u \in table'[h] : LoggedTwice(u, h)'
        BY <1>1, <4>1, <4>2 DEF Covers
      <4>4. owner'[h] = t
        BY <1>1, <1>4, <3>3
      <4> QED
        BY <4>1, <4>3, <4>4 DEF Holds, Covers
    <3> QED
      BY <1>6, <3>1, <3>2, <3>3
  <2> QED
    BY <1>3, <2>1 DEF HoldsOK
<1> QED
  BY <1>1, <1>8, <1>9, <1>10, <1>11, <1>12, <1>13, StepKeeps, TablesStay DEF TxnOK

LEMMA LogReservedKeeps == ASSUME TxnInv, NEW t \in TxnId, LogReserved(t) PROVE TxnInv'
<1>1. /\ front[t].pc = "reserve" /\ job[t].at = "reply" /\ front' = front
      /\ front[t].at \notin DOMAIN reserved[t] /\ Asks(t)
      /\ UNCHANGED <<ended, applied, callees, writes, owner, table, faults>>
  BY TypesOf DEF LogReserved, Reserves, ReserveOK, Asks, Asking
<1>2. ~ AllAgreed(t) /\ ~ Refused(t) /\ ended[t] = {}
  BY <1>1, Undecided
<1>3. PICK m \in Nat : /\ reserved[t] \in [1 .. m -> BOOLEAN] /\ front[t].at = m + 1
                       /\ m < Len(Participants)
  BY <1>1, Undecided
<1>4. PICK ok \in BOOLEAN : /\ ok = job[t].ok
                            /\ ok => writes[t][Participants[m + 1]] # <<>>
  BY <1>1, <1>3, TypesOf DEF JobState, ReserveOK, Here
<1>5. /\ job' \in [TxnId -> JobState] /\ job'[t].at = "return" /\ job'[t].ok = ok
      /\ \A u \in TxnId : u # t => job'[u] = job[u]
  BY <1>4, JobAtIs DEF LogReserved
<1>6. DOMAIN reserved[t] \cup {front[t].at} = 1 .. m + 1
  BY <1>3
<1>7. DOMAIN reserved = TxnId
  BY DEF TxnInv, TxnTypeOK
<1>8. reserved'[t] = [n \in 1 .. m + 1 |-> IF n = m + 1 THEN ok ELSE reserved[t][n]]
  BY <1>3, <1>4, <1>6, <1>7 DEF LogReserved
<1>9. /\ DOMAIN reserved' = TxnId
      /\ reserved'[t] \in [1 .. m + 1 -> BOOLEAN]
      /\ reserved'[t][m + 1] = ok
      /\ \A n \in 1 .. m : reserved'[t][n] = reserved[t][n]
      /\ \A u \in TxnId : u # t => reserved'[u] = reserved[u]
  BY <1>3, <1>7, <1>8 DEF LogReserved
<1>10. StepOf(t)
  BY <1>1, <1>2, <1>5, <1>9, TypesOf DEF StepOf, SameTxn, LoggedTwice
<1>11. TxnTypeOK'
  <2>1. m + 1 \in 0 .. Len(Participants)
    BY <1>3, ParticipantsAreLambda
  <2>2. \A u \in TxnId : \E n \in 0 .. Len(Participants) : reserved'[u] \in [1 .. n -> BOOLEAN]
    BY <1>9, <2>1 DEF TxnInv, TxnTypeOK
  <2> QED
    BY <1>1, <1>5, <1>9, <2>2 DEF TxnInv, TxnTypeOK
<1>12. LogsOK(t)'
  <2>1. AgreedWrites(t)'
    BY <1>1, <1>3, <1>4, <1>9, TypesOf DEF LogsOK, AgreedWrites
  <2>2. WritersCalled(t)' /\ AppliedFits(t)'
    BY <1>1, TypesOf DEF LogsOK, WritersCalled, AppliedFits, Called
  <2>3. WritesBased(t)'
    <3>1. WritesBased(t) /\ \A u \in TxnId : AllAgreed(u) => AllAgreed(u)'
      BY <1>10, StaysTrue, TypesOf DEF LogsOK
    <3>2. \A h \in Lambda : \A k \in 1 .. Len(writes[t][h]) : writes[t][h][k] \in SUBSET TxnId
      BY TypesOf
    <3> QED
      BY <1>1, <3>1, <3>2 DEF WritesBased, Based
  <2>4. RoomForCalls(t)'
    <3>1. Len(callees[t]) <= m + faults + 1
      BY <1>1, <1>3, TypesOf DEF LogsOK, RoomForCalls
    <3>2. \A n \in Nat : 1 .. m + 1 = 1 .. n => n = m + 1
      <4>1. m + 1 \in 1 .. m + 1
        BY <1>3
      <4> QED
        BY <1>3, <4>1
    <3> QED
      BY <1>1, <1>5, <1>9, <3>1, <3>2, TypesOf DEF RoomForCalls, Asks
  <2>5. EndedOver(t)'
    BY <1>1, <1>2 DEF EndedOver
  <2> QED
    BY <2>1, <2>2, <2>3, <2>4, <2>5 DEF LogsOK
<1>13. ReserveOK(t)'
  <2>1. \A n \in 1 .. front[t].at - 1 : n \in DOMAIN reserved'[t] /\ reserved'[t][n]
    BY <1>1, <1>3, <1>9, TypesOf DEF ReserveOK
  <2>2. front[t].at \in DOMAIN reserved'[t] /\ reserved'[t][front[t].at] = job'[t].ok
    BY <1>3, <1>5, <1>9
  <2> QED
    BY <1>1, <1>5, <2>1, <2>2, TypesOf DEF ReserveOK, Asking
<1>14. EndOK(t)'
  BY <1>1, <1>5, TypesOf DEF EndOK, OutcomeOK, Ending, Finished
<1>15. HoldsOK(t)'
  <2>1. ASSUME NEW h \in Lambda PROVE Holds(t, h)'
    BY <1>1, <1>2, <1>10, HoldsStays DEF Unapplied
  <2> QED
    BY <1>5, <2>1 DEF HoldsOK
<1> QED
  BY <1>1, <1>10, <1>11, <1>12, <1>13, <1>14, <1>15, StepKeeps, TablesStay DEF TxnOK

-----------------------------------------------------------------------------
(***************************************************************************)
(* The second phase.                                                       *)
(***************************************************************************)
LEMMA ApplyWriteKeeps == ASSUME TxnInv, NEW t \in TxnId, ApplyWrite(t) PROVE TxnInv'
<1>1. /\ front[t].pc = "commit" /\ job[t].at = "apply" /\ front' = front
      /\ front \in [TxnId -> FrontState]
      /\ CallOK(t) /\ front[t].at <= Len(callees[t]) /\ AllAgreed(t)
      /\ UNCHANGED <<txnLogs, owner, faults>>
  BY TypesOf DEF ApplyWrite, Ends, CallOK, OutcomeOK, TxnInv, TxnTypeOK
<1>2. PICK l \in Lambda, k \in Nat \ {0} :
        /\ l = Peer(t) /\ k = job[t].k /\ k <= Len(writes[t][l]) /\ Done(t) = k - 1
        /\ Len(writes[t][l]) \in Nat /\ front[t].at \in 1 .. Len(callees[t])
        /\ callees[t][front[t].at] = l
  <2>1. job[t].k <= Len(OwnWrites(t)) /\ Done(t) = job[t].k - 1
    BY <1>1 DEF CallOK
  <2>2. /\ Peer(t) \in Lambda /\ Len(OwnWrites(t)) \in Nat
        /\ front[t].at \in 1 .. MaxCalls /\ front[t].at \in 1 .. Len(callees[t])
        /\ job[t].k \in Nat \ {0}
    BY <1>1, PeerIs, TypesOf
  <2> QED
    BY <2>1, <2>2 DEF OwnWrites, Peer
<1>3. PICK v \in SUBSET TxnId : v = writes[t][l][k] /\ Based(v, t)
  <2>1. k \in 1 .. Len(writes[t][l])
    BY <1>2
  <2> QED
    BY <2>1, TypesOf DEF LogsOK, WritesBased
<1>4. /\ table' \in [Lambda -> SUBSET TxnId] /\ table'[l] = v
      /\ \A h \in Lambda : h # l => table'[h] = table[h]
  BY <1>2, <1>3 DEF ApplyWrite, OwnWrites, TxnInv, TxnTypeOK
<1>5. /\ job' \in [TxnId -> JobState] /\ job'[t].at = "applied" /\ job'[t].k = job[t].k
      /\ \A u \in TxnId : u # t => job'[u] = job[u]
  BY JobAtIs DEF ApplyWrite, Finishing
<1>6. \A u : /\ AllAgreed(u)' = AllAgreed(u) /\ Refused(u)' = Refused(u)
             /\ \A h : LoggedTwice(u, h)' = LoggedTwice(u, h)
             /\ \A h : Unapplied(u, h)' = Unapplied(u, h)
  BY <1>1 DEF txnLogs, AllAgreed, Refused, LoggedTwice, Unapplied
<1>7. ~ LoggedTwice(t, l) => owner[l] = t /\ k = 1
  <2> HAVE ~ LoggedTwice(t, l)
  <2>1. k = 1 /\ writes[t][l] # <<>>
    BY <1>2 DEF LoggedTwice
  <2>2. Unapplied(t, l)
    BY <1>2, <2>1 DEF LoggedTwice, Unapplied, Done
  <2>3. ~ Refused(t)
    BY <1>1 DEF AllAgreed, Refused
  <2> QED
    BY <2>1, <2>2, <2>3, TypesOf DEF HoldsOK, Holds
<1>8. StepOf(t)
  <2>1. \A h \in Lambda : \/ table'[h] = table[h]
                          \/ owner[h] = t
                          \/ \E w \in table'[h] : LoggedTwice(w, h)'
    BY <1>3, <1>4, <1>6, <1>7 DEF Based
  <2> QED
    BY <1>1, <1>5, <1>6, <2>1, TypesOf DEF txnLogs, StepOf, SameTxn
<1>9. TxnTypeOK'
  BY <1>1, <1>4, <1>5 DEF txnLogs, TxnInv, TxnTypeOK
<1>10. TablesOK'
  BY <1>1, <1>3, <1>4, <1>6 DEF TablesOK, Based, TxnInv
<1>11. LogsOK(t)'
  <2>1. AgreedWrites(t)' /\ WritersCalled(t)' /\ WritesBased(t)' /\ AppliedFits(t)'
    BY <1>1, TypesOf DEF txnLogs, LogsOK, AgreedWrites, WritersCalled, WritesBased, AppliedFits,
                         Based, AllAgreed, Called
  <2>2. RoomForCalls(t)'
    BY <1>1, TypesOf DEF LogsOK, RoomForCalls, txnLogs, Asks
  <2>3. EndedOver(t)'
    BY <1>1, TypesOf DEF LogsOK, EndedOver, Decided, AllAgreed, Refused, IsOver, Released, txnLogs
  <2> QED
    BY <2>1, <2>2, <2>3 DEF LogsOK
<1>12. ReserveOK(t)'
  BY <1>1 DEF ReserveOK
<1>13. OutcomeOK(t)'
  BY <1>1, <1>5, <1>6, TypesOf DEF txnLogs, OutcomeOK, Ending, Finished
<1>14. CallOK(t)'
  <2>1. Peer(t)' = Peer(t) /\ OwnWrites(t)' = OwnWrites(t) /\ Done(t)' = Done(t)
    BY <1>1 DEF txnLogs, Peer, OwnWrites, Done
  <2>2. owner' = owner /\ callees' = callees
    BY <1>1 DEF txnLogs
  <2> QED
    BY <1>1, <1>5, <2>1, <2>2 DEF CallOK, Finishing
<1>15. HoldsOK(t)'
  <2>1. ASSUME NEW h \in Lambda PROVE Holds(t, h)'
    <3>1. CASE h # l
      BY <1>1, <1>4, <1>6, <1>8, <3>1, HoldsStays DEF txnLogs
    <3>2. CASE h = l
      BY <1>1, <1>3, <1>4, <1>6, <1>7, <3>2 DEF txnLogs, Holds, Covers
    <3> QED
      BY <3>1, <3>2
  <2> QED
    BY <1>1, <2>1 DEF HoldsOK
<1> QED
  BY <1>8, <1>9, <1>10, <1>11, <1>12, <1>13, <1>14, <1>15, StepKeeps DEF TxnOK, EndOK

LEMMA LogWriteKeeps == ASSUME TxnInv, NEW t \in TxnId, LogWrite(t) PROVE TxnInv'
<1>1. /\ front[t].pc = "commit" /\ job[t].at = "applied" /\ front' = front
      /\ CallOK(t) /\ front[t].at <= Len(callees[t]) /\ AllAgreed(t)
      /\ UNCHANGED <<reserved, ended, callees, writes, owner, table, faults>>
  BY TypesOf DEF LogWrite, Ends, CallOK, OutcomeOK
<1>2. PICK l \in Lambda, k \in Nat \ {0}, at \in 1 .. MaxCalls :
        /\ l = Peer(t) /\ k = job[t].k /\ k <= Len(writes[t][l]) /\ Done(t) = k - 1
        /\ Len(writes[t][l]) \in Nat /\ at \in 1 .. Len(callees[t]) /\ at = front[t].at
        /\ callees[t][at] = l
  <2>1. job[t].k <= Len(OwnWrites(t)) /\ Done(t) = job[t].k - 1
    BY <1>1 DEF CallOK
  <2>2. /\ Peer(t) \in Lambda /\ Len(OwnWrites(t)) \in Nat
        /\ front[t].at \in 1 .. MaxCalls /\ front[t].at \in 1 .. Len(callees[t])
        /\ job[t].k \in Nat \ {0}
    BY <1>1, PeerIs, TypesOf
  <2> QED
    BY <2>1, <2>2 DEF OwnWrites, Peer
<1>3. /\ applied' \in [TxnId -> [1 .. MaxCalls -> Nat]] /\ applied'[t][at] = k
      /\ \A n \in 1 .. MaxCalls : n # at => applied'[t][n] = applied[t][n]
      /\ \A u \in TxnId : u # t => applied'[u] = applied[u]
  <2>1. applied \in [TxnId -> [1 .. MaxCalls -> Nat]]
    BY DEF TxnInv, TxnTypeOK
  <2>2. applied' = [applied EXCEPT ![t] = [applied[t] EXCEPT ![at] = k]]
    BY <1>2 DEF LogWrite
  <2> QED
    BY <1>2, <2>1, <2>2
<1>4. /\ job' \in [TxnId -> JobState] /\ job'[t].at = "unlock" /\ job'[t].k = k
      /\ \A u \in TxnId : u # t => job'[u] = job[u]
  BY <1>2, JobAtIs DEF LogWrite, Finishing
<1>5. StepOf(t)
  <2>1. (AllAgreed(t) => AllAgreed(t)') /\ \A h : LoggedTwice(t, h) => LoggedTwice(t, h)'
    BY <1>1 DEF AllAgreed, LoggedTwice
  <2> QED
    BY <1>1, <1>3, <1>4, <2>1, TypesOf DEF StepOf, SameTxn
<1>6. TxnTypeOK'
  BY <1>1, <1>3, <1>4 DEF TxnInv, TxnTypeOK
<1>7. at \notin ended[t]
  <2>1. EndedOver(t)
    BY TypesOf DEF LogsOK
  <2>2. at \in ended[t] => Done(t) = Len(writes[t][l])
    BY <1>1, <1>2, <2>1 DEF EndedOver, IsOver, Done
  <2> QED
    BY <1>2, <2>2
<1>8. LogsOK(t)'
  <2>1. AgreedWrites(t)' /\ WritersCalled(t)' /\ WritesBased(t)'
    <3>1. AgreedWrites(t) /\ WritersCalled(t) /\ WritesBased(t)
      BY TypesOf DEF LogsOK
    <3> QED
      BY <1>1, <3>1 DEF AgreedWrites, WritersCalled, WritesBased, Based, AllAgreed, Called
  <2>2. RoomForCalls(t)'
    BY <1>1, TypesOf DEF LogsOK, RoomForCalls, Asks
  <2>3. EndedOver(t)'
    <3>1. \A n \in ended[t] : n # at /\ n \in 1 .. MaxCalls
      BY <1>7, CallsFit, TypesOf DEF LogsOK, EndedOver
    <3>2. EndedOver(t)
      BY TypesOf DEF LogsOK
    <3> QED
      BY <1>1, <1>3, <3>1, <3>2 DEF EndedOver, Decided, AllAgreed, Refused, IsOver, Released
  <2>4. AppliedFits(t)'
    <3>1. AppliedFits(t)
      BY TypesOf DEF LogsOK
    <3> QED
      BY <1>1, <1>2, <1>3, <3>1, SMTT(30) DEF AppliedFits
  <2> QED
    BY <2>1, <2>2, <2>3, <2>4 DEF LogsOK
<1>9. ReserveOK(t)'
  BY <1>1 DEF ReserveOK
<1>10. OutcomeOK(t)'
  BY <1>1, <1>4, TypesOf DEF OutcomeOK, Ending, Finished, AllAgreed, Refused
<1>11. CallOK(t)'
  <2>1. Peer(t)' = Peer(t) /\ OwnWrites(t)' = OwnWrites(t) /\ Done(t)' = k
    BY <1>1, <1>2, <1>3 DEF Peer, OwnWrites, Done
  <2> QED
    BY <1>1, <1>2, <1>4, <2>1 DEF CallOK, Finishing, OwnWrites
<1>12. HoldsOK(t)'
  <2>1. ASSUME NEW h \in Lambda PROVE Holds(t, h)'
    <3>1. Unapplied(t, h)' => Unapplied(t, h)
      <4> HAVE Unapplied(t, h)'
      <4>1. callees[t][at] # h
        BY <1>1, <1>2, <1>3 DEF Unapplied
      <4>2. \A n \in 1 .. Len(callees[t]) : n \in 1 .. MaxCalls
        BY CallsFit, TypesOf
      <4> QED
        BY <1>1, <1>3, <4>1, <4>2 DEF Unapplied
    <3> QED
      BY <1>1, <1>5, <3>1, HoldsStays DEF Refused
  <2> QED
    BY <1>1, <2>1 DEF HoldsOK
<1> QED
  BY <1>1, <1>5, <1>6, <1>8, <1>9, <1>10, <1>11, <1>12, StepKeeps, TablesStay DEF TxnOK, EndOK

LEMMA UnlockEntryKeeps == ASSUME TxnInv, NEW t \in TxnId, UnlockEntry(t) PROVE TxnInv'
<1>1. /\ front[t].pc \in Ending /\ job[t].at = "unlock" /\ front' = front
      /\ CallOK(t) /\ front[t].at <= Len(callees[t])
      /\ UNCHANGED <<txnLogs, table, faults>>
  BY TypesOf DEF UnlockEntry, Ends, CallOK
<1>2. PICK l \in Lambda, k \in Nat \ {0} :
        /\ l = Peer(t) /\ k = job[t].k /\ front[t].at \in 1 .. Len(callees[t])
        /\ front[t].pc = "commit" => k <= Done(t)
  <2>1. job[t].at = "unlock" /\ front[t].pc = "commit" => job[t].k <= Done(t)
    BY <1>1 DEF CallOK
  <2> QED
    BY <1>1, <2>1, PeerIs, TypesOf
<1>3. /\ owner' \in [Lambda -> TxnId \cup {Nobody}] /\ owner'[l] # t
      /\ \A h \in Lambda : h # l => owner'[h] = owner[h]
      /\ owner'[l] = owner[l] \/ (owner[l] = t /\ owner'[l] = Nobody)
  <2>1. owner \in [Lambda -> TxnId \cup {Nobody}]
    BY DEF TxnInv, TxnTypeOK
  <2>2. owner' = IF owner[l] = t THEN [owner EXCEPT ![l] = Nobody] ELSE owner
    BY <1>2 DEF UnlockEntry
  <2>3. CASE owner[l] = t
    <3>1. owner' = [owner EXCEPT ![l] = Nobody]
      BY <2>2, <2>3
    <3> QED
      BY <2>1, <2>3, <3>1, NobodyAssumption
  <2>4. CASE owner[l] # t
    BY <2>1, <2>2, <2>4
  <2> QED
    BY <2>3, <2>4
<1>4. /\ job' \in [TxnId -> JobState] /\ job'[t].at = "next" /\ job'[t].k = k + 1
      /\ \A u \in TxnId : u # t => job'[u] = job[u]
  <2>1. job \in [TxnId -> JobState] /\ job[t] \in JobState /\ k + 1 \in Nat \ {0}
    BY <1>2 DEF TxnInv, TxnTypeOK
  <2>2. job' = [job EXCEPT ![t].at = "next", ![t].k = k + 1]
    BY <1>2 DEF UnlockEntry
  <2>3. "next" \in {"none", "return"} \cup Asking \cup Finishing
    BY DEF Finishing
  <2> QED
    BY <2>1, <2>2, <2>3 DEF JobState
<1>5. \A u : /\ AllAgreed(u)' = AllAgreed(u) /\ Refused(u)' = Refused(u)
             /\ \A h : LoggedTwice(u, h)' = LoggedTwice(u, h)
             /\ \A h : Unapplied(u, h)' = Unapplied(u, h)
  BY <1>1 DEF txnLogs, AllAgreed, Refused, LoggedTwice, Unapplied
<1>6. StepOf(t)
  BY <1>1, <1>3, <1>4, <1>5, TypesOf DEF txnLogs, StepOf, SameTxn
<1>7. TxnTypeOK'
  BY <1>1, <1>3, <1>4 DEF txnLogs, TxnInv, TxnTypeOK
<1>8. LogsOK(t)'
  <2>1. AgreedWrites(t)' /\ WritersCalled(t)' /\ WritesBased(t)' /\ AppliedFits(t)'
    <3>1. AgreedWrites(t) /\ WritersCalled(t) /\ WritesBased(t) /\ AppliedFits(t)
      BY TypesOf DEF LogsOK
    <3> QED
      BY <1>1, <1>5, <3>1 DEF txnLogs, AgreedWrites, WritersCalled, WritesBased, AppliedFits,
                              Based, Called
  <2>2. RoomForCalls(t)'
    BY <1>1, TypesOf DEF LogsOK, RoomForCalls, txnLogs, Asks, Ending
  <2>3. EndedOver(t)'
    <3>1. EndedOver(t)
      BY TypesOf DEF LogsOK
    <3>2. \A n \in ended[t] : callees[t][n] \in Lambda
      BY <3>1, TypesOf DEF EndedOver
    <3>3. \A h \in Lambda : Released(t, h) => Released(t, h)'
      BY <1>1, <1>3 DEF Released, txnLogs
    <3> QED
      BY <1>1, <1>5, <3>1, <3>2, <3>3 DEF EndedOver, Decided, IsOver, txnLogs
  <2> QED
    BY <2>1, <2>2, <2>3 DEF LogsOK
<1>9. ReserveOK(t)'
  BY <1>1 DEF ReserveOK, Ending
<1>10. OutcomeOK(t)'
  BY <1>1, <1>4, <1>5, TypesOf DEF txnLogs, OutcomeOK, Ending, Finished
<1>11. CallOK(t)'
  <2>1. /\ Peer(t)' = Peer(t) /\ OwnWrites(t)' = OwnWrites(t) /\ Done(t)' = Done(t)
        /\ callees' = callees
    BY <1>1 DEF txnLogs, Peer, OwnWrites, Done
  <2>2. k <= Len(OwnWrites(t))
    BY <1>1, <1>2 DEF CallOK
  <2>3. Len(OwnWrites(t)) \in Nat /\ Done(t) \in Nat
    BY <1>1, PeerIs
  <2> QED
    BY <1>1, <1>2, <1>3, <1>4, <2>1, <2>2, <2>3 DEF CallOK, Finishing
<1>12. HoldsOK(t)'
  <2>1. ASSUME NEW h \in Lambda PROVE Holds(t, h)'
    <3>1. CASE h # l
      BY <1>1, <1>3, <1>5, <1>6, <3>1, HoldsStays DEF txnLogs
    <3>2. CASE h = l /\ front[t].pc = "abort"
      BY <1>5, <3>2, TypesOf DEF Holds, OutcomeOK
    <3>3. CASE h = l /\ front[t].pc = "commit"
      <4>1. Done(t) # 0 /\ callees[t][front[t].at] = l
        BY <1>1, <1>2, <3>3, PeerIs DEF Peer
      <4>2. ~ Unapplied(t, l)
        BY <1>2, <4>1 DEF Unapplied, Done
      <4> QED
        BY <1>5, <3>3, <4>2 DEF Holds
    <3> QED
      BY <1>1, <3>1, <3>2, <3>3 DEF Ending
  <2> QED
    BY <1>1, <2>1 DEF HoldsOK, Ending
<1> QED
  BY <1>1, <1>6, <1>7, <1>8, <1>9, <1>10, <1>11, <1>12, StepKeeps, TablesStay DEF TxnOK, EndOK

LEMMA LogEndedKeeps == ASSUME TxnInv, NEW t \in TxnId, LogEnded(t) PROVE TxnInv'
<1>1. /\ front[t].pc \in Ending /\ job[t].at = "reply" /\ front' = front
      /\ CallOK(t) /\ front[t].at <= Len(callees[t])
      /\ UNCHANGED <<reserved, applied, callees, writes, owner, table, faults>>
  BY TypesOf DEF LogEnded, Ends, CallOK
<1>2. PICK l \in Lambda, k \in Nat \ {0}, at \in 1 .. Len(callees[t]) :
        l = Peer(t) /\ k = job[t].k /\ at = front[t].at /\ callees[t][at] = l
  <2>1. Peer(t) \in Lambda /\ job[t].k \in Nat \ {0} /\ front[t].at \in 1 .. Len(callees[t])
    BY <1>1, PeerIs, TypesOf
  <2> QED
    BY <2>1 DEF Peer
<1>3. /\ k = Len(OwnWrites(t)) + 1 /\ (k > 1 => owner[l] # t)
      /\ front[t].pc = "commit" => k <= Done(t) + 1
  BY <1>1, <1>2 DEF CallOK
<1>4. /\ ended' \in [TxnId -> SUBSET Nat] /\ ended'[t] = ended[t] \cup {at}
      /\ \A u \in TxnId : u # t => ended'[u] = ended[u]
  BY <1>2 DEF LogEnded, TxnInv, TxnTypeOK
<1>5. /\ job' \in [TxnId -> JobState] /\ job'[t].at = "return" /\ job'[t].k = k
      /\ \A u \in TxnId : u # t => job'[u] = job[u]
  BY <1>2, JobAtIs DEF LogEnded
<1>6. \A u : /\ AllAgreed(u)' = AllAgreed(u) /\ Refused(u)' = Refused(u)
             /\ \A h : LoggedTwice(u, h)' = LoggedTwice(u, h)
             /\ \A h : Unapplied(u, h)' = Unapplied(u, h)
  BY <1>1 DEF AllAgreed, Refused, LoggedTwice, Unapplied
<1>7. StepOf(t)
  BY <1>1, <1>4, <1>5, <1>6, TypesOf DEF StepOf, SameTxn
<1>8. TxnTypeOK'
  BY <1>1, <1>4, <1>5 DEF TxnInv, TxnTypeOK
<1>9. Decided(t) /\ IsOver(t, at)
  <2>1. /\ Len(OwnWrites(t)) \in Nat /\ Done(t) \in Nat /\ Done(t) <= Len(OwnWrites(t))
        /\ OwnWrites(t) = writes[t][l]
    BY <1>1, <1>2, PeerIs DEF OwnWrites
  <2>2. Released(t, l)
    <3>1. writes[t][l] # <<>> => Len(OwnWrites(t)) > 0
      BY <1>2, <2>1, TypesOf
    <3> QED
      BY <1>3, <2>1, <3>1 DEF Released
  <2>3. /\ front[t].pc = "commit" => AllAgreed(t)
        /\ front[t].pc = "abort" => Refused(t)
        /\ Refused(t) => ~ AllAgreed(t)
    BY TypesOf DEF OutcomeOK, AllAgreed, Refused
  <2>4. AllAgreed(t) => Done(t) = Len(OwnWrites(t))
    BY <1>1, <1>3, <2>1, <2>3 DEF Ending
  <2> QED
    BY <1>1, <1>2, <2>1, <2>2, <2>3, <2>4 DEF Decided, IsOver, Done, Ending
<1>10. LogsOK(t)'
  <2>1. AgreedWrites(t)' /\ WritersCalled(t)' /\ WritesBased(t)' /\ AppliedFits(t)'
    <3>1. AgreedWrites(t) /\ WritersCalled(t) /\ WritesBased(t) /\ AppliedFits(t)
      BY TypesOf DEF LogsOK
    <3> QED
      BY <1>1, <1>6, <3>1 DEF AgreedWrites, WritersCalled, WritesBased, AppliedFits,
                              Based, Called
  <2>2. RoomForCalls(t)'
    BY <1>1, TypesOf DEF LogsOK, RoomForCalls, Asks, Ending
  <2>3. EndedOver(t)'
    <3>1. EndedOver(t)
      BY TypesOf DEF LogsOK
    <3> QED
      BY <1>1, <1>2, <1>4, <1>6, <1>9, <3>1 DEF EndedOver, Decided, IsOver, Released
  <2> QED
    BY <2>1, <2>2, <2>3 DEF LogsOK
<1>11. ReserveOK(t)'
  BY <1>1 DEF ReserveOK, Ending
<1>12. OutcomeOK(t)'
  BY <1>1, <1>4, <1>5, <1>6, TypesOf DEF OutcomeOK, Ending, Finished
<1>13. CallOK(t)'
  <2>1. Peer(t)' = Peer(t) /\ OwnWrites(t)' = OwnWrites(t) /\ Done(t)' = Done(t)
    BY <1>1 DEF Peer, OwnWrites, Done
  <2> QED
    BY <1>1, <1>2, <1>4, <1>5, <2>1 DEF CallOK
<1>14. HoldsOK(t)'
  <2>1. ASSUME NEW h \in Lambda PROVE Holds(t, h)'
    BY <1>1, <1>6, <1>7, HoldsStays
  <2> QED
    BY <1>1, <2>1 DEF HoldsOK, Ending
<1> QED
  BY <1>1, <1>7, <1>8, <1>10, <1>11, <1>12, <1>13, <1>14, StepKeeps, TablesStay DEF TxnOK, EndOK

-----------------------------------------------------------------------------
(***************************************************************************)
(* The invariant holds in every state that the program reaches.            *)
(***************************************************************************)
LEMMA InitHolds == TxnInit => TxnInv
<1> SUFFICES ASSUME TxnInit PROVE TxnInv
  OBVIOUS
<1>1. TxnTypeOK
  <2>1. \A t \in TxnId : reserved[t] \in [1 .. 0 -> BOOLEAN]
    <3>1. 1 .. 0 = {}
      OBVIOUS
    <3> QED
      BY <3>1 DEF TxnInit
  <2>2. NewFront \in FrontState /\ NoJob \in JobState
    BY DEF NewFront, FrontState, NoJob, JobState
  <2>3. 0 \in 0 .. Len(Participants) /\ 0 \in 0 .. MaxFaults
    BY ParticipantsAreLambda, MaxFaultsAssumption
  <2>4. /\ front \in [TxnId -> FrontState] /\ job \in [TxnId -> JobState]
        /\ DOMAIN reserved = TxnId /\ ended \in [TxnId -> SUBSET Nat]
        /\ applied \in [TxnId -> [1 .. MaxCalls -> Nat]]
        /\ callees \in [TxnId -> Seq(Lambda)]
        /\ writes \in [TxnId -> [Lambda -> Seq(SUBSET TxnId)]]
        /\ owner \in [Lambda -> TxnId \cup {Nobody}]
        /\ table \in [Lambda -> SUBSET TxnId]
    BY <2>2 DEF TxnInit
  <2> QED
    BY <2>1, <2>3, <2>4 DEF TxnTypeOK, TxnInit
<1>2. TablesOK
  BY DEF TxnInit, TablesOK
<1>3. ASSUME NEW t \in TxnId PROVE TxnOK(t)
  <2>1. /\ front[t] = NewFront /\ job[t] = NoJob /\ DOMAIN reserved[t] = {} /\ ended[t] = {}
        /\ applied[t] = [n \in 1 .. MaxCalls |-> 0] /\ callees[t] = <<>>
        /\ writes[t] = [l \in Lambda |-> <<>>] /\ faults = 0
    BY DEF TxnInit
  <2>2. LogsOK(t)
    <3>1. AgreedWrites(t) /\ WritersCalled(t) /\ WritesBased(t) /\ EndedOver(t)
      BY <2>1 DEF AgreedWrites, WritersCalled, WritesBased, EndedOver
    <3>2. RoomForCalls(t) /\ AppliedFits(t)
      BY <2>1 DEF RoomForCalls, AppliedFits
    <3> QED
      BY <3>1, <3>2 DEF LogsOK
  <2>3. ReserveOK(t) /\ EndOK(t)
    <3>1. /\ front[t].pc = "idle" /\ front[t].instruction = "" /\ job[t].at = "none"
          /\ job[t].k = 1
      <4>1. front[t] = NewFront /\ job[t] = NoJob
        BY DEF TxnInit
      <4>2. NewFront.pc = "idle" /\ NewFront.instruction = ""
        BY DEF NewFront
      <4>3. NoJob.at = "none" /\ NoJob.k = 1
        BY DEF NoJob
      <4> QED
        BY <4>1, <4>2, <4>3
    <3> QED
      BY <3>1 DEF ReserveOK, EndOK, OutcomeOK, Ending, Finished
  <2>4. HoldsOK(t)
    <3>1. front[t].pc # "reserve" /\ \A l \in Lambda : writes[t][l] = <<>>
      <4>1. front[t] = NewFront /\ writes[t] = [l \in Lambda |-> <<>>]
        BY DEF TxnInit
      <4>2. NewFront.pc = "idle"
        BY DEF NewFront
      <4> QED
        BY <4>1, <4>2
    <3> QED
      BY <3>1 DEF HoldsOK, Holds
  <2> QED
    BY <2>2, <2>3, <2>4 DEF TxnOK
<1> QED
  BY <1>1, <1>2, <1>3 DEF TxnInv

LEMMA NextKeeps == TxnInv /\ [TxnNext]_txnVars => TxnInv'
<1> SUFFICES ASSUME TxnInv, [TxnNext]_txnVars PROVE TxnInv'
  OBVIOUS
<1>1. CASE TxnNext
  <2>1. PICK t \in TxnId : TxnStep(t) \/ CalleeDies(t) \/ FrontendDies(t)
    BY <1>1 DEF TxnNext
  <2>2. CASE BeginTxn(t) \/ SeenReserve(t) \/ InvokeReserve(t) \/ ReturnReserved(t)
    BY <2>2, BeginKeeps, SeenReserveKeeps, InvokeReserveKeeps, ReturnReservedKeeps
  <2>3. CASE LockToRead(t) \/ ReadLocked(t) \/ TPLWrite(t) \/ LogReserved(t)
    BY <2>3, LockToReadKeeps, ReadLockedKeeps, TPLWriteKeeps, LogReservedKeeps
  <2>4. CASE SeenEnd(t) \/ InvokeEnd(t) \/ InvokeEndWithExit(t) \/ EndTxn(t) \/ ReturnEnded(t)
    BY <2>4, SeenEndKeeps, InvokeEndKeeps, InvokeEndWithExitKeeps, EndTxnKeeps, ReturnEndedKeeps
  <2>5. CASE NextEntry(t) \/ ApplyWrite(t) \/ LogWrite(t) \/ UnlockEntry(t) \/ LogEnded(t)
    BY <2>5, NextEntryKeeps, ApplyWriteKeeps, LogWriteKeeps, UnlockEntryKeeps, LogEndedKeeps
  <2>6. CASE CalleeDies(t) \/ FrontendDies(t)
    BY <2>6, CalleeDiesKeeps, FrontendDiesKeeps
  <2> QED
    BY <2>1, <2>2, <2>3, <2>4, <2>5, <2>6 DEF TxnStep
<1>2. CASE UNCHANGED txnVars
  <2>1. TxnTypeOK'
    BY <1>2 DEF txnVars, TxnInv, TxnTypeOK
  <2>2. \A u \in TxnId : (AllAgreed(u) <=> AllAgreed(u)') /\ \A l : LoggedTwice(u, l) <=> LoggedTwice(u, l)'
    BY <1>2 DEF txnVars, AllAgreed, LoggedTwice
  <2>3. TablesOK'
    BY <1>2 DEF txnVars, TxnInv, TablesOK, AllAgreed
  <2>4. ASSUME NEW t \in TxnId PROVE TxnOK(t)'
    <3>1. LogsOK(t)'
      BY <1>2, <2>4 DEF txnVars, TxnInv, TxnOK, LogsOK, AgreedWrites, WritersCalled, WritesBased,
           RoomForCalls, EndedOver, AppliedFits, Based, AllAgreed, Called, Asks, Decided, Refused,
           IsOver, Released
    <3>2. ReserveOK(t)' /\ EndOK(t)'
      BY <1>2, <2>4 DEF txnVars, TxnInv, TxnOK, ReserveOK, EndOK, OutcomeOK, CallOK, Called, Here,
           AllAgreed, Refused, Finished, Peer, OwnWrites, Done
    <3>3. HoldsOK(t)'
      BY <1>2, <2>4 DEF txnVars, TxnInv, TxnOK, HoldsOK, Holds, Covers, LoggedTwice, Unapplied,
           Refused, Based, AllAgreed, Here
    <3> QED
      BY <3>1, <3>2, <3>3 DEF TxnOK
  <2> QED
    BY <2>1, <2>3, <2>4 DEF TxnInv
<1> QED
  BY <1>1, <1>2

(***************************************************************************)
(* The inductive invariant of transactions holds in every reachable state, *)
(* for any participants, reservations and deaths: the logs of a            *)
(* transaction agree, what is applied was agreed by all, and a lock is     *)
(* held from the read (TPLRead) to the first application of the write      *)
(* (TPLCommit).                                                            *)
(***************************************************************************)
THEOREM TxnInvHolds == TxnSpec => []TxnInv
BY InitHolds, NextKeeps, PTL DEF TxnSpec

-----------------------------------------------------------------------------
(***************************************************************************)
(* What follows from it.                                                   *)
(***************************************************************************)
LEMMA InvCommitsAll == TxnInv => AtomicCommit
<1> SUFFICES ASSUME TxnInv, NEW t \in TxnId
             PROVE  /\ (\E l \in Lambda : t \in table[l]) => AllAgreed(t)
                    /\ front[t].pc = "placed" /\ ~ front[t].lost =>
                         \A l \in Lambda : CommittedAt(t, l)
  BY DEF AtomicCommit
<1>1. (\E l \in Lambda : t \in table[l]) => AllAgreed(t)
  BY DEF TxnInv, TablesOK
<1>2. ASSUME front[t].pc = "placed", ~ front[t].lost, NEW l \in Lambda
      PROVE  CommittedAt(t, l)
  <2>1. AllAgreed(t) /\ \A n \in 1 .. Len(callees[t]) : n \in ended[t]
    BY <1>2, TypesOf DEF OutcomeOK, Finished
  <2>2. PICK m \in 1 .. Len(Participants) : Participants[m] = l
    BY DEF Lambda
  <2>3. writes[t][l] # <<>>
    BY <2>1, <2>2, TypesOf DEF LogsOK, AgreedWrites, AllAgreed
  <2>4. PICK n \in 1 .. Len(callees[t]) : callees[t][n] = l
    BY <2>3, TypesOf DEF LogsOK, WritersCalled, Called
  <2>5. applied[t][n] = Len(writes[t][l])
    BY <2>1, <2>4, TypesOf DEF LogsOK, EndedOver, IsOver
  <2>6. Len(writes[t][l]) > 0
    BY <2>3, TypesOf
  <2> QED
    BY <2>4, <2>5, <2>6 DEF CommittedAt
<1> QED
  BY <1>1, <1>2

LEMMA InvReleases == TxnInv => LocksReleased
<1> SUFFICES ASSUME TxnInv, NEW t \in TxnId, Finished(t), ~ front[t].lost,
                    NEW l \in Lambda, writes[t][l] # <<>>
             PROVE  owner[l] # t
  BY DEF LocksReleased
<1>1. PICK n \in 1 .. Len(callees[t]) : callees[t][n] = l
  BY TypesOf DEF LogsOK, WritersCalled, Called
<1>2. n \in ended[t]
  BY TypesOf DEF OutcomeOK
<1> QED
  BY <1>1, <1>2, TypesOf DEF LogsOK, EndedOver, IsOver, Released

LEMMA StepLosesNothing ==
  ASSUME TxnInv, [TxnNext]_txnVars, NEW l \in Lambda
  PROVE  \/ table[l] \subseteq table'[l]
         \/ \E t \in table[l] \cup table'[l] : LoggedTwice(t, l)
<1>1. CASE table' = table
  BY <1>1
<1>2. ASSUME NEW t \in TxnId, ApplyWrite(t)
      PROVE  \/ table[l] \subseteq table'[l]
             \/ \E w \in table[l] \cup table'[l] : LoggedTwice(w, l)
  <2>1. /\ front[t].pc = "commit" /\ job[t].at = "apply" /\ CallOK(t) /\ AllAgreed(t)
        /\ front[t].at <= Len(callees[t])
    BY <1>2, TypesOf DEF ApplyWrite, Ends, CallOK, OutcomeOK
  <2>2. job[t].k <= Len(OwnWrites(t)) /\ Done(t) = job[t].k - 1 /\ job[t].k \in Nat \ {0}
    BY <2>1, TypesOf DEF CallOK
  <2>3. /\ Peer(t) \in Lambda /\ Len(OwnWrites(t)) \in Nat
        /\ front[t].at \in 1 .. Len(callees[t])
    BY <2>1, PeerIs, TypesOf
  <2>4. table' = [table EXCEPT ![Peer(t)] = OwnWrites(t)[job[t].k]]
    BY <1>2 DEF ApplyWrite
  <2>5. CASE l # Peer(t)
    BY <2>4, <2>5 DEF TxnInv, TxnTypeOK
  <2>6. CASE l = Peer(t)
    <3>1. table'[l] = writes[t][l][job[t].k] /\ Len(writes[t][l]) \in Nat
          /\ job[t].k \in 1 .. Len(writes[t][l])
      BY <2>2, <2>3, <2>4, <2>6 DEF TxnInv, TxnTypeOK, OwnWrites
    <3>2. CASE LoggedTwice(t, l)
      BY <3>1, <3>2, TypesOf DEF LogsOK, WritesBased, Based
    <3>3. CASE ~ LoggedTwice(t, l)
      <4>1. job[t].k = 1 /\ writes[t][l] # <<>>
        BY <3>1, <3>3 DEF LoggedTwice
      <4>2. Unapplied(t, l)
        BY <2>2, <2>3, <2>6, <3>3, <4>1 DEF LoggedTwice, Unapplied, Done, Peer
      <4>3. ~ Refused(t)
        BY <2>1 DEF AllAgreed, Refused
      <4> QED
        BY <3>1, <3>3, <4>1, <4>2, <4>3, TypesOf DEF HoldsOK, Holds, Covers
    <3> QED
      BY <3>2, <3>3
  <2> QED
    BY <2>5, <2>6
<1>3. table' = table \/ \E t \in TxnId : ApplyWrite(t)
  BY ZenonT(40) DEF TxnNext, TxnStep, txnVars, BeginTxn, SeenReserve, InvokeReserve, LockToRead, ReadLocked,
         TPLWrite, LogReserved, ReturnReserved, SeenEnd, InvokeEnd, InvokeEndWithExit, EndTxn,
         NextEntry, LogWrite, UnlockEntry, LogEnded, ReturnEnded, CalleeDies, FrontendDies
<1> QED
  BY <1>1, <1>2, <1>3

(***************************************************************************)
(* A write of a transaction is in a table only when every participant has  *)
(* agreed to the reservation (CommitTxn is called only then), and a        *)
(* frontend that answers success, and was not told EXIT meanwhile, has had *)
(* it applied by all of them (TPLCommit, CommitTxn).                       *)
(***************************************************************************)
THEOREM CommitIsAtomic == TxnSpec => []AtomicCommit
BY TxnInvHolds, InvCommitsAll, PTL

(***************************************************************************)
(* A transaction that has ended, committed or aborted, and whose frontend  *)
(* was not told EXIT meanwhile, holds no lock under which it has written   *)
(* (Unlock in TPLCommit and TPLAbort, for every entry of the log).         *)
(***************************************************************************)
THEOREM LocksAreReleased == TxnSpec => []LocksReleased
BY TxnInvHolds, InvReleases, PTL

(***************************************************************************)
(* A committed write is based on all that was committed to its key before: *)
(* nobody commits between TPLRead and TPLCommit.  The exception: the log   *)
(* of one of the two transactions names the call or the write twice,       *)
(* because its execution died after the entry and was repeated; then       *)
(* TPLCommit applies again after it has unlocked.                          *)
(***************************************************************************)
THEOREM NoUpdateIsLost == TxnSpec => NoLostUpdate
<1>1. TxnInv /\ [TxnNext]_txnVars =>
        [\A l \in Lambda :
           \/ table[l] \subseteq table'[l]
           \/ \E t \in table[l] \cup table'[l] : LoggedTwice(t, l)]_txnVars
  BY StepLosesNothing
<1> QED
  BY <1>1, TxnInvHolds, PTL DEF TxnSpec, NoLostUpdate
=============================================================================
