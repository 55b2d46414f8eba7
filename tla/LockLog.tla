------------------------------- MODULE LockLog -------------------------------
(***************************************************************************)
(* The transaction locks of the Halfmoon client library:                   *)
(* src/workloads/workflow/optimal/pkg/cayonlib/twopl.go, lines 14 to 150.  *)
(*                                                                         *)
(* The state of a lock is nowhere but in its stream of the shared log.     *)
(* Every process replays the stream into a LockFsm of its own; an entry    *)
(* takes effect if it is the first that carries the next step number, and  *)
(* the others are dead.  Appends are unconditional: the losers of a race   *)
(* find out by replaying.  The processes of one node (one function         *)
(* container) share a cache of replayed LockFsms, which dies with it.      *)
(*                                                                         *)
(* A PROCESS is one execution of a function on behalf of a transaction.    *)
(* Several of them may carry the same transaction: the functions that the  *)
(* transaction calls, and repeated executions of one of them.              *)
(***************************************************************************)
EXTENDS Naturals, Sequences

CONSTANTS
  LockId,   \* table and key
  Process,  \* executions of functions
  Node,     \* function containers
  NodeOf,   \* the container a process runs in
  Txn,      \* transaction ids
  TxnOf,    \* the transaction of a process
  NoTxn,    \* the empty holder ""
  MaxSeq    \* bound on the length of the shared log

ASSUME NodeOfAssumption == NodeOf \in [Process -> Node]
ASSUME TxnOfAssumption == TxnOf \in [Process -> Txn]
ASSUME NoTxnAssumption == NoTxn \notin Txn
ASSUME MaxSeqAssumption == MaxSeq \in Nat

VARIABLES
  logTail,  \* the last sequence number the shared log issued
  stream,   \* stream[l]: the entries tagged LockStreamTag(l)
  lockFsms, \* lockFsms[n][l]: the cache of node n
  pc,       \* where each process is in Lock or Unlock
  arg,      \* the lock it is called for
  fsm,      \* its copy of the LockFsm
  mine,     \* the sequence number of the entry Lock appended
  cursor,   \* env.SeqNum of the process
  has       \* the locks a process was told it has and has not given up

vars == <<logTail, stream, lockFsms, pc, arg, fsm, mine, cursor, has>>

LockLogEntry ==
  [seqNum : Nat, step : Nat, unlockOp : BOOLEAN, holder : Txn \cup {NoTxn}]

\* A nil tail: the code treats it like the tail of a lock that was unlocked.
NilTail == [seqNum |-> 0, step |-> 0, unlockOp |-> TRUE, holder |-> NoTxn]

NewLockFsm == [tailSeqNum |-> 0, stepNumber |-> 0, tail |-> NilTail]

\* holder
Holder(f) == IF f.tail.unlockOp THEN NoTxn ELSE f.tail.holder

\* The two panics of catch: an operation that the lock's state does not allow.
Invalid(f, entry) ==
  IF entry.unlockOp THEN f.tail.unlockOp \/ f.tail.holder # entry.holder
                    ELSE ~ f.tail.unlockOp

\* Mutant: a dead entry replaces the tail.
Apply_LastWins(f, entry) ==
  [tailSeqNum |-> entry.seqNum + 1,
   stepNumber |-> IF entry.step = f.stepNumber THEN f.stepNumber + 1 ELSE f.stepNumber,
   tail       |-> entry]

\* catch: one entry of the stream.
Apply(f, entry) ==
  IF entry.step = f.stepNumber
  THEN [tailSeqNum |-> entry.seqNum + 1, stepNumber |-> f.stepNumber + 1, tail |-> entry]
  ELSE [f EXCEPT !.tailSeqNum = entry.seqNum + 1]

Panics(f, entry) == entry.step = f.stepNumber /\ Invalid(f, entry)

\* SharedLogReadNext(tag, seq): the first position of s at or after seq.
IsNext(s, seq, k) ==
  /\ k \in 1 .. Len(s)
  /\ s[k].seqNum >= seq
  /\ \A j \in 1 .. k - 1 : s[j].seqNum < seq

\* SharedLogReadNext returns nil: no entry is left to read.
CaughtUp(f, s) == \A k \in 1 .. Len(s) : s[k].seqNum < f.tailSeqNum

-----------------------------------------------------------------------------
Init ==
  /\ logTail = 0
  /\ stream = [l \in LockId |-> <<>>]
  /\ lockFsms = [n \in Node |-> [l \in LockId |-> NewLockFsm]]
  /\ pc = [p \in Process |-> "idle"]
  /\ arg \in [Process -> LockId]
  /\ fsm = [p \in Process |-> NewLockFsm]
  /\ mine = [p \in Process |-> 0]
  /\ cursor = [p \in Process |-> 0]
  /\ has = [p \in Process |-> {}]

\* getOrCreateLockFsm: a copy of the cached LockFsm, or a new one.
Enter(p, l, at) ==
  /\ pc[p] = "idle"
  /\ pc' = [pc EXCEPT ![p] = at]
  /\ arg' = [arg EXCEPT ![p] = l]
  /\ fsm' = [fsm EXCEPT ![p] = lockFsms[NodeOf[p]][l]]
  /\ UNCHANGED <<logTail, stream, lockFsms, mine, cursor>>

Lock(p, l) == Enter(p, l, "lock") /\ UNCHANGED has

Unlock(p, l) == Enter(p, l, "unlock") /\ has' = [has EXCEPT ![p] = @ \ {l}]

\* One round of catch.
CatchNext(p) ==
  LET s == stream[arg[p]]
  IN  /\ pc[p] \in {"lock", "confirm", "unlock"}
      /\ \E k \in 1 .. Len(s) :
           /\ IsNext(s, fsm[p].tailSeqNum, k)
           /\ fsm' = [fsm EXCEPT ![p] = Apply(@, s[k])]
           /\ pc' = [pc EXCEPT ![p] = IF Panics(fsm[p], s[k]) THEN "panic" ELSE @]
      /\ UNCHANGED <<logTail, stream, lockFsms, arg, mine, cursor, has>>

\* storeBackLockFsm: the cache keeps the copy that has read further.
StoreBack(p) ==
  LET n == NodeOf[p]
      l == arg[p]
  IN  lockFsms' = [lockFsms EXCEPT ![n][l] =
                     IF @.tailSeqNum < fsm[p].tailSeqNum THEN fsm[p] ELSE @]

\* The call returns and its copy is gone; granted tells a process that locks whether it succeeded.
Return(p, granted) ==
  /\ StoreBack(p)
  /\ pc' = [pc EXCEPT ![p] = "idle"]
  /\ has' = IF granted THEN [has EXCEPT ![p] = @ \cup {arg[p]}] ELSE has
  /\ fsm' = [fsm EXCEPT ![p] = NewLockFsm]
  /\ mine' = [mine EXCEPT ![p] = 0]
  /\ UNCHANGED arg

Caught(p, at) == pc[p] = at /\ CaughtUp(fsm[p], stream[arg[p]])

\* Mutant: any holder will do.
LockTaken_AnyHolder(p) ==
  /\ Caught(p, "lock")
  /\ Holder(fsm[p]) # NoTxn
  /\ Return(p, TRUE)
  /\ UNCHANGED <<logTail, stream, cursor>>

\* The lock has a holder: another transaction, or already this one.
LockTaken(p) ==
  /\ Caught(p, "lock")
  /\ Holder(fsm[p]) # NoTxn
  /\ Return(p, Holder(fsm[p]) = TxnOf[p])
  /\ UNCHANGED <<logTail, stream, cursor>>

\* Mutant: Lock appends whoever holds the lock.
LockFree_Unchecked(p) ==
  /\ Caught(p, "lock")
  /\ pc' = [pc EXCEPT ![p] = "append"]
  /\ UNCHANGED <<logTail, stream, lockFsms, arg, fsm, mine, cursor, has>>

LockFree(p) ==
  /\ Caught(p, "lock")
  /\ Holder(fsm[p]) = NoTxn
  /\ pc' = [pc EXCEPT ![p] = "append"]
  /\ UNCHANGED <<logTail, stream, lockFsms, arg, fsm, mine, cursor, has>>

\* LibAppendLog: unconditional.
AppendEntry(p, unlockOp) ==
  /\ logTail < MaxSeq
  /\ logTail' = logTail + 1
  /\ stream' = [stream EXCEPT ![arg[p]] =
                  Append(@, [seqNum |-> logTail + 1, step |-> fsm[p].stepNumber,
                             unlockOp |-> unlockOp, holder |-> TxnOf[p]])]

AppendLock(p) ==
  /\ pc[p] = "append"
  /\ AppendEntry(p, FALSE)
  /\ mine' = [mine EXCEPT ![p] = logTail + 1]
  /\ pc' = [pc EXCEPT ![p] = "confirm"]
  /\ UNCHANGED <<lockFsms, arg, fsm, cursor, has>>

\* Mutant: the append is taken for the lock.
Confirm_Unchecked(p) ==
  /\ Caught(p, "confirm")
  /\ Return(p, TRUE)
  /\ cursor' = [cursor EXCEPT ![p] = mine[p]]
  /\ UNCHANGED <<logTail, stream>>

\* The second catch of Lock is over: who got the lock?
Confirm(p) ==
  LET granted == Holder(fsm[p]) = TxnOf[p]
  IN  /\ Caught(p, "confirm")
      /\ Return(p, granted)
      /\ cursor' = IF granted THEN [cursor EXCEPT ![p] = mine[p]] ELSE cursor
      /\ UNCHANGED <<logTail, stream>>

\* Unlock of a lock that this transaction does not hold only warns.
UnlockForeign(p) ==
  /\ Caught(p, "unlock")
  /\ Holder(fsm[p]) # TxnOf[p]
  /\ Return(p, FALSE)
  /\ UNCHANGED <<logTail, stream, cursor>>

UnlockOwn(p) ==
  /\ Caught(p, "unlock")
  /\ Holder(fsm[p]) = TxnOf[p]
  /\ pc' = [pc EXCEPT ![p] = "release"]
  /\ UNCHANGED <<logTail, stream, lockFsms, arg, fsm, mine, cursor, has>>

\* The unlock entry is not replayed before the LockFsm is stored back.
AppendUnlock(p) ==
  /\ pc[p] = "release"
  /\ AppendEntry(p, TRUE)
  /\ cursor' = [cursor EXCEPT ![p] = logTail + 1]
  /\ Return(p, FALSE)

\* A container dies with its cache and its processes; they are run again.
Crash(n) ==
  LET dead(p) == NodeOf[p] = n
  IN  /\ lockFsms' = [lockFsms EXCEPT ![n] = [l \in LockId |-> NewLockFsm]]
      /\ pc' = [p \in Process |-> IF dead(p) THEN "idle" ELSE pc[p]]
      /\ has' = [p \in Process |-> IF dead(p) THEN {} ELSE has[p]]
      /\ cursor' = [p \in Process |-> IF dead(p) THEN 0 ELSE cursor[p]]
      /\ fsm' = [p \in Process |-> IF dead(p) THEN NewLockFsm ELSE fsm[p]]
      /\ mine' = [p \in Process |-> IF dead(p) THEN 0 ELSE mine[p]]
      /\ UNCHANGED <<logTail, stream, arg>>

Step(p) ==
  \/ \E l \in LockId : Lock(p, l) \/ Unlock(p, l)
  \/ CatchNext(p)
  \/ LockTaken(p) \/ LockFree(p) \/ AppendLock(p) \/ Confirm(p)
  \/ UnlockForeign(p) \/ UnlockOwn(p) \/ AppendUnlock(p)

Next == (\E p \in Process : Step(p)) \/ (\E n \in Node : Crash(n))

Spec == Init /\ [][Next]_vars
-----------------------------------------------------------------------------
\* Position k of s is the first with its step: the entry that took effect.
First(s, k) == \A j \in 1 .. k - 1 : s[j].step # s[k].step

\* Position k of s holds the last operation that took effect.
Latest(s, k) ==
  /\ k \in 1 .. Len(s)
  /\ First(s, k)
  /\ \A j \in 1 .. Len(s) : s[j].step <= s[k].step

\* The transaction that owns the lock with stream s.
HeldBy(s, t) == \E k \in 1 .. Len(s) : Latest(s, k) /\ ~ s[k].unlockOp /\ s[k].holder = t

TypeOK ==
  /\ logTail \in Nat
  /\ stream \in [LockId -> Seq(LockLogEntry)]
  /\ lockFsms \in [Node -> [LockId -> [tailSeqNum : Nat, stepNumber : Nat, tail : LockLogEntry]]]
  /\ pc \in [Process -> {"idle", "lock", "append", "confirm", "unlock", "release", "panic"}]
  /\ arg \in [Process -> LockId]
  /\ fsm \in [Process -> [tailSeqNum : Nat, stepNumber : Nat, tail : LockLogEntry]]
  /\ mine \in [Process -> Nat]
  /\ cursor \in [Process -> Nat]
  /\ has \in [Process -> SUBSET LockId]

(***************************************************************************)
(* The "Invalid Lock op" and "Invalid Unlock op" panics of catch are never *)
(* reached, although appends are unconditional and copies may be stale: an *)
(* operation that is not allowed in the state it meets is always dead.     *)
(***************************************************************************)
NoInvalidOp == \A p \in Process : pc[p] # "panic"

(***************************************************************************)
(* A process that was told it has a lock, and has not unlocked it, has it  *)
(* in the log, as long as no other process carries its transaction.        *)
(***************************************************************************)
Alone(p) == \A q \in Process : TxnOf[q] = TxnOf[p] => q = p

GrantedIsHeld ==
  \A p \in Process : Alone(p) => \A l \in has[p] : HeldBy(stream[l], TxnOf[p])

(***************************************************************************)
(* Two replicas of a lock that have applied equally many operations agree  *)
(* on its state, wherever they are: in a process or in a node's cache.     *)
(***************************************************************************)
Replicas(l) ==
  {lockFsms[n][l] : n \in Node}
    \cup {fsm[p] : p \in {q \in Process : arg[q] = l /\ pc[q] # "idle"}}

ReplicasAgree ==
  \A l \in LockId : \A f, g \in Replicas(l) :
    f.stepNumber = g.stepNumber => f.tail = g.tail

(***************************************************************************)
(* The inductive invariant.  Every entry of a stream was allowed by the    *)
(* entry that took effect at the step before its own ...                   *)
(***************************************************************************)
EntryOK(s, k, n) ==
  /\ s[k].seqNum \in 1 .. n
  /\ s[k].holder \in Txn
  /\ \A j \in 1 .. k - 1 : s[j].seqNum < s[k].seqNum
  /\ s[k].step = 0 => ~ s[k].unlockOp
  /\ s[k].step > 0 => \E j \in 1 .. k - 1 :
       /\ First(s, j)
       /\ s[j].step + 1 = s[k].step
       /\ s[j].unlockOp = ~ s[k].unlockOp
       /\ s[k].unlockOp => s[j].holder = s[k].holder

LogOK(s, n) == \A k \in 1 .. Len(s) : EntryOK(s, k, n)

\* ... a LockFsm has applied what took effect in the part it has read ...
FsmOK(f, s, n) ==
  /\ f.tailSeqNum <= n + 1
  /\ \A k \in 1 .. Len(s) : s[k].seqNum < f.tailSeqNum => s[k].step < f.stepNumber
  /\ f.stepNumber = 0 => f.tail = NilTail
  /\ f.stepNumber > 0 => \E k \in 1 .. Len(s) :
       /\ First(s, k)
       /\ s[k].step + 1 = f.stepNumber
       /\ f.tail = s[k]

\* ... and a process appends only what its own copy allows.
ProcOK(p) ==
  /\ FsmOK(fsm[p], stream[arg[p]], logTail)
  /\ pc[p] # "panic"
  /\ pc[p] = "append" => Holder(fsm[p]) = NoTxn
  /\ pc[p] = "release" => Holder(fsm[p]) = TxnOf[p]
  /\ pc[p] \in {"unlock", "release"} => arg[p] \notin has[p]

LockInv ==
  /\ TypeOK
  /\ \A l \in LockId : LogOK(stream[l], logTail)
  /\ \A n \in Node, l \in LockId : FsmOK(lockFsms[n][l], stream[l], logTail)
  /\ \A p \in Process : ProcOK(p)
  /\ GrantedIsHeld

(***************************************************************************)
(* The log-backed locks implement the lock service.                        *)
(***************************************************************************)
Owner(s) ==
  IF \E t \in Txn : HeldBy(s, t) THEN CHOOSE t \in Txn : HeldBy(s, t) ELSE NoTxn

Service == INSTANCE LockService WITH
  owner <- [l \in LockId |-> Owner(stream[l])]

ImplementsLockService == Service!Spec
=============================================================================
