---------------------------------- MODULE Txn ----------------------------------
(***************************************************************************)
(* Distributed transactions of the Halfmoon client library: BeginTxn,      *)
(* TPLRead, TPLWrite, CommitTxn and AbortTxn of                            *)
(* src/workloads/workflow/optimal/pkg/cayonlib/twopl.go, TPLCommit and     *)
(* TPLAbort of controlflow.go, driven the way the hotel reservation in     *)
(* src/workloads/workflow/optimal/internal/hotel/main drives them: a       *)
(* frontend calls one function per participant in the transaction, and     *)
(* ends it everywhere once all agreed or one did not.                      *)
(*                                                                         *)
(* A participant locks its key, reads it, and keeps the write it wants in  *)
(* the transaction log until the end.  The steps of the frontend are       *)
(* logged (Invoke), the locks are those of LockService, and what an        *)
(* operation logs survives; a process that dies is run again and repeats   *)
(* what was not logged.  A value is the set of the transactions it is      *)
(* based on, so that a lost update is a value that forgets one.            *)
(* (The reservation writes back the V.Cap that it read; what matters here  *)
(* is which write a write came after.)                                     *)
(*                                                                         *)
(* Left aside: executions of one frontend that race (IntentLog), a callee  *)
(* that goes on after its caller died, the panic of a caller that is       *)
(* executed again after a result was logged (NoHashCollision in Invoke),   *)
(* and the AsyncInvoke after the commit.                                   *)
(***************************************************************************)
EXTENDS Naturals, Sequences

CONSTANTS
  TxnId,         \* one transaction per instance of the frontend
  Participants,  \* the functions the frontend calls, in order
  MaxFaults      \* bound on the processes that die

Lambda == {Participants[n] : n \in 1 .. Len(Participants)}
Nobody == "nobody"

ASSUME ParticipantsAssumption == Participants \in Seq(Lambda) /\ Len(Participants) > 0
ASSUME MaxFaultsAssumption == MaxFaults \in Nat
ASSUME NobodyAssumption == Nobody \notin TxnId

VARIABLES
  front,    \* front[t]: where the frontend of t is, and its Env
  job,      \* job[t]: the call of a participant that t waits for
  reserved, \* reserved[t]: the InvokeResult of each call of the first phase
  ended,    \* ended[t]: the calls of the second phase that have an InvokeResult
  applied,  \* applied[t][n]: the writes that the n-th of them has logged
  callees,  \* callees[t]: the transaction log of the frontend
  writes,   \* writes[t][l]: the transaction log of participant l
  owner,    \* owner[l]: who holds the lock of the key of l
  table,    \* table[l]: the value of the key
  faults    \* processes that died so far

txnVars == <<front, job, reserved, ended, applied, callees, writes, owner, table, faults>>
txnLogs == <<reserved, ended, applied, callees, writes>>

\* at: the call it is at.  lost: env.Instruction has been EXIT in this execution.
NewFront == [pc |-> "idle", at |-> 1, instruction |-> "", lost |-> FALSE]

NoJob == [at |-> "none", ok |-> FALSE, val |-> {}, k |-> 1]

\* Calls of the second phase: one for each callee in the log of the frontend.
MaxCalls == Len(Participants) + MaxFaults

TxnInit ==
  /\ front = [t \in TxnId |-> NewFront]
  /\ job = [t \in TxnId |-> NoJob]
  /\ reserved = [t \in TxnId |-> [n \in {} |-> FALSE]]
  /\ ended = [t \in TxnId |-> {}]
  /\ applied = [t \in TxnId |-> [n \in 1 .. MaxCalls |-> 0]]
  /\ callees = [t \in TxnId |-> <<>>]
  /\ writes = [t \in TxnId |-> [l \in Lambda |-> <<>>]]
  /\ owner = [l \in Lambda |-> Nobody]
  /\ table = [l \in Lambda |-> {}]
  /\ faults = 0

-----------------------------------------------------------------------------
(***************************************************************************)
(* The first phase: the frontend calls the participants with EXECUTE.      *)
(***************************************************************************)
FrontAt(t, phases) == front[t].pc \in phases /\ job[t].at = "none"

\* BeginTxn: the transaction id is the instance id, so a re-execution resumes it.
BeginTxn(t) ==
  /\ front[t].pc \in {"idle", "exit"}
  /\ front' = [front EXCEPT ![t] =
                 [NewFront EXCEPT !.pc = "reserve", !.instruction = "EXECUTE"]]
  /\ UNCHANGED <<job, txnLogs, owner, table, faults>>

\* SendRequest of the frontend: what it does with the answer of a participant.
Decide(t, ok) ==
  IF ok /\ front[t].at < Len(Participants)
  THEN front' = [front EXCEPT ![t].at = @ + 1]
  ELSE front' = [front EXCEPT ![t].pc = IF ok THEN "commit" ELSE "abort",
                              ![t].instruction = IF ok THEN "COMMIT" ELSE "ABORT",
                              ![t].at = 1]

\* SyncInvoke, the result is in the log: no call.
SeenReserve(t) ==
  /\ FrontAt(t, {"reserve"})
  /\ front[t].at \in DOMAIN reserved[t]
  /\ Decide(t, reserved[t][front[t].at])
  /\ UNCHANGED <<job, txnLogs, owner, table, faults>>

\* SyncInvoke with EXECUTE: the callee goes to the transaction log, every time.
InvokeReserve(t) ==
  /\ FrontAt(t, {"reserve"})
  /\ front[t].at \notin DOMAIN reserved[t]
  /\ callees' = [callees EXCEPT ![t] = Append(@, Participants[front[t].at])]
  /\ job' = [job EXCEPT ![t].at = "lock"]
  /\ UNCHANGED <<front, reserved, ended, applied, writes, owner, table, faults>>

Reserves(t, at) == front[t].pc = "reserve" /\ job[t].at = at
Here(t) == Participants[front[t].at]

Answer(t, ok) == job' = [job EXCEPT ![t].at = "reply", ![t].ok = ok]

\* Mutant: Lock waits until the lock is free.
LockToRead_Waits(t) ==
  LET l == Here(t)
  IN  /\ Reserves(t, "lock")
      /\ owner[l] \in {t, Nobody}
      /\ owner' = [owner EXCEPT ![l] = t]
      /\ job' = [job EXCEPT ![t].at = "read"]
      /\ UNCHANGED <<front, txnLogs, table, faults>>

\* Mutant: somebody else's lock will do.
LockToRead_AnyHolder(t) ==
  LET l == Here(t)
  IN  /\ Reserves(t, "lock")
      /\ owner' = [owner EXCEPT ![l] = IF @ = Nobody THEN t ELSE @]
      /\ job' = [job EXCEPT ![t].at = "read"]
      /\ UNCHANGED <<front, txnLogs, table, faults>>

\* TPLRead: Lock does not wait, and its outcome is not logged.
LockToRead(t) ==
  LET l == Here(t)
  IN  /\ Reserves(t, "lock")
      /\ \/ /\ owner[l] \in {t, Nobody}
            /\ owner' = [owner EXCEPT ![l] = t]
            /\ job' = [job EXCEPT ![t].at = "read"]
         \/ /\ owner[l] \notin {t, Nobody}
            /\ Answer(t, FALSE)
            /\ UNCHANGED owner
      /\ UNCHANGED <<front, txnLogs, table, faults>>

\* The read of TPLRead; the handler gives up when nothing is left (Cap = 0).
ReadLocked(t) ==
  /\ Reserves(t, "read")
  /\ \/ job' = [job EXCEPT ![t].at = "write", ![t].val = table[Here(t)] \cup {t}]
     \/ Answer(t, FALSE)
  /\ UNCHANGED <<front, txnLogs, owner, table, faults>>

\* TPLWrite: the lock is there already; the write goes to the transaction log.
TPLWrite(t) ==
  /\ Reserves(t, "write")
  /\ writes' = [writes EXCEPT ![t][Here(t)] = Append(@, job[t].val)]
  /\ Answer(t, TRUE)
  /\ UNCHANGED <<front, reserved, ended, applied, callees, owner, table, faults>>

\* wrapperInternal of the participant logs its output for the frontend.
LogReserved(t) ==
  /\ Reserves(t, "reply")
  /\ reserved' = [reserved EXCEPT ![t] =
       [n \in DOMAIN @ \cup {front[t].at} |-> IF n = front[t].at THEN job[t].ok ELSE @[n]]]
  /\ job' = [job EXCEPT ![t].at = "return"]
  /\ UNCHANGED <<front, ended, applied, callees, writes, owner, table, faults>>

ReturnReserved(t) ==
  /\ Reserves(t, "return")
  /\ Decide(t, job[t].ok)
  /\ job' = [job EXCEPT ![t] = NoJob]
  /\ UNCHANGED <<txnLogs, owner, table, faults>>

-----------------------------------------------------------------------------
(***************************************************************************)
(* The second phase: CommitTxn or AbortTxn.  The frontend has no writes of *)
(* its own; it calls every callee in its transaction log, as often as it   *)
(* is there, and each of these calls is an instance with a log of its own. *)
(***************************************************************************)
Ending == {"commit", "abort"}

\* getAllTxnLogs: nothing is added to the log of the frontend any more.
More(t) == front[t].at <= Len(callees[t])

Onward(t) == front' = [front EXCEPT ![t].at = @ + 1]

SeenEnd(t) ==
  /\ FrontAt(t, Ending)
  /\ More(t)
  /\ front[t].at \in ended[t]
  /\ Onward(t)
  /\ UNCHANGED <<job, txnLogs, owner, table, faults>>

InvokeEnd(t) ==
  /\ FrontAt(t, Ending)
  /\ More(t)
  /\ front[t].at \notin ended[t]
  /\ front[t].instruction \in {"COMMIT", "ABORT"}
  /\ job' = [job EXCEPT ![t].at = "next"]
  /\ UNCHANGED <<front, txnLogs, owner, table, faults>>

\* EXIT is passed on: the callee runs its handler on an empty input and panics.
InvokeEndWithExit(t) ==
  /\ FrontAt(t, Ending)
  /\ More(t)
  /\ front[t].at \notin ended[t]
  /\ front[t].instruction = "EXIT"
  /\ Onward(t)
  /\ UNCHANGED <<job, txnLogs, owner, table, faults>>

\* CommitTxn and AbortTxn clear env.Instruction; the frontend answers its client.
EndTxn(t) ==
  /\ FrontAt(t, Ending)
  /\ ~ More(t)
  /\ front' = [front EXCEPT ![t].pc = IF @ = "commit" THEN "placed" ELSE "failed",
                            ![t].instruction = ""]
  /\ UNCHANGED <<job, txnLogs, owner, table, faults>>

Ends(t, at) == front[t].pc \in Ending /\ job[t].at = at
Peer(t) == callees[t][front[t].at]
OwnWrites(t) == writes[t][Peer(t)]
Done(t) == applied[t][front[t].at]

\* Mutant: the loop ends one entry too early.
NextEntry_SkipsLast(t) ==
  /\ Ends(t, "next")
  /\ job' = [job EXCEPT ![t].at =
       IF job[t].k >= Len(OwnWrites(t)) THEN "reply"
       ELSE IF front[t].pc = "abort" \/ job[t].k <= Done(t) THEN "unlock"
       ELSE "apply"]
  /\ UNCHANGED <<front, txnLogs, owner, table, faults>>

\* TPLCommit and TPLAbort of the participant: the k-th write in its log.
NextEntry(t) ==
  /\ Ends(t, "next")
  /\ job' = [job EXCEPT ![t].at =
       IF job[t].k > Len(OwnWrites(t)) THEN "reply"
       ELSE IF front[t].pc = "abort" \/ job[t].k <= Done(t) THEN "unlock"
       ELSE "apply"]
  /\ UNCHANGED <<front, txnLogs, owner, table, faults>>

\* Write(..., dependent = true): unconditional, then logged as a step.
ApplyWrite(t) ==
  /\ Ends(t, "apply")
  /\ table' = [table EXCEPT ![Peer(t)] = OwnWrites(t)[job[t].k]]
  /\ job' = [job EXCEPT ![t].at = "applied"]
  /\ UNCHANGED <<front, txnLogs, owner, faults>>

LogWrite(t) ==
  /\ Ends(t, "applied")
  /\ applied' = [applied EXCEPT ![t][front[t].at] = job[t].k]
  /\ job' = [job EXCEPT ![t].at = "unlock"]
  /\ UNCHANGED <<front, reserved, ended, callees, writes, owner, table, faults>>

\* Mutant: TPLAbort does not unlock.
UnlockEntry_CommitOnly(t) ==
  /\ Ends(t, "unlock")
  /\ owner' = IF owner[Peer(t)] = t /\ front[t].pc = "commit"
              THEN [owner EXCEPT ![Peer(t)] = Nobody] ELSE owner
  /\ job' = [job EXCEPT ![t].at = "next", ![t].k = @ + 1]
  /\ UNCHANGED <<front, txnLogs, table, faults>>

\* Unlock of a lock that the transaction does not hold only warns.
UnlockEntry(t) ==
  /\ Ends(t, "unlock")
  /\ owner' = IF owner[Peer(t)] = t THEN [owner EXCEPT ![Peer(t)] = Nobody] ELSE owner
  /\ job' = [job EXCEPT ![t].at = "next", ![t].k = @ + 1]
  /\ UNCHANGED <<front, txnLogs, table, faults>>

LogEnded(t) ==
  /\ Ends(t, "reply")
  /\ ended' = [ended EXCEPT ![t] = @ \cup {front[t].at}]
  /\ job' = [job EXCEPT ![t].at = "return"]
  /\ UNCHANGED <<front, reserved, applied, callees, writes, owner, table, faults>>

ReturnEnded(t) ==
  /\ Ends(t, "return")
  /\ Onward(t)
  /\ job' = [job EXCEPT ![t] = NoJob]
  /\ UNCHANGED <<txnLogs, owner, table, faults>>

-----------------------------------------------------------------------------
(***************************************************************************)
(* Faults.                                                                 *)
(***************************************************************************)
\* InvokeFunc returns an error.  In the first phase the frontend returns; in the
\* second phase TPLCommit and TPLAbort do not look and go on to the next callee.
CalleeDies(t) ==
  /\ job[t].at # "none"
  /\ faults < MaxFaults
  /\ faults' = faults + 1
  /\ job' = [job EXCEPT ![t] = NoJob]
  /\ front' = [front EXCEPT ![t].instruction = "EXIT", ![t].lost = TRUE,
                            ![t].pc = IF @ = "reserve" THEN "exit" ELSE @,
                            ![t].at = IF front[t].pc = "reserve" THEN @ ELSE @ + 1]
  /\ UNCHANGED <<txnLogs, owner, table>>

\* The frontend dies, together with the call it waits for.
FrontendDies(t) ==
  /\ front[t].pc \in {"reserve"} \cup Ending
  /\ faults < MaxFaults
  /\ faults' = faults + 1
  /\ job' = [job EXCEPT ![t] = NoJob]
  /\ front' = [front EXCEPT ![t] = NewFront]
  /\ UNCHANGED <<txnLogs, owner, table>>

TxnStep(t) ==
  \/ BeginTxn(t) \/ SeenReserve(t) \/ InvokeReserve(t)
  \/ LockToRead(t) \/ ReadLocked(t) \/ TPLWrite(t)
  \/ LogReserved(t) \/ ReturnReserved(t)
  \/ SeenEnd(t) \/ InvokeEnd(t) \/ InvokeEndWithExit(t) \/ EndTxn(t)
  \/ NextEntry(t) \/ ApplyWrite(t) \/ LogWrite(t) \/ UnlockEntry(t)
  \/ LogEnded(t) \/ ReturnEnded(t)

TxnNext == \E t \in TxnId : TxnStep(t) \/ CalleeDies(t) \/ FrontendDies(t)

TxnSpec == TxnInit /\ [][TxnNext]_txnVars

\* A process that runs goes on; that anybody calls a frontend is not assumed.
Running(t) == front[t].pc \in {"reserve"} \cup Ending
TxnFairness == \A t \in TxnId : WF_txnVars(Running(t) /\ TxnStep(t))
-----------------------------------------------------------------------------
Finished(t) == front[t].pc \in {"placed", "failed"}

(***************************************************************************)
(* A transaction is committed everywhere or nowhere: a value that includes *)
(* t is visible only once every participant has agreed, and when the       *)
(* frontend answers success, and no call failed while it committed, every  *)
(* participant has applied all that t wrote there.                         *)
(***************************************************************************)
AllAgreed(t) ==
  /\ DOMAIN reserved[t] = 1 .. Len(Participants)
  /\ \A n \in DOMAIN reserved[t] : reserved[t][n]

CommittedAt(t, l) ==
  \E n \in 1 .. Len(callees[t]) :
    callees[t][n] = l /\ applied[t][n] = Len(writes[t][l]) /\ applied[t][n] > 0

AtomicCommit ==
  \A t \in TxnId :
    /\ (\E l \in Lambda : t \in table[l]) => AllAgreed(t)
    /\ front[t].pc = "placed" /\ ~ front[t].lost => \A l \in Lambda : CommittedAt(t, l)

(***************************************************************************)
(* No update is lost: a committed write is based on all that was committed *)
(* to its key before.  The exception is a transaction whose log names the  *)
(* call or the write twice, which a re-execution of the first phase        *)
(* leaves: its second application comes after it unlocked.  It may lose    *)
(* what others wrote meanwhile, and what it writes then may be lost, as    *)
(* one who has read in between may hold the lock.                          *)
(***************************************************************************)
LoggedTwice(t, l) ==
  \/ Len(writes[t][l]) > 1
  \/ \E m, n \in 1 .. Len(callees[t]) : m # n /\ callees[t][m] = l /\ callees[t][n] = l

NoLostUpdate ==
  [][\A l \in Lambda :
       \/ table[l] \subseteq table'[l]
       \/ \E t \in table[l] \cup table'[l] : LoggedTwice(t, l)]_txnVars

(***************************************************************************)
(* A finished transaction holds none of the locks it has logged a write    *)
(* under, unless a call failed while it ended.  (A lock that TPLRead took  *)
(* and no write followed is in no log, and stays.)                         *)
(***************************************************************************)
LocksReleased ==
  \A t \in TxnId : Finished(t) /\ ~ front[t].lost =>
    \A l \in Lambda : writes[t][l] # <<>> => owner[l] # t

(***************************************************************************)
(* Locks never wait, so transactions do not wait for each other, nor for   *)
(* a lock that nobody will release: an execution of the frontend ends,     *)
(* whatever died on the way, unless it dies itself.                        *)
(***************************************************************************)
TxnsEnd == \A t \in TxnId : Running(t) ~> ~ Running(t)
=============================================================================
