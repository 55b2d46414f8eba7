-------------------------------- MODULE BeldiTxn --------------------------------
(***************************************************************************)
(* Transactions of the Beldi baseline: BeginTxn, TPLRead, TPLWrite,        *)
(* CommitTxn and AbortTxn of                                               *)
(* src/workloads/workflow/beldi/pkg/beldilib/twopl.go, with SyncInvoke,    *)
(* AsyncInvoke, wrapperInternal, TPLCommit and TPLAbort of controlflow.go, *)
(* driven by its hotel reservation.                                        *)
(*                                                                         *)
(* A lock is the attribute HOLDER of the item, and the write that commits  *)
(* is the one that frees it.  What a transaction wants to write is kept in *)
(* the local table of the participant until then.                          *)
(*                                                                         *)
(* The collector of intents, which would execute a dead instance again, is *)
(* commented out (RestartAll in collector.go panics): what is dead stays   *)
(* dead, and nothing is replayed.  A callee whose caller has died goes on. *)
(* Each operation on an item is one step, as BeldiDAAL shows, and rows do  *)
(* not fill up here.  A value is the set of the transactions that it is    *)
(* based on.                                                               *)
(***************************************************************************)
EXTENDS Naturals, Sequences

CONSTANTS
  XTxn,          \* one transaction per instance of the frontend
  XParticipants, \* the functions that the frontend calls, in order
  XMaxFaults     \* bound on the processes that die

XLambda == {XParticipants[n] : n \in 1 .. Len(XParticipants)}
AVAILABLE == "AVAILABLE"

ASSUME XParticipantsAssumption == XParticipants \in Seq(XLambda) /\ Len(XParticipants) > 0
ASSUME XMaxFaultsAssumption == XMaxFaults \in Nat
ASSUME AvailableAssumption == AVAILABLE \notin XTxn

VARIABLES
  request,  \* request[t]: where the frontend of t is, at which of its calls, and CALLEES
  call,     \* call[t]: the execution of the callee that t called last
  local,    \* local[l]: the writes in the local table of l, by transaction
  holders,  \* holders[l]: HOLDER of the item that is reserved
  values,   \* values[l]: V of that item
  orders,   \* transactions whose instance of order was invoked
  xFaults,  \* processes that died
  committed \* committed[l]: the transactions that committed a write (history)

xTables == <<local, holders, values, committed>>
xVars == <<request, call, xTables, orders, xFaults>>

NoCall == [at |-> "none", fn |-> "none", ok |-> FALSE, read |-> {}]

XInit ==
  /\ request = [t \in XTxn |-> [pc |-> "idle", n |-> 1, callees |-> <<>>]]
  /\ call = [t \in XTxn |-> NoCall]
  /\ local = [l \in XLambda |-> [t \in {} |-> {}]]
  /\ holders = [l \in XLambda |-> AVAILABLE]
  /\ values = [l \in XLambda |-> {}]
  /\ orders = {}
  /\ xFaults = 0
  /\ committed = [l \in XLambda |-> {}]

-----------------------------------------------------------------------------
(***************************************************************************)
(* The frontend.                                                           *)
(***************************************************************************)
RequestAt(t, pcs) == request[t].pc \in pcs /\ call[t] = NoCall
EndPhases == {"COMMIT", "ABORT"}

\* BeginTxn: the transaction is the instance.
XBegin(t) ==
  /\ RequestAt(t, {"idle"})
  /\ request' = [request EXCEPT ![t].pc = "EXECUTE"]
  /\ UNCHANGED <<call, xTables, orders, xFaults>>

\* SyncInvoke with EXECUTE: the callee is logged before it is invoked.
LogCallee(t) ==
  /\ RequestAt(t, {"EXECUTE"})
  /\ request[t].n <= Len(XParticipants)
  /\ LET fn == XParticipants[request[t].n]
     IN  /\ request' = [request EXCEPT ![t].callees = Append(@, fn)]
         /\ call' = [call EXCEPT ![t] = [NoCall EXCEPT !.at = "lock", !.fn = fn]]
  /\ UNCHANGED <<xTables, orders, xFaults>>

\* Mutant: the frontend commits whatever the last participant said.
Answered_CommitOnly(t) ==
  /\ request[t].pc = "EXECUTE" /\ call[t].at = "returned"
  /\ call' = [call EXCEPT ![t] = NoCall]
  /\ request' = IF call[t].ok /\ request[t].n < Len(XParticipants)
                THEN [request EXCEPT ![t].n = @ + 1]
                ELSE [request EXCEPT ![t].n = 1, ![t].pc = "COMMIT"]
  /\ UNCHANGED <<xTables, orders, xFaults>>

\* The answer of a participant: CommitTxn after the last, AbortTxn after a refusal.
Answered(t) ==
  /\ request[t].pc = "EXECUTE" /\ call[t].at = "returned"
  /\ call' = [call EXCEPT ![t] = NoCall]
  /\ request' = IF call[t].ok /\ request[t].n < Len(XParticipants)
                THEN [request EXCEPT ![t].n = @ + 1]
                ELSE [request EXCEPT ![t].n = 1,
                                     ![t].pc = IF call[t].ok THEN "COMMIT" ELSE "ABORT"]
  /\ UNCHANGED <<xTables, orders, xFaults>>

\* TPLCommit and TPLAbort of the frontend, which has no writes of its own.
InvokeCallee(t) ==
  /\ RequestAt(t, EndPhases)
  /\ request[t].n <= Len(request[t].callees)
  /\ call' = [call EXCEPT ![t] = [NoCall EXCEPT !.at = request[t].pc,
                                                !.fn = request[t].callees[request[t].n]]]
  /\ UNCHANGED <<request, xTables, orders, xFaults>>

CalleeEnded(t) ==
  /\ request[t].pc \in EndPhases /\ call[t].at = "returned"
  /\ call' = [call EXCEPT ![t] = NoCall]
  /\ request' = [request EXCEPT ![t].n = @ + 1]
  /\ UNCHANGED <<xTables, orders, xFaults>>

\* AsyncInvoke after a commit; what it puts into tables first is read by
\* executions that nobody starts.
AsyncInvoke(t) ==
  /\ RequestAt(t, {"COMMIT"})
  /\ request[t].n > Len(request[t].callees)
  /\ orders' = orders \cup {t}
  /\ request' = [request EXCEPT ![t].pc = "placed"]
  /\ UNCHANGED <<call, xTables, xFaults>>

XAborted(t) ==
  /\ RequestAt(t, {"ABORT"})
  /\ request[t].n > Len(request[t].callees)
  /\ request' = [request EXCEPT ![t].pc = "failed"]
  /\ UNCHANGED <<call, xTables, orders, xFaults>>

-----------------------------------------------------------------------------
(***************************************************************************)
(* A participant.                                                          *)
(***************************************************************************)
CalleeAt(t, at) == call[t].at = at
Fn(t) == call[t].fn
Reply(t, ok) == [call EXCEPT ![t].at = "returned", ![t].ok = ok]

\* cond1 .. cond3 of Lock.
Free(l, t) == holders[l] \in {AVAILABLE, t}

\* Lock: a conditional write of HOLDER.
XLock(t, at, next) ==
  /\ CalleeAt(t, at)
  /\ IF Free(Fn(t), t)
     THEN /\ holders' = [holders EXCEPT ![Fn(t)] = t]
          /\ call' = [call EXCEPT ![t].at = next]
     ELSE call' = Reply(t, FALSE) /\ UNCHANGED holders
  /\ UNCHANGED <<request, local, values, orders, xFaults, committed>>

\* TPLRead and TPLWrite both lock.
XLockToRead(t) == XLock(t, "lock", "read")
XLockToWrite(t) == XLock(t, "relock", "keep")

\* The read of TPLRead; the handler gives up when nothing is left (Cap = 0).
XReadLocked(t) ==
  /\ CalleeAt(t, "read")
  /\ \/ call' = [call EXCEPT ![t].at = "relock", ![t].read = values[Fn(t)]]
     \/ call' = Reply(t, FALSE)
  /\ UNCHANGED <<request, xTables, orders, xFaults>>

\* The write of TPLWrite is kept in the local table.
KeepWrite(t) ==
  /\ CalleeAt(t, "keep")
  /\ local' = [local EXCEPT ![Fn(t)] =
                 [u \in DOMAIN @ \cup {t} |-> IF u = t THEN call[t].read \cup {t} ELSE @[u]]]
  /\ call' = Reply(t, TRUE)
  /\ UNCHANGED <<request, holders, values, orders, xFaults, committed>>

Forget(l, t) == [u \in DOMAIN local[l] \ {t} |-> local[l][u]]

\* TPLCommit of a participant: one write has the value and AVAILABLE.
XCommit(t) ==
  LET l == Fn(t)
  IN  /\ CalleeAt(t, "COMMIT")
      /\ IF t \in DOMAIN local[l]
         THEN /\ values' = [values EXCEPT ![l] = local[l][t]]
              /\ holders' = [holders EXCEPT ![l] = AVAILABLE]
              /\ committed' = [committed EXCEPT ![l] = @ \cup {t}]
         ELSE UNCHANGED <<values, holders, committed>>
      /\ call' = [call EXCEPT ![t].at = "forget"]
      /\ UNCHANGED <<request, local, orders, xFaults>>

\* TPLAbort of a participant reads CALLEES only, and so frees nothing.
XAbort(t) ==
  /\ CalleeAt(t, "ABORT")
  /\ call' = [call EXCEPT ![t].at = "forget"]
  /\ UNCHANGED <<request, xTables, orders, xFaults>>

\* LibDelete of the item in the local table.
ForgetTxn(t) ==
  /\ CalleeAt(t, "forget")
  /\ local' = [local EXCEPT ![Fn(t)] = Forget(Fn(t), t)]
  /\ call' = Reply(t, TRUE)
  /\ UNCHANGED <<request, holders, values, orders, xFaults, committed>>

-----------------------------------------------------------------------------
XFault == xFaults < XMaxFaults /\ xFaults' = xFaults + 1
XRuns(t) == request[t].pc \in {"EXECUTE"} \cup EndPhases

\* CHECK(err) of SyncInvoke: the caller dies with its callee.
XCalleeDies(t) ==
  /\ call[t].at \notin {"none", "returned"}
  /\ XFault
  /\ call' = [call EXCEPT ![t] = NoCall]
  /\ request' = [request EXCEPT ![t].pc = "dead"]
  /\ UNCHANGED <<xTables, orders>>

\* A callee that runs goes on.
XFrontendDies(t) ==
  /\ XRuns(t)
  /\ XFault
  /\ request' = [request EXCEPT ![t].pc = "dead"]
  /\ UNCHANGED <<call, xTables, orders>>

XStep(t) ==
  \/ XBegin(t) \/ LogCallee(t) \/ Answered(t)
  \/ InvokeCallee(t) \/ CalleeEnded(t) \/ AsyncInvoke(t) \/ XAborted(t)
  \/ XLockToRead(t) \/ XReadLocked(t) \/ XLockToWrite(t) \/ KeepWrite(t)
  \/ XCommit(t) \/ XAbort(t) \/ ForgetTxn(t)

XNext == \E t \in XTxn : XStep(t) \/ XCalleeDies(t) \/ XFrontendDies(t)

XSpec == XInit /\ [][XNext]_xVars

-----------------------------------------------------------------------------
(***************************************************************************)
(* A transaction that is visible somewhere is visible everywhere else too, *)
(* or its write is still there and its lock held, so that nobody can read  *)
(* the rest of it from before.  (It is never finished when a process died: *)
(* nothing executes it again.)  No update is lost.  A reservation that was *)
(* placed, and every order, is one that is visible everywhere and holds no *)
(* lock; one that failed is visible nowhere.  (But it keeps its locks:     *)
(* TPLAbort, controlflow.go:344, does not read the keys that it would      *)
(* have to free.)                                                          *)
(***************************************************************************)
BeldiAtomic ==
  /\ \A l \in XLambda : values[l] = committed[l]
  /\ \A t \in XTxn :
       /\ (\E l \in XLambda : t \in values[l]) =>
            /\ \A l \in XLambda : t \in values[l] \/ (t \in DOMAIN local[l] /\ holders[l] = t)
            /\ request[t].pc # "failed"
       /\ request[t].pc = "placed" \/ t \in orders =>
            \A l \in XLambda : t \in values[l] /\ holders[l] # t
=============================================================================
