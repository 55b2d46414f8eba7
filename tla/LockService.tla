------------------------------ MODULE LockService ------------------------------
(***************************************************************************)
(* What the transaction locks of the Halfmoon library promise: a lock has  *)
(* at most one owner, a transaction; a process is told that it has a lock  *)
(* only while its transaction owns it.  Processes forget their locks when  *)
(* they unlock them or die; the transaction owns them until it unlocks.    *)
(***************************************************************************)
CONSTANTS LockId, Process, Txn, TxnOf, NoTxn

VARIABLES
  owner,  \* owner[l]: the transaction that owns l, or NoTxn
  has     \* has[p]: the locks p was told it has and has not given up

vars == <<owner, has>>

Init ==
  /\ owner = [l \in LockId |-> NoTxn]
  /\ has = [p \in Process |-> {}]

Acquire(l, t) ==
  /\ owner[l] = NoTxn
  /\ owner' = [owner EXCEPT ![l] = t]
  /\ UNCHANGED has

Release(l, t) ==
  /\ owner[l] = t
  /\ owner' = [owner EXCEPT ![l] = NoTxn]
  /\ UNCHANGED has

Grant(l, p) ==
  /\ owner[l] = TxnOf[p]
  /\ has' = [has EXCEPT ![p] = @ \cup {l}]
  /\ UNCHANGED owner

\* Processes give up locks: one of them unlocks, or several die.
Forget ==
  /\ \A p \in Process : has'[p] \subseteq has[p]
  /\ has' = [p \in Process |-> has'[p]]
  /\ UNCHANGED owner

Next ==
  \/ \E l \in LockId, t \in Txn : Acquire(l, t) \/ Release(l, t)
  \/ \E l \in LockId, p \in Process : Grant(l, p)
  \/ Forget

Spec == Init /\ [][Next]_vars
=============================================================================
