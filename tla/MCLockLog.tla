------------------------------ MODULE MCLockLog ------------------------------
(***************************************************************************)
(* Locks (LockLog), the transactions that take them (Txn), and those of    *)
(* Beldi (BeldiTxn), each on an instance of its own: Txn stands on what    *)
(* LockService promises, which the locks are shown to keep.  "layer" names *)
(* the one a behaviour is of, and the variables of the others do not       *)
(* change.  Transactions may stop; locks may not.                          *)
(*                                                                         *)
(* LockLog has one lock and one node: a transaction of one process         *)
(* competes with a transaction of two, and all share the node's cache.     *)
(* Txn and BeldiTxn have two transactions of the hotel workload.           *)
(***************************************************************************)
EXTENDS LockLog, Txn, BeldiTxn

CONSTANTS p1, p2, p3, n1, t1, t2

VARIABLE layer

Nodes == [p \in Process |-> n1]
Txns == [p \in Process |-> IF p = p1 THEN t1 ELSE t2]

HotelFlight == <<"hotel", "flight">>

-----------------------------------------------------------------------------
LayersInit ==
  layer \in {"locks", "transactions", "beldi"} /\ Init /\ TxnInit /\ XInit

LayersNext ==
  \/ layer = "locks" /\ Next /\ UNCHANGED <<txnVars, xVars, layer>>
  \/ layer = "transactions" /\ TxnNext /\ UNCHANGED <<vars, xVars, layer>>
  \/ layer = "beldi" /\ XNext /\ UNCHANGED <<vars, txnVars, layer>>
  \/ layer # "locks" /\ UNCHANGED <<vars, txnVars, xVars, layer>>

LayersSpec ==
  LayersInit /\ [][LayersNext]_<<vars, txnVars, xVars, layer>> /\ TxnFairness
=============================================================================
