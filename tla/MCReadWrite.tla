----------------------------- MODULE MCReadWrite -----------------------------
(***************************************************************************)
(* ReadWrite on small programs over one contended key.                     *)
(***************************************************************************)
EXTENDS ReadWrite, TLC

CONSTANTS i1, i2, e1, e2, e3, k1, k2, v0, v1, v2, v3

TwoInstances == [e \in Executor |-> IF e = e3 THEN i2 ELSE i1]
OneInstance == [e \in Executor |-> i1]

R(k) == [kind |-> "read", key |-> k, val |-> None, dep |-> FALSE]
W(k, v) == [kind |-> "write", key |-> k, val |-> v, dep |-> FALSE]
D(k, v) == [kind |-> "write", key |-> k, val |-> v, dep |-> TRUE]

\* Two logged writes of a key, and a log-free read of it by another instance
\* after a write of its own.
WriteLogProgram ==
  [i \in Instance |-> IF i = i1 THEN <<W(k1, v1), W(k1, v2)>>
                                ELSE <<W(k2, v3), R(k1)>>]

\* Log-free writes to one key around logged reads of it, and two writes of another
\* with no read between them.
ReadLogProgram ==
  [i \in Instance |-> IF i = i1 THEN <<W(k1, v1), R(k1), W(k1, v2), R(k1), W(k2, v1), W(k2, v2)>>
                                ELSE <<R(k1), W(k1, v3), R(k1)>>]

\* One instance: two writes of a key, then a dependent write of another.
OwnWrites == [i \in Instance |-> <<W(k1, v1), W(k1, v2), R(k1), D(k2, v3), R(k2)>>]

Symmetry == Permutations({e1, e2})

\* Two writes and no look at env.Instruction between them.
PlainWrites == [i \in Instance |-> <<W(k1, v1), W(k2, v2)>>]
=============================================================================
