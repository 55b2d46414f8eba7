------------------------------- MODULE MCInvoke -------------------------------
(***************************************************************************)
(* Invoke with one caller and its callees.                                 *)
(***************************************************************************)
EXTENDS Invoke, TLC

CONSTANTS i1, e1, e2, c1, c2, c3

OneInstance == [e \in Executor |-> i1]

\* A synchronous invocation, then a forked one that runs along an asynchronous one.
AllKinds == [i \in Instance |-> <<"sync", "fork", "async">>]

OneCall == [i \in Instance |-> <<"sync">>]

Symmetry == Permutations({e1, e2}) \cup Permutations({c1, c2, c3})
=============================================================================
