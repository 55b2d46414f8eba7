----------------------------- MODULE MCIntentLog -----------------------------
(***************************************************************************)
(* IntentLog on a small instance: one root instance, run by two executors. *)
(***************************************************************************)
EXTENDS IntentLog

CONSTANT i1

OneInstance == [e \in Executor |-> i1]
=============================================================================
