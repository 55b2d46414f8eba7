----------------------------- MODULE ExactlyOnce -----------------------------
(***************************************************************************)
(* What the Halfmoon library promises a stateful function: the outcome of  *)
(* each step of an instance is decided once, in order and for ever, and    *)
(* every execution of the instance, first or repeated, sees the decided    *)
(* outcomes.  An execution may instead be told that it missed a step, and  *)
(* may then only fail: success means that all outcomes were seen.          *)
(***************************************************************************)
EXTENDS Naturals, Sequences

CONSTANTS Instance, Executor, InstanceOf, Data, None, NumSteps

VARIABLES
  decided,   \* the outcomes of each instance so far
  observed,  \* what each execution has been told, step by step
  success    \* which executions have reported success

vars == <<decided, observed, success>>

Init ==
  /\ decided = [i \in Instance |-> <<>>]
  /\ observed = [e \in Executor |-> <<>>]
  /\ success = [e \in Executor |-> FALSE]

Tell(e, outcome) == observed' = [observed EXCEPT ![e] = Append(@, outcome)]

\* An execution starts afresh: what it knew is lost, what was decided is not.
Restart(e) ==
  /\ observed' = [observed EXCEPT ![e] = <<>>]
  /\ success' = [success EXCEPT ![e] = FALSE]
  /\ UNCHANGED decided

Decide(i, d) ==
  /\ Len(decided[i]) < NumSteps
  /\ decided' = [decided EXCEPT ![i] = Append(@, d)]

\* An execution that is level with the decisions takes the next one ...
Lead(e, d) ==
  /\ Len(observed[e]) = Len(decided[InstanceOf[e]])
  /\ Decide(InstanceOf[e], d)
  /\ Tell(e, d)
  /\ UNCHANGED success

\* ... or takes it and dies before it hears of it.
LeadAndDie(e, d) ==
  /\ Len(observed[e]) = Len(decided[InstanceOf[e]])
  /\ Decide(InstanceOf[e], d)
  /\ UNCHANGED <<observed, success>>

\* An execution that is behind hears what was decided, or that it is late.
Follow(e) ==
  LET known == decided[InstanceOf[e]]
  IN  /\ Len(observed[e]) < Len(known)
      /\ \E outcome \in {known[Len(observed[e]) + 1], None} : Tell(e, outcome)
      /\ UNCHANGED <<decided, success>>

Succeed(e) ==
  /\ observed[e] = decided[InstanceOf[e]]
  /\ Len(observed[e]) = NumSteps
  /\ success' = [success EXCEPT ![e] = TRUE]
  /\ UNCHANGED <<decided, observed>>

Next ==
  \E e \in Executor :
    \/ Restart(e)
    \/ \E d \in Data : Lead(e, d) \/ LeadAndDie(e, d)
    \/ Follow(e)
    \/ Succeed(e)

Spec == Init /\ [][Next]_vars
=============================================================================
