---------------------------------- MODULE Page ---------------------------------
(***************************************************************************)
(* ReadPage of the media workload,                                         *)
(* src/workloads/workflow/optimal/internal/media/core/page.go: four        *)
(* invocations, in goroutines that one WaitGroup counts.                   *)
(*                                                                         *)
(* The invocations of the cast and of the plot are proposed when the movie *)
(* info is there.  A proposal is lost when another execution of the same   *)
(* instance has made the step meanwhile, and then the execution is to      *)
(* exit.                                                                   *)
(***************************************************************************)
EXTENDS Naturals

CONSTANT PageExecution  \* executions of one instance

Invocation == {"movieInfo", "reviews", "castInfo", "plot"}

VARIABLES
  pSteps,   \* invocations with a PreInvoke entry in the step log, in order
  pResults, \* those whose entry has the result
  pKnown,   \* pKnown[e]: the steps in the log when e began
  page,     \* page[e]: where ReadPage is
  infoAt,   \* infoAt[e]: where the goroutine of the movie info is
  calls,    \* calls[e]: invocations that a goroutine of e makes
  wg,       \* wg[e]: the counter of the WaitGroup
  pExit     \* pExit[e]: env.Instruction = "EXIT"

pageVars == <<pSteps, pResults, pKnown, page, infoAt, calls, wg, pExit>>

\* The order of the proposals.
StepOf == [i \in Invocation |->
  CASE i = "movieInfo" -> 1 [] i = "reviews" -> 2 [] i = "castInfo" -> 3 [] i = "plot" -> 4]

PageInit ==
  /\ pSteps = 0 /\ pResults = {}
  /\ pKnown = [e \in PageExecution |-> 0]
  /\ page = [e \in PageExecution |-> "idle"]
  /\ infoAt = [e \in PageExecution |-> "idle"]
  /\ calls = [e \in PageExecution |-> {}]
  /\ wg = [e \in PageExecution |-> 0]
  /\ pExit = [e \in PageExecution |-> FALSE]

-----------------------------------------------------------------------------
\* ProposeInvoke: the step is known, or is appended, or another execution has it.
Known(e, i) == StepOf[i] <= pKnown[e]
Free(i) == pSteps = StepOf[i] - 1
Lost(e, i) == ~ Known(e, i) /\ ~ Free(i)
Proposed(i) == pSteps' = IF Free(i) THEN pSteps + 1 ELSE pSteps

\* Catch reads the step log.
StartPage(e) ==
  /\ page[e] = "idle"
  /\ page' = [page EXCEPT ![e] = "movieInfo"]
  /\ pKnown' = [pKnown EXCEPT ![e] = pSteps]
  /\ UNCHANGED <<pSteps, pResults, infoAt, calls, wg, pExit>>

\* A lost step: return Page{}.
ProposeFirst(e, i) ==
  /\ page[e] = i
  /\ IF Lost(e, i)
     THEN /\ page' = [page EXCEPT ![e] = "returned"]
          /\ pExit' = [pExit EXCEPT ![e] = TRUE]
          /\ UNCHANGED pSteps
     ELSE /\ page' = [page EXCEPT ![e] = IF i = "movieInfo" THEN "reviews" ELSE "go"]
          /\ Proposed(i)
          /\ UNCHANGED pExit
  /\ UNCHANGED <<pResults, pKnown, infoAt, calls, wg>>

\* wg.Add(4), and the first two goroutines.
Go(e) ==
  /\ page[e] = "go"
  /\ page' = [page EXCEPT ![e] = "wait"]
  /\ wg' = [wg EXCEPT ![e] = 4]
  /\ calls' = [calls EXCEPT ![e] = {"movieInfo", "reviews"}]
  /\ UNCHANGED <<pSteps, pResults, pKnown, infoAt, pExit>>

\* Mutant: a goroutine whose call fails returns without Done.
CallReturns_NoDone(e, i) ==
  /\ i \in calls[e]
  /\ calls' = [calls EXCEPT ![e] = @ \ {i}]
  /\ \/ /\ pResults' = pResults \cup {i}
        /\ IF i = "movieInfo"
           THEN infoAt' = [infoAt EXCEPT ![e] = "castInfo"] /\ UNCHANGED wg
           ELSE wg' = [wg EXCEPT ![e] = @ - 1] /\ UNCHANGED infoAt
        /\ UNCHANGED pExit
     \/ /\ i \notin pResults
        /\ pExit' = [pExit EXCEPT ![e] = TRUE]
        /\ UNCHANGED <<pResults, infoAt, wg>>
  /\ UNCHANGED <<pSteps, pKnown, page>>

\* AssignedSyncInvoke returns a result or, if the call fails, nil.  The goroutine
\* of the movie info goes on in both cases, others are done.
CallReturns(e, i) ==
  /\ i \in calls[e]
  /\ calls' = [calls EXCEPT ![e] = @ \ {i}]
  /\ \/ pResults' = pResults \cup {i} /\ UNCHANGED pExit
     \/ i \notin pResults /\ pExit' = [pExit EXCEPT ![e] = TRUE] /\ UNCHANGED pResults
  /\ IF i = "movieInfo"
     THEN infoAt' = [infoAt EXCEPT ![e] = "castInfo"] /\ UNCHANGED wg
     ELSE wg' = [wg EXCEPT ![e] = @ - 1] /\ UNCHANGED infoAt
  /\ UNCHANGED <<pSteps, pKnown, page>>

\* A lost step: the goroutine returns, and the two that it has not started do not
\* count down.
ProposeSecond(e, i) ==
  /\ infoAt[e] = i
  /\ IF Lost(e, i)
     THEN /\ infoAt' = [infoAt EXCEPT ![e] = "lost"]
          /\ pExit' = [pExit EXCEPT ![e] = TRUE]
          /\ wg' = [wg EXCEPT ![e] = @ - 1]
          /\ UNCHANGED <<pSteps, calls>>
     ELSE /\ Proposed(i)
          /\ IF i = "castInfo"
             THEN infoAt' = [infoAt EXCEPT ![e] = "plot"] /\ UNCHANGED <<calls, wg>>
             ELSE /\ infoAt' = [infoAt EXCEPT ![e] = "done"]
                  /\ calls' = [calls EXCEPT ![e] = @ \cup {"castInfo", "plot"}]
                  /\ wg' = [wg EXCEPT ![e] = @ - 1]
          /\ UNCHANGED pExit
  /\ UNCHANGED <<pResults, pKnown, page>>

\* wg.Wait.
PageReturns(e) ==
  /\ page[e] = "wait" /\ wg[e] = 0
  /\ page' = [page EXCEPT ![e] = "returned"]
  /\ UNCHANGED <<pSteps, pResults, pKnown, infoAt, calls, wg, pExit>>

-----------------------------------------------------------------------------
PageStep(e) ==
  \/ StartPage(e) \/ ProposeFirst(e, "movieInfo") \/ ProposeFirst(e, "reviews") \/ Go(e)
  \/ \E i \in Invocation : CallReturns(e, i)
  \/ ProposeSecond(e, "castInfo") \/ ProposeSecond(e, "plot")
  \/ PageReturns(e)

PageNext == \E e \in PageExecution : PageStep(e)

PageSpec == PageInit /\ [][PageNext]_pageVars

-----------------------------------------------------------------------------
(***************************************************************************)
(* An execution of ReadPage that waits for its goroutines is not left to   *)
(* wait forever, also if calls fail: there is a goroutine that goes on, or *)
(* the counter is zero.  As every goroutine has finitely many steps,       *)
(* ReadPage then returns.  The exception: one that loses the step of the   *)
(* cast or of the plot (page.go:45, page.go:52) waits for two goroutines   *)
(* that were never started.                                                *)
(***************************************************************************)
Goroutines(e) == calls[e] # {} \/ infoAt[e] \in {"castInfo", "plot"}

PagesEnd ==
  \A e \in PageExecution : page[e] = "wait" /\ infoAt[e] # "lost" => Goroutines(e) \/ wg[e] = 0
=============================================================================
