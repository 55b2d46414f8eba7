----------------------------- MODULE MCWorkloads -----------------------------
(***************************************************************************)
(* What runs on the library, on small instances: Retwis, two parts of the  *)
(* media workload (Media, Page), the switching benchmark (Switching) and   *)
(* the demo (Demo).  They share nothing: a behaviour is one of one of      *)
(* them, which "workload" names, and the variables of the others do not    *)
(* change.                                                                 *)
(***************************************************************************)
EXTENDS Retwis, Media, Page, Switching, Demo, TLC

VARIABLE workload

(***************************************************************************)
(* Retwis: p1 has a follower that p2 also has, and who asks for a timeline.*)
(***************************************************************************)
Followers == "p1" :> <<"u1", "u2">> @@ "p2" :> <<"u1">>
Users == "q1" :> "u1"

(***************************************************************************)
(* Media: one request with the last three fields to come, or two with the  *)
(* last one.                                                               *)
(***************************************************************************)
Identity == {"reviewId", "userId"}
ThreeToCome == [requests |-> {"r1"}, done |-> {"r1"} \X Identity]
OneToCome == [requests |-> {"r1", "r2"},
              done |-> {"r1", "r2"} \X (Identity \cup {"movieId", "rating"})]
ReviewCases == {ThreeToCome, OneToCome}

(***************************************************************************)
(* Switching: two workers and one change of the cycle, at any time; four   *)
(* requests of which the first two have one timestamp, or of which the     *)
(* first may be given up; or five requests.                                *)
(***************************************************************************)
OneOfEach == <<"write", "read">>
SameMicrosecond == [sameTs |-> TRUE, timeouts |-> {}, requests |-> 4]
FirstTimesOut == [sameTs |-> FALSE, timeouts |-> {1}, requests |-> 4]
MoreRequests == [sameTs |-> FALSE, timeouts |-> {}, requests |-> 5]
ClientCases == {SameMicrosecond, FirstTimesOut, MoreRequests}

\* The values of demo/cmd/main.go.
MetricValues == <<1000, 100>>

-----------------------------------------------------------------------------
WorkloadsInit ==
  /\ workload \in {"retwis", "media", "page", "switching", "demo"}
  /\ RetwisInit /\ MediaInit /\ PageInit /\ SwitchInit /\ DemoInit
  /\ workload # "retwis" => rMode = "READLOG"
  /\ workload # "media" => mMode = "READLOG" /\ mCase = OneToCome
  /\ workload # "switching" => switchCase = FirstTimesOut

WorkloadsNext ==
  \/ /\ workload = "retwis" /\ RetwisNext
     /\ UNCHANGED <<mediaVars, pageVars, switchVars, demoVars, workload>>
  \/ /\ workload = "media" /\ MediaNext
     /\ UNCHANGED <<rVars, pageVars, switchVars, demoVars, workload>>
  \/ /\ workload = "page" /\ PageNext
     /\ UNCHANGED <<rVars, mediaVars, switchVars, demoVars, workload>>
  \/ /\ workload = "switching" /\ SwitchNext
     /\ UNCHANGED <<rVars, mediaVars, pageVars, demoVars, workload>>
  \/ /\ workload = "demo" /\ DemoNext
     /\ UNCHANGED <<rVars, mediaVars, pageVars, switchVars, workload>>

vars == <<rVars, mediaVars, pageVars, switchVars, demoVars, workload>>

WorkloadsSpec == WorkloadsInit /\ [][WorkloadsNext]_vars
=============================================================================
