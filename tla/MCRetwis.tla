------------------------------- MODULE MCRetwis -------------------------------
(***************************************************************************)
(* Retwis with one post, one follower, who asks for a timeline, and no     *)
(* crashes.                                                                *)
(***************************************************************************)
EXTENDS Retwis, TLC

Followers == "p1" :> <<"u1">>
Users == "q1" :> "u1"
=============================================================================
