----------------------------- MODULE MCRaftCrash -----------------------------
(* Three Raft nodes that restart: n1 and n2 stand for election, n3 votes. *)
EXTENDS RaftCrash, TLC

CONSTANTS n1, n2, n3

OneTerm == n1 :> 1 @@ n2 :> 1 @@ n3 :> 0
===============================================================================
