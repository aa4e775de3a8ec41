-------------------------------- MODULE MCRaft --------------------------------
(* Clusters of three Raft nodes: n1 and n2 stand for election, n3 votes. *)
EXTENDS Raft, TLC

CONSTANTS n1, n2, n3

TwoTerms == n1 :> 2 @@ n2 :> 2 @@ n3 :> 0
ThreeTerms == n1 :> 3 @@ n2 :> 3 @@ n3 :> 0

\* The candidates are interchangeable: ids are only compared for equality.
MCSymmetry == Permutations({n1, n2})
===============================================================================
