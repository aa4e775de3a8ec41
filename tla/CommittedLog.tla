----------------------------- MODULE CommittedLog -----------------------------
(***************************************************************************)
(* What Raft promises of commits: there is one log of chosen entries, to   *)
(* which entries are only ever appended, and each node knows a prefix of   *)
(* it, which only ever grows.                                              *)
(***************************************************************************)
EXTENDS Sequences, SequencesExt

CONSTANT Nodes

VARIABLES
  chosen,         \* the entries chosen so far
  known           \* the prefix of them that each node knows

vars == <<chosen, known>>

Init ==
  /\ chosen = <<>>
  /\ known = [n \in Nodes |-> <<>>]

\* A node that knows some of the chosen entries learns more of them.
Learn(n) ==
  /\ IsStrictPrefix(known[n], known'[n]) /\ IsPrefix(known'[n], chosen)
  /\ known' = [known EXCEPT ![n] = known'[n]]
  /\ UNCHANGED chosen

\* The leader chooses entries behind those chosen before, and knows them all.
Choose(n) ==
  /\ IsStrictPrefix(chosen, chosen')
  /\ known' = [known EXCEPT ![n] = chosen']

Next == \E n \in Nodes : Learn(n) \/ Choose(n)

Spec == Init /\ [][Next]_vars
=============================================================================
