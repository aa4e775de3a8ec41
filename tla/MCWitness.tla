------------------------------ MODULE MCWitness ------------------------------
(* Small instances of Witness: four requests of which two share a key. *)
EXTENDS Witness, TLC

CONSTANTS r1, r2, r3, r4, k1, k2, k3

MCRpcIds == {r1, r2, r3, r4}
MCKeys == {k1, k2, k3}
MCRequests ==
  { [rpc_id |-> r1, key |-> k1],
    [rpc_id |-> r2, key |-> k2],
    [rpc_id |-> r3, key |-> k1],
    [rpc_id |-> r4, key |-> k3] }

\* Handler threads and master ids are interchangeable.
MCSymmetry == Permutations(Threads) \cup Permutations(MasterIds)
=============================================================================
