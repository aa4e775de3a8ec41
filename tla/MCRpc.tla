-------------------------------- MODULE MCRpc --------------------------------
(* Calls of every method of the proto files, with integers of two bits in the
   place of those of 32. *)
EXTENDS Rpc

\* A value that fits everywhere and one that only 64 bits hold.
TwoValues == {1, Two32 + 2}
===============================================================================
