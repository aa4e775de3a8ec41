---------------------------- MODULE MCCurpSystem ----------------------------
(* Small instances of CurpSystem: a put and a delete on one key, a put on
   another; one or two witnesses. *)
EXTENDS CurpSystem, TLC

CONSTANTS r1, r2, r3, k1, k2, x1, x2

MCRpcIds == {r1, r2, r3}
MCKeys == {k1, k2}
MCKeyOf == (r1 :> k1) @@ (r2 :> k1) @@ (r3 :> k2)
MCTypeOf == (r1 :> "PUT") @@ (r2 :> "DELETE_OP") @@ (r3 :> "PUT")

\* The two operations on one key only.
TwoRpcIds == {r1, r2}
TwoKeyOf == (r1 :> k1) @@ (r2 :> k1)
TwoTypeOf == (r1 :> "PUT") @@ (r2 :> "DELETE_OP")

\* Every operation proposed once, or the first one twice.
Once == [r \in RpcIds |-> 1]
FirstTwice == [r \in RpcIds |-> IF r = r1 THEN 2 ELSE 1]

\* One witness, local to the master, or two remote ones.
OneAddr == <<x1>>
TwoAddrs == <<x1, x2>>
NoClients == <<>>
=============================================================================
