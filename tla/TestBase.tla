------------------------------ MODULE TestBase ------------------------------
(***************************************************************************)
(* CurpTestBase (dtest_framework.cpp): the fixture of the distributed      *)
(* tests, with a network simulator, a node controller and a consistency    *)
(* checker.  The three share no state and never call each other, so that   *)
(* in each behaviour the test uses one of them.                            *)
(***************************************************************************)
EXTENDS NetworkSimulator, NodeController, ConsistencyChecker

VARIABLE uses       \* the part that the test uses

vars == <<uses, netVars, nodeVars, checkerVars>>

\* SetUp: the network is started.
Init ==
  /\ uses \in {"network", "nodes", "checker"}
  /\ NetInit /\ NodesInit /\ CheckerInit

Next ==
  /\ UNCHANGED uses
  /\ \/ uses = "network" /\ NetNext /\ UNCHANGED <<nodeVars, checkerVars>>
     \/ uses = "nodes" /\ NodesNext /\ UNCHANGED <<netVars, checkerVars>>
     \/ uses = "checker" /\ CheckerNext /\ UNCHANGED <<netVars, nodeVars>>

\* The operating system runs the worker, and the thread of a
\* crash_and_recover when its delay is over.
Spec ==
  /\ Init /\ [][Next]_vars
  /\ WF_vars(uses = "network" /\ Worker /\ UNCHANGED <<uses, nodeVars, checkerVars>>)
  /\ \A n \in Ids :
       WF_vars(uses = "nodes" /\ RestartEnd(n) /\ UNCHANGED <<uses, netVars, checkerVars>>)
=============================================================================
