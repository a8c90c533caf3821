------------------------------ MODULE LdChecker ------------------------------
(***************************************************************************)
(* The check of the storage cluster (ld_health_checker.cpp): one request   *)
(* to every node for its view of the cluster, a callback for each answer   *)
(* or timeout, and a verdict once the last callback has run.               *)
(*                                                                         *)
(* Nodes are those of the service discovery configuration, Gone are nodes  *)
(* that were removed from it but that the others still report as dead.     *)
(***************************************************************************)
EXTENDS FiniteSets, Integers

CONSTANTS Nodes, Gone, unhealthy_node_limit

ASSUME NodesAssumption ==
  /\ IsFiniteSet(Nodes) /\ Nodes # {}
  /\ Nodes \cap Gone = {}
  /\ unhealthy_node_limit \in Nat

VARIABLES
  up,               \* the nodes that run (LogDevice)
  posted_requests,  \* the nodes whose callback is still to run
  stateResults_,    \* the nodes whose state is not 0 in an answer since clearResults
  round             \* history: nodes down at some time, and all the time, in this check

checkerVars == <<up, posted_requests, stateResults_, round>>

noRound == [ever |-> {}, always |-> {}]

CheckerInit ==
  /\ up = Nodes
  /\ posted_requests = {}
  /\ stateResults_ = {}
  /\ round = noRound

-----------------------------------------------------------------------------
(* The nodes. *)

nodeFails(n) ==
  /\ n \in up
  /\ up' = up \ {n}
  /\ round' = IF posted_requests = {} THEN round ELSE [round EXCEPT !.ever = @ \union {n}]
  /\ UNCHANGED <<posted_requests, stateResults_>>

nodeRecovers(n) ==
  /\ n \in Nodes \ up
  /\ up' = up \union {n}
  /\ round' = [round EXCEPT !.always = @ \ {n}]
  /\ UNCHANGED <<posted_requests, stateResults_>>

-----------------------------------------------------------------------------
(* LdChecker *)

\* Mutant: clearResults is forgotten.
getClusterState_KeepsResults ==
  /\ posted_requests = {}
  /\ posted_requests' = Nodes
  /\ round' = [ever |-> Nodes \ up, always |-> Nodes \ up]
  /\ UNCHANGED <<up, stateResults_>>

\* clearResults, and a GetClusterStateRequest for every node of the configuration.
getClusterState ==
  /\ posted_requests = {}
  /\ posted_requests' = Nodes
  /\ stateResults_' = {}
  /\ round' = [ever |-> Nodes \ up, always |-> Nodes \ up]
  /\ UNCHANGED up

\* The callback of the request to n. A node that runs answers with its view of
\* the others or too late; from one that does not there is only the timeout. Of
\* the results check uses those with status OK, and of these what they report.
addResult(n) ==
  /\ n \in posted_requests
  /\ posted_requests' = posted_requests \ {n}
  /\ \/ n \in up /\ stateResults_' = stateResults_ \union (Nodes \ up) \union Gone
     \/ UNCHANGED stateResults_
  /\ UNCHANGED <<up, round>>

\* The checker of a new process; the callbacks due in the old one never run.
newLdChecker ==
  /\ posted_requests' = {} /\ stateResults_' = {} /\ round' = noRound
  /\ UNCHANGED up

\* The nodes of the configuration that some answer reports as not alive.
unhealthy_nodes_set == stateResults_ \cap Nodes

check == Cardinality(unhealthy_nodes_set) <= unhealthy_node_limit

CheckerTypeOK ==
  /\ up \subseteq Nodes
  /\ posted_requests \subseteq Nodes
  /\ stateResults_ \subseteq Nodes \union Gone
  /\ round \in [ever: SUBSET Nodes, always: SUBSET Nodes]
=============================================================================
