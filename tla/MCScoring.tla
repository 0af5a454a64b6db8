----------------------------- MODULE MCScoring -----------------------------
(* Model-checking instances of Scoring.  diskuse: three nodes whose disk  *)
(* answers cover a failed lookup of each kind, a node with no capacity, a *)
(* full node and distinct non-zero raw scores (66, 75, 100).  spread: two *)
(* nodes and two volumes, with every GetPodVolumePV answer and a failed,  *)
(* an empty and a two-pod GetHostPathPVUsedPodMap answer.                  *)
EXTENDS Scoring

MCNodeName3 == <<"n1", "n2", "n3">>
MCNodeName2 == <<"n1", "n2">>

MCDiskInputs ==
  {[diskErr |-> TRUE,  mountErr |-> FALSE, allocable |-> 0, quota |-> 0],
   [diskErr |-> FALSE, mountErr |-> TRUE,  allocable |-> 0, quota |-> 0]}
  \cup
  {[diskErr |-> FALSE, mountErr |-> FALSE, allocable |-> a, quota |-> q]
     : a \in {0, 3, 4}, q \in {0, 1, 4}}

MCUsedInputs ==
  {[err |-> TRUE, n |-> 0]} \cup {[err |-> FALSE, n |-> c] : c \in {0, 2}}
=============================================================================
