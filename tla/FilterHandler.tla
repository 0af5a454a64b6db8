--------------------------- MODULE FilterHandler ---------------------------
(***************************************************************************)
(* Predicate.Handler (pkg/algorithm/predicate/predicate.go): the filter    *)
(* callback of one predicate plugin.  It walks the request's node list in  *)
(* order, calls the plugin's PodMatchNode(pod, node) for each node, keeps  *)
(* the matching nodes in canSchedule and records the error text of every   *)
(* node whose evaluation failed in the map canNotSchedule.                 *)
(*                                                                         *)
(* PodMatchNode reads the shared informer cache when it is called, and the *)
(* cache keeps changing while the loop runs: each node is evaluated        *)
(* against the cache view ("snapshot") current at that moment, any member  *)
(* of Snapshots.  The answer is "match", "nomatch" (false, nil) or "error".*)
(***************************************************************************)
EXTENDS Integers, Sequences

CONSTANTS
  CandidateNodes,    \* args.Nodes.Items, by name
  Pods,              \* the pods a request may carry
  Snapshots,         \* the cache views a node may be evaluated against
  NoSnapshot,        \* seen before the first evaluation
  PodMatchNode(_, _, _) \* the plugin: (pod, node, snapshot) -> answer

VARIABLES
  pod,               \* args.Pod
  idx,               \* loop index over args.Nodes.Items
  canSchedule,       \* admitted nodes, in order
  canNotSchedule,    \* names of the nodes with an error entry
  seen,              \* cache view of the latest evaluation
  outcome            \* answer of the latest evaluation

hvars == <<pod, idx, canSchedule, canNotSchedule, seen, outcome>>

Init ==
  /\ pod \in Pods
  /\ idx = 1
  /\ canSchedule = <<>>
  /\ canNotSchedule = {}
  /\ seen = NoSnapshot
  /\ outcome = "none"

(* One loop iteration: result, err := p.PodMatchNode(pod, node). *)
EvaluateNode ==
  /\ idx <= Len(CandidateNodes)
  /\ \E s \in Snapshots :
       LET node == CandidateNodes[idx]
           r    == PodMatchNode(pod, node, s)
       IN /\ seen' = s
          /\ outcome' = r
          /\ canSchedule' = IF r = "match" THEN Append(canSchedule, node) ELSE canSchedule
          /\ canNotSchedule' = IF r = "error" THEN canNotSchedule \cup {node}
                               ELSE canNotSchedule
  /\ idx' = idx + 1
  /\ UNCHANGED pod

(* The ExtenderFilterResult has been returned. *)
Responded ==
  /\ idx > Len(CandidateNodes)
  /\ UNCHANGED hvars

Next == EvaluateNode \/ Responded

Spec == Init /\ [][Next]_hvars /\ WF_hvars(EvaluateNode)

Finished == idx > Len(CandidateNodes)

NodeSet == {CandidateNodes[i] : i \in 1..Len(CandidateNodes)}
Admitted == {canSchedule[i] : i \in 1..Len(canSchedule)}

(* Spec 4.7: the handler partitions the candidates into the admitted nodes *)
(* and a per-node reason map for rejections and errors, so once the loop  *)
(* is over every candidate node is either admitted or has a reason.       *)
(* Handler only records a reason when PodMatchNode returns an error; a    *)
(* plain (false, nil) rejection leaves the node in neither.               *)
EveryNodeAnswered ==
  Finished => \A n \in NodeSet : n \in Admitted \/ n \in canNotSchedule
=============================================================================
