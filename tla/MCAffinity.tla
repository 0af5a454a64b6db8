---------------------------- MODULE MCAffinity ----------------------------
(***************************************************************************)
(* The filter callback of HostPathPVAffinity over the candidate nodes n1   *)
(* and n2.  A pod has three volume references, each "err", "nil" or the    *)
(* hostpath PV "pv"; the PV's mount records name nodes of Nodes, n3 being  *)
(* a node that is not a candidate.  MountErrs and EmptyAnswers say which   *)
(* lookup answers the cache may give.                                      *)
(***************************************************************************)
EXTENDS Affinity

CONSTANTS MountErrs, EmptyAnswers

VARIABLES pod, idx, canSchedule, canNotSchedule, seen, outcome

vars == <<pod, idx, canSchedule, canNotSchedule, seen, outcome>>

Candidates == <<"n1", "n2">>
Nodes == {"n1", "n2", "n3"}

MCPods == [1..3 -> {"err", "nil", "pv"}]

Classes == [share : BOOLEAN, keep : BOOLEAN]

(* Mount record lists: no node twice, so at most three records. *)
RecordLists ==
  {r \in UNION {[1..k -> Nodes] : k \in 0..3} :
     \A i, j \in DOMAIN r : i /= j => r[i] /= r[j]}

UsedAnswers ==
  {[err |-> TRUE, nodes |-> {}]}
    \cup {[err |-> FALSE, nodes |-> ns] : ns \in {{}, {"n1"}, {"n3"}}}

(* IsHostPathPVHasEmptyItemForNode answers for the recorded nodes (the    *)
(* others are never asked).                                               *)
EmptyMaps(r) ==
  {e \in [Nodes -> EmptyAnswers] :
     \A n \in Nodes : e[n] /= "no" => \E i \in 1..Len(r) : r[i] = n}

NoneEmpty == [n \in Nodes |-> "no"]

(* A snapshot per class, with the fields podPVMatchNode never reads for   *)
(* that class held at one value: the used-node map matters only to a      *)
(* shared keep PV without records, the emptiness answers only to an       *)
(* exclusive keep PV, the records only to a keep PV.                      *)
Snap(c, me, r, e, u) ==
  [class |-> [v \in {"pv"} |-> c], mountErr |-> [v \in {"pv"} |-> me],
   records |-> [v \in {"pv"} |-> r], empty |-> [v \in {"pv"} |-> e],
   used |-> [v \in {"pv"} |-> u]]

NoUse == [err |-> FALSE, nodes |-> {}]

MCSnapshots ==
  {Snap(c, me, <<>>, NoneEmpty, NoUse) : c \in {x \in Classes : ~x.keep}, me \in MountErrs}
    \cup {Snap([share |-> TRUE, keep |-> TRUE], me, <<>>, NoneEmpty, u)
            : me \in MountErrs, u \in UsedAnswers}
    \cup {Snap([share |-> TRUE, keep |-> TRUE], me, r, NoneEmpty, NoUse)
            : me \in MountErrs, r \in RecordLists \ {<<>>}}
    \cup UNION {{Snap([share |-> FALSE, keep |-> TRUE], me, r, e, NoUse)
                   : me \in MountErrs, e \in EmptyMaps(r)} : r \in RecordLists}

MCNoSnapshot == CHOOSE s \in MCSnapshots : TRUE

H == INSTANCE FilterHandler WITH
       CandidateNodes <- Candidates, Pods <- MCPods, Snapshots <- MCSnapshots,
       NoSnapshot <- MCNoSnapshot,
       PodMatchNode <- LAMBDA p, n, s : PodMatchNode(s, n, p)

Spec == H!Spec

(* Spec 4.3 and 7: the answer HostPathPVAffinity gave for the node it     *)
(* just evaluated is the one the decision table gives for the cache view  *)
(* it read: the volumes in order, the first refusal or failed lookup      *)
(* deciding.  It covers the shared-keep fallback to the nodes in use, the *)
(* exclusive-keep reuse of empty directories before creating new ones,    *)
(* that a failed lookup is reported, not read as "no records", and that a  *)
(* failed emptiness check is reported whenever it could change the answer, *)
(* in whatever order the mount records come.                               *)
AgreesWithDecisionTable ==
  idx > 1 =>
    outcome \in SpecPodMatchNode(seen, Candidates[idx - 1], pod)
=============================================================================
