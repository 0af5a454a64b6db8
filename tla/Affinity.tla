------------------------------ MODULE Affinity ------------------------------
(***************************************************************************)
(* HostPathPVAffinity.PodMatchNode                                         *)
(* (pkg/algorithm/predicate/hostpathpv_affinity.go): may the pod's         *)
(* hostpath volumes be placed on the node?                                 *)
(*                                                                         *)
(* A pod is a sequence of volume references: "err" (GetPodVolumePV fails), *)
(* "nil" (not a hostpath PV) or a PV.  A snapshot is what the cache and    *)
(* the PV's metadata say of every PV:                                      *)
(*   class[v]    [share, keep] (IsSharedHostPathPV, IsKeepHostPathPV)      *)
(*   mountErr[v] GetHostPathPVMountInfoList failed                         *)
(*   records[v]  its mount records: the sequence of their node names       *)
(*   empty[v][n] IsHostPathPVHasEmptyItemForNode(v, n): "yes"|"no"|"err"   *)
(*   used[v]     GetHostPathPVUsedNodeMap: [err, nodes]                    *)
(* The node being checked is an argument: its name.                        *)
(***************************************************************************)
EXTENDS Integers, Sequences

(* GetHostPathPVMountInfoList: its error is discarded, and the list it    *)
(* returns with an error is empty.                                        *)
MountInfos(snap, v) == IF snap.mountErr[v] THEN <<>> ELSE snap.records[v]

(* Mutant: with records and no empty one anywhere, the node is refused    *)
(* instead of getting a new directory.                                    *)
RECURSIVE KeepTrueNoCreate(_, _, _, _, _)
KeepTrueNoCreate(snap, v, node, i, hasEmpty) ==
  LET recs == MountInfos(snap, v) IN
  CASE i > Len(recs) -> "nomatch"
    [] snap.empty[v][recs[i]] = "err" -> "error"
    [] snap.empty[v][recs[i]] = "yes" /\ recs[i] = node -> "match"
    [] snap.empty[v][recs[i]] = "yes" -> KeepTrueNoCreate(snap, v, node, i + 1, TRUE)
    [] OTHER -> KeepTrueNoCreate(snap, v, node, i + 1, hasEmpty)

(* Exclusive and keep, records present: the loop over the records in      *)
(* order.  A failed emptiness check returns an error; the node's own      *)
(* empty record returns true; any other empty record is remembered.       *)
RECURSIVE KeepTrueFrom(_, _, _, _, _)
KeepTrueFrom(snap, v, node, i, hasEmpty) ==
  LET recs == MountInfos(snap, v) IN
  CASE i > Len(recs) -> IF hasEmpty THEN "nomatch" ELSE "match"
    [] snap.empty[v][recs[i]] = "err" -> "error"
    [] snap.empty[v][recs[i]] = "yes" /\ recs[i] = node -> "match"
    [] snap.empty[v][recs[i]] = "yes" -> KeepTrueFrom(snap, v, node, i + 1, TRUE)
    [] OTHER -> KeepTrueFrom(snap, v, node, i + 1, hasEmpty)

(* podPVMatchNode for one volume reference, in the order of its returns:  *)
(* "match", "nomatch" or "error".                                         *)
PodPVMatchNode(snap, node, ref) ==
  IF ref = "err" THEN "error"
  ELSE IF ref = "nil" THEN "match"
  ELSE LET c    == snap.class[ref]
           recs == MountInfos(snap, ref)
       IN CASE c.share /\ c.keep /\ recs = <<>> ->
                 CASE snap.used[ref].err -> "error"
                   [] snap.used[ref].nodes = {} -> "match"
                   [] node \in snap.used[ref].nodes -> "match"
                   [] OTHER -> "nomatch"
            [] c.share /\ c.keep ->
                 IF \E i \in 1..Len(recs) : recs[i] = node THEN "match" ELSE "nomatch"
            [] ~c.share /\ c.keep /\ recs = <<>> -> "match"
            [] ~c.share /\ c.keep -> KeepTrueFrom(snap, ref, node, 1, FALSE)
            [] OTHER -> "match"

(* PodMatchNode: the volumes in order; the first error or refusal ends it. *)
RECURSIVE PodMatchNodeFrom(_, _, _, _)
PodMatchNodeFrom(snap, node, pod, i) ==
  IF i > Len(pod) THEN "match"
  ELSE LET r == PodPVMatchNode(snap, node, pod[i])
       IN IF r = "match" THEN PodMatchNodeFrom(snap, node, pod, i + 1) ELSE r

PodMatchNode(snap, node, pod) == PodMatchNodeFrom(snap, node, pod, 1)

-----------------------------------------------------------------------------
(* Reference: the decision table of spec section 4.3, with section 7's    *)
(* rule that a failed lookup surfaces as an error for the node, as the    *)
(* set of answers it allows.  A node whose own directory is empty matches *)
(* whatever the other records say, so a failed emptiness check of another *)
(* record may then be reported or not; otherwise it must be reported.     *)
RecordNodes(snap, v) == {snap.records[v][i] : i \in 1..Len(snap.records[v])}

SpecVolume(snap, node, ref) ==
  IF ref = "err" THEN {"error"}
  ELSE IF ref = "nil" THEN {"match"}
  ELSE LET c      == snap.class[ref]
           recs   == RecordNodes(snap, ref)
           empty  == {n \in recs : snap.empty[ref][n] = "yes"}
           failed == {n \in recs : snap.empty[ref][n] = "err"}
       IN CASE c.keep /\ snap.mountErr[ref] -> {"error"}
            [] c.share /\ c.keep /\ recs = {} /\ snap.used[ref].err -> {"error"}
            [] c.share /\ c.keep /\ recs = {} ->
                 IF snap.used[ref].nodes /= {} /\ node \notin snap.used[ref].nodes
                 THEN {"nomatch"} ELSE {"match"}
            [] c.share /\ c.keep -> IF node \in recs THEN {"match"} ELSE {"nomatch"}
            [] c.keep /\ node \in empty ->
                 {"match"} \cup (IF failed /= {} THEN {"error"} ELSE {})
            [] c.keep /\ failed /= {} -> {"error"}
            [] c.keep /\ empty = {} -> {"match"}
            [] c.keep -> {"nomatch"}
            [] OTHER -> {"match"}

(* The pod matches when every volume does; the first volume in the pod's  *)
(* order that does not match decides between an error and a refusal.     *)
RECURSIVE SpecPodMatchFrom(_, _, _, _)
SpecPodMatchFrom(snap, node, pod, i) ==
  IF i > Len(pod) THEN {"match"}
  ELSE LET allowed == SpecVolume(snap, node, pod[i])
       IN (allowed \ {"match"})
            \cup (IF "match" \in allowed THEN SpecPodMatchFrom(snap, node, pod, i + 1) ELSE {})

SpecPodMatchNode(snap, node, pod) == SpecPodMatchFrom(snap, node, pod, 1)
=============================================================================
