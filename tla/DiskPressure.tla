---------------------------- MODULE DiskPressure ----------------------------
(***************************************************************************)
(* HostPathPVDiskPressure.PodMatchNode                                     *)
(* (pkg/algorithm/predicate/hostpathpv_disk_pressure.go): may the pod's    *)
(* hostpath volumes still be created on the node's quota disks?            *)
(*                                                                         *)
(* A pod is a sequence of volume references, each                          *)
(*   [lookup |-> "err" | "nil" | "other" | "common", cap |-> capacity]     *)
(* where lookup is the answer of GetPodVolumePV / IsCommonHostPathPV and   *)
(* cap the answer of GetHostPathPVCapacity (0 when it fails to parse, as   *)
(* the code discards that error).  A snapshot is what the cache says of    *)
(* the candidate node:                                                     *)
(*   empty[v]  IsHostPathPVHasEmptyItemForNode for volume v: "err"|"yes"|"no"*)
(*   diskErr   GetNodeDiskInfo failed                                      *)
(*   parts     its quota disks: [path, size], in the provider's order      *)
(*   mountErr  GetNodeHostPathPVMountInfo failed                           *)
(*   mounts    its mount records: [hostPath, quota], hostPath <<>> unknown *)
(* Paths are sequences of symbols, so that strings.HasPrefix is IsPrefix:  *)
(* "/xfs/d1" and "/xfs/d10" are <<"1">> and <<"1", "0">>, a volume         *)
(* directory on the disk with path p is p \o <<"/", "v">>.                 *)
(***************************************************************************)
EXTENDS Integers, SequencesExt, TLC

(* DiskInfoList.Less: ascending by size.  The tie-break on the path does   *)
(* not change the sequence of sizes, which is all canRequestMatch reads.   *)
SortSizes(s) == SortSeq(s, LAMBDA a, b : a < b)

(* getPodHostpathOfNodeDiskInfos: walk pod.Spec.Volumes; a lookup error   *)
(* returns at once; a hostpath volume that already has an empty directory *)
(* on the node asks for nothing; every other common hostpath volume asks  *)
(* for its capacity.  The request list is sorted.                         *)
RECURSIVE CollectRequests(_, _, _, _)
CollectRequests(pod, snap, i, acc) ==
  IF i > Len(pod) THEN acc
  ELSE LET v == pod[i] IN
       CASE v.lookup = "err" -> [acc EXCEPT !.err = TRUE]
         [] v.lookup \in {"nil", "other"} -> CollectRequests(pod, snap, i + 1, acc)
         [] snap.empty[i] = "err" -> [acc EXCEPT !.err = TRUE, !.has = TRUE]
         [] snap.empty[i] = "yes" ->
              CollectRequests(pod, snap, i + 1, [acc EXCEPT !.has = TRUE])
         [] OTHER ->
              CollectRequests(pod, snap, i + 1,
                [acc EXCEPT !.has = TRUE, !.total = @ + v.cap, !.list = Append(@, v.cap)])

GetPodHostpathOfNodeDiskInfos(pod, snap) ==
  LET r == CollectRequests(pod, snap, 1,
             [err |-> FALSE, has |-> FALSE, total |-> 0, list |-> <<>>])
  IN [r EXCEPT !.list = SortSizes(@)]

(* getNodeDiskInfos, the inner loop for one mount record: the quota is    *)
(* taken from the first disk whose path is a string prefix of the record's *)
(* host path; a record with no host path is taken from every disk.        *)
RECURSIVE SubtractMount(_, _, _, _)
SubtractMount(parts, sizes, mi, j) ==
  IF j > Len(parts) THEN sizes
  ELSE IF IsPrefix(parts[j].path, mi.hostPath)
       THEN [sizes EXCEPT ![j] = @ - mi.quota]
       ELSE IF mi.hostPath = <<>>
            THEN SubtractMount(parts, [sizes EXCEPT ![j] = @ - mi.quota], mi, j + 1)
            ELSE SubtractMount(parts, sizes, mi, j + 1)

(* Mutant: getNodeDiskInfos without the clamp of over-charged disks at 0. *)
GetNodeDiskInfosNoClamp(snap) ==
  LET sizes == FoldLeft(LAMBDA s, mi : SubtractMount(snap.parts, s, mi, 1),
                        [j \in 1..Len(snap.parts) |-> snap.parts[j].size],
                        snap.mounts)
      left  == [j \in DOMAIN sizes |-> sizes[j]]
  IN CASE snap.diskErr -> [err |-> TRUE, allocable |-> 0, list |-> <<>>]
       [] snap.parts = <<>> -> [err |-> FALSE, allocable |-> 0, list |-> <<>>]
       [] snap.mountErr -> [err |-> TRUE, allocable |-> 0, list |-> <<>>]
       [] OTHER -> [err |-> FALSE, allocable |-> SumFunction(left),
                    list |-> SortSizes(left)]

(* getNodeDiskInfos: the node's disks less the quotas of its mount        *)
(* records, clamped at 0, summed and sorted.                              *)
GetNodeDiskInfos(snap) ==
  LET sizes   == FoldLeft(LAMBDA s, mi : SubtractMount(snap.parts, s, mi, 1),
                          [j \in 1..Len(snap.parts) |-> snap.parts[j].size],
                          snap.mounts)
      clamped == [j \in DOMAIN sizes |-> IF sizes[j] < 0 THEN 0 ELSE sizes[j]]
  IN CASE snap.diskErr -> [err |-> TRUE, allocable |-> 0, list |-> <<>>]
       [] snap.parts = <<>> -> [err |-> FALSE, allocable |-> 0, list |-> <<>>]
       [] snap.mountErr -> [err |-> TRUE, allocable |-> 0, list |-> <<>>]
       [] OTHER -> [err |-> FALSE, allocable |-> SumFunction(clamped),
                    list |-> SortSizes(clamped)]

(* Mutant: canRequestMatch does not take an accepted request from the disk. *)
RECURSIVE CanRequestMatchNoTake(_, _, _, _)
CanRequestMatchNoTake(request, haveNow, ir, ih) ==
  CASE ir > Len(request) -> TRUE
    [] ih > Len(haveNow) -> FALSE
    [] request[ir] <= haveNow[ih] -> CanRequestMatchNoTake(request, haveNow, ir + 1, ih)
    [] OTHER -> CanRequestMatchNoTake(request, haveNow, ir, ih + 1)

(* canRequestMatch: one pass over both ascending lists.  A request that   *)
(* fits the current disk is taken from it; otherwise the disk is left for *)
(* good.  It matches when the requests run out first.                     *)
RECURSIVE CanRequestMatchFrom(_, _, _, _)
CanRequestMatchFrom(request, haveNow, ir, ih) ==
  CASE ir > Len(request) -> TRUE
    [] ih > Len(haveNow) -> FALSE
    [] request[ir] <= haveNow[ih] ->
         CanRequestMatchFrom(request, [haveNow EXCEPT ![ih] = @ - request[ir]], ir + 1, ih)
    [] OTHER -> CanRequestMatchFrom(request, haveNow, ir, ih + 1)

CanRequestMatch(request, haveNow) == CanRequestMatchFrom(request, haveNow, 1, 1)

(* HostPathPVDiskPressure.PodMatchNode, in the order of its early returns. *)
PodMatchNode(pod, snap) ==
  LET req  == GetPodHostpathOfNodeDiskInfos(pod, snap)
      node == GetNodeDiskInfos(snap)
  IN CASE req.err -> "error"
       [] ~req.has -> "match"
       [] req.total = 0 \/ req.list = <<>> -> "match"
       [] node.err -> "error"
       [] req.total > node.allocable -> IF node.allocable <= 0 THEN "nomatch" ELSE "error"
       [] ~CanRequestMatch(req.list, node.list) -> "error"
       [] OTHER -> "match"

-----------------------------------------------------------------------------
(* Reference definitions: where the volumes really are and whether the    *)
(* requests really fit.                                                   *)

(* A mount record's directory lies on disk j iff the disk's path followed *)
(* by a separator is a prefix of the record's host path.                  *)
OnDisk(snap, mi, j) == IsPrefix(snap.parts[j].path \o <<"/">>, mi.hostPath)

(* The disk of each mount record: its own disk, or, for a record with no  *)
(* host path, any disk at all (loc says which).                           *)
Locations(snap) ==
  {loc \in [1..Len(snap.mounts) -> 1..Len(snap.parts)] :
     \A m \in 1..Len(snap.mounts) :
        snap.mounts[m].hostPath /= <<>> =>
          (OnDisk(snap, snap.mounts[m], loc[m])
           \/ (\A j \in 1..Len(snap.parts) : ~OnDisk(snap, snap.mounts[m], j)))}

(* Free space of each disk when the records are where loc puts them.      *)
TrueFree(snap, loc) ==
  [j \in 1..Len(snap.parts) |->
     snap.parts[j].size
     - SumFunction([m \in {m \in 1..Len(snap.mounts) :
                             loc[m] = j /\ (snap.mounts[m].hostPath = <<>>
                                            \/ OnDisk(snap, snap.mounts[m], j))}
                      |-> snap.mounts[m].quota])]

(* Some assignment of the requests to disks respects every disk's space. *)
RECURSIVE Fits(_, _)
Fits(request, free) ==
  IF request = <<>> THEN TRUE
  ELSE \E j \in DOMAIN free :
         /\ Head(request) <= free[j]
         /\ Fits(Tail(request), [free EXCEPT ![j] = @ - Head(request)])
=============================================================================
