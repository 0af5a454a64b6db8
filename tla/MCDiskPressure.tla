--------------------------- MODULE MCDiskPressure ---------------------------
(***************************************************************************)
(* The filter callback of HostPathPVDiskPressure over two candidate nodes. *)
(* A pod has two volume references; a node has up to two quota disks of   *)
(* size 1, 2 or 4 and up to two mount records of quota 2, each on one of  *)
(* its disks, on no disk, or with an unknown host path.  DiskPaths is the *)
(* set of disk paths a node may have.                                      *)
(***************************************************************************)
EXTENDS DiskPressure, FiniteSets

CONSTANTS DiskPaths, MCCandidateNodes

VARIABLES pod, idx, canSchedule, canNotSchedule, seen, outcome

vars == <<pod, idx, canSchedule, canNotSchedule, seen, outcome>>

OneNode  == <<"n1">>
TwoNodes == <<"n1", "n2">>

(* Disk paths none of which is a string prefix of another ("/xfs/d1",    *)
(* "/xfs/d2"), and paths where one is ("/xfs/d1", "/xfs/d10").           *)
PrefixFreePaths == {<<"1">>, <<"2">>}
NestedPaths     == {<<"1">>, <<"1", "0">>}

VolumeRefs ==
  {[lookup |-> l, cap |-> 0] : l \in {"err", "nil", "other"}}
  \cup {[lookup |-> "common", cap |-> c] : c \in {0, 1, 2, 3}}

MCPods == VolumeRefs \X VolumeRefs

Disk == [path : DiskPaths, size : {1, 2, 4}]

DiskLists ==
  {<<>>} \cup {<<d>> : d \in Disk}
  \cup {<<d, e>> \in Disk \X Disk : d.path /= e.path}

HostPaths == {<<>>, <<"3", "/", "v">>} \cup {p \o <<"/", "v">> : p \in DiskPaths}

MountLists ==
  LET mi == {[hostPath |-> h, quota |-> 2] : h \in HostPaths}
  IN {<<>>} \cup {<<m>> : m \in mi} \cup (mi \X mi)

MCNoSnapshot == [empty |-> <<"no", "no">>, diskErr |-> FALSE, parts |-> <<>>,
                 mountErr |-> FALSE, mounts |-> <<>>]

MCSnapshots ==
  LET e == [1..2 -> {"err", "yes", "no"}]
  IN  {[empty |-> x, diskErr |-> TRUE, parts |-> <<>>, mountErr |-> FALSE,
        mounts |-> <<>>] : x \in e}
      \cup {[empty |-> x, diskErr |-> FALSE, parts |-> p, mountErr |-> TRUE,
             mounts |-> <<>>] : x \in e, p \in {<<>>, <<[path |-> CHOOSE q \in DiskPaths : TRUE, size |-> 4]>>}}
      \cup {[empty |-> x, diskErr |-> FALSE, parts |-> p, mountErr |-> FALSE,
             mounts |-> m] : x \in e, p \in DiskLists, m \in MountLists}

H == INSTANCE FilterHandler WITH
       CandidateNodes <- MCCandidateNodes, Pods <- MCPods, Snapshots <- MCSnapshots,
       NoSnapshot <- MCNoSnapshot,
       PodMatchNode <- LAMBDA p, n, s : PodMatchNode(p, s)

Spec == H!Spec

(* The non-zero volume sizes the pod asks for on a node. *)
Demand(p, snap) == SelectSeq(GetPodHostpathOfNodeDiskInfos(p, snap).list, LAMBDA c : c > 0)

(* Spec 4.7, for the disk-pressure filter: every candidate node is either *)
(* admitted or has a reason (see FilterHandler).                          *)
EveryNodeAnswered == H!EveryNodeAnswered

TypeOK ==
  /\ pod \in MCPods
  /\ idx \in 1..Len(MCCandidateNodes) + 1
  /\ canSchedule \in Seq(H!NodeSet)
  /\ canNotSchedule \subseteq H!NodeSet
  /\ seen \in MCSnapshots \cup {MCNoSnapshot}
  /\ outcome \in {"none", "match", "nomatch", "error"}
  /\ GetNodeDiskInfos(seen).list \in Seq(Nat)

(* A node HostPathPVDiskPressure admits can take the pod's new volume     *)
(* directories: wherever the mount records of the cache view it read      *)
(* really are (a record with no host path may be on any disk), the        *)
(* requested sizes can be placed on the disks without exceeding any.      *)
(* This rests on getNodeDiskInfos charging every quota to the right disk  *)
(* (strings.HasPrefix on the paths) and on canRequestMatch never placing  *)
(* a request where it does not fit.                                        *)
AdmittedNodeFits ==
  outcome = "match" =>
    \A loc \in Locations(seen) : Fits(Demand(pod, seen), TrueFree(seen, loc))
=============================================================================
