------------------------------ MODULE Scoring ------------------------------
(***************************************************************************)
(* The concurrent map/reduce engine of the two priority plugins,           *)
(* HostPathPVDiskUse and HostPathPVSpread (NodesScoring, mapScoringNode,   *)
(* reduceScoringNode in pkg/algorithm/prioritize).                         *)
(*                                                                         *)
(* The calling goroutine ("main") does wg.Add(1) and starts one goroutine  *)
(* per node, then blocks in wg.Wait().  Each node goroutine reads the      *)
(* cache, appends to the shared error slice errs under the mutex mu on     *)
(* every failed lookup, writes its own slot priorityList[i] and runs its   *)
(* deferred wg.Done().  After the barrier, main returns the raw list with  *)
(* an aggregate error if errs is non-empty, and otherwise normalises the   *)
(* list in place.                                                          *)
(*                                                                         *)
(* The cache snapshot the call reads is the variable in, chosen once in    *)
(* Init: in.kind selects the plugin; in.disk[i] is what GetNodeDiskInfo    *)
(* and GetNodeHostPathPVMountInfo return for node i (diskuse); in.pv[v] is *)
(* what GetPodVolumePV returns for pod volume v and in.used[i][v] what     *)
(* GetHostPathPVUsedPodMap returns for it on node i (spread).              *)
(***************************************************************************)
EXTENDS Integers, Sequences, FiniteSets

CONSTANTS
  Kind,         \* the plugin: "diskuse" or "spread"
  NodeName,     \* the request's node list: a sequence of node names
  NumVolumes,   \* volume references of the pod
  DiskInputs,   \* possible diskuse answers for one node
  PVKinds,      \* possible GetPodVolumePV answers: "err", "nil", "shared", "exclusive"
  UsedInputs,   \* possible GetHostPathPVUsedPodMap answers: [err, n]
  NoHost,       \* the empty Host of a slot not yet written
  NoHolder      \* mu is free

ASSUME Kind \in {"diskuse", "spread"} /\ Len(NodeName) >= 1 /\ NumVolumes \in Nat

N     == Len(NodeName)
Nodes == 1..N
Vols  == 1..NumVolumes

DefaultDisk == CHOOSE d \in DiskInputs : TRUE
DefaultUsed == CHOOSE u \in UsedInputs : TRUE

(* The cache snapshots a call of the plugin may read. *)
Inputs ==
  IF Kind = "diskuse" THEN
  {[kind |-> "diskuse", disk |-> d,
    pv |-> [v \in Vols |-> "nil"], used |-> [i \in Nodes |-> [v \in Vols |-> DefaultUsed]]]
     : d \in [Nodes -> DiskInputs]}
  ELSE
  {[kind |-> "spread", disk |-> [i \in Nodes |-> DefaultDisk], pv |-> p, used |-> u]
     : p \in [Vols -> PVKinds], u \in [Nodes -> [Vols -> UsedInputs]]}

VARIABLES
  in,        \* the cache snapshot (constant during the call)
  mpc,       \* main goroutine: "spawn", "wait", "reduce", "returned"
  k,         \* index of the next goroutine main starts
  wg,        \* the WaitGroup counter
  pc,        \* pc[i] of the goroutine of node i
  count,     \* its local count
  vol,       \* its loop index over pod.Spec.Volumes (spread)
  ret,       \* where errAdd returns to
  tmp,       \* its local copy of errs inside append
  mu,        \* holder of the mutex
  errs,      \* the shared error slice (node indices of the appenders)
  slots,     \* priorityList: one pre-allocated slot per node
  errAdded   \* number of completed errAdd calls (history)

vars == <<in, mpc, k, wg, pc, count, vol, ret, tmp, mu, errs, slots, errAdded>>

EmptySlot == [host |-> NoHost, score |-> 0]

Init ==
  /\ in \in Inputs
  /\ mpc = "spawn"
  /\ k = 1
  /\ wg = 0
  /\ pc = [i \in Nodes |-> "idle"]
  /\ count = [i \in Nodes |-> 0]
  /\ vol = [i \in Nodes |-> 1]
  /\ ret = [i \in Nodes |-> "write"]
  /\ tmp = [i \in Nodes |-> <<>>]
  /\ mu = NoHolder
  /\ errs = <<>>
  /\ slots = [i \in Nodes |-> EmptySlot]
  /\ errAdded = 0

-----------------------------------------------------------------------------
(* Mutant: the goroutine is started without wg.Add(1). *)
SpawnNoAdd ==
  /\ mpc = "spawn"
  /\ pc' = [pc EXCEPT ![k] = "map"]
  /\ k' = k + 1
  /\ mpc' = IF k = N THEN "wait" ELSE "spawn"
  /\ UNCHANGED <<in, wg, count, vol, ret, tmp, mu, errs, slots, errAdded>>

(* main: wg.Add(1); go mapScoringNode(..., &priorityList[i], ...) *)
Spawn ==
  /\ mpc = "spawn"
  /\ wg' = wg + 1
  /\ pc' = [pc EXCEPT ![k] = "map"]
  /\ k' = k + 1
  /\ mpc' = IF k = N THEN "wait" ELSE "spawn"
  /\ UNCHANGED <<in, count, vol, ret, tmp, mu, errs, slots, errAdded>>

(* main: wg.Wait(); if len(errs) != 0 return the raw list with the error. *)
Wait ==
  /\ mpc = "wait"
  /\ wg = 0
  /\ mpc' = IF errs /= <<>> THEN "returned" ELSE "reduce"
  /\ UNCHANGED <<in, k, wg, pc, count, vol, ret, tmp, mu, errs, slots, errAdded>>

MaxScore(list) ==
  LET m == {list[i].score : i \in DOMAIN list} \cup {0}
  IN CHOOSE x \in m : \A y \in m : y <= x

(* Mutant: scores rounded up instead of truncated by int(). *)
NormalizeScoreCeil(s, max) ==
  CASE max > 0 /\ in.kind = "diskuse" -> (10 * s + max - 1) \div max
    [] max > 0                         -> (10 * (max - s) + max - 1) \div max
    [] in.kind = "diskuse"             -> 0
    [] OTHER                           -> 10

(* reduceScoringNode of each plugin: int(10 * score / max) for diskuse,  *)
(* int(10 * (max - score) / max) for spread (the float products equal    *)
(* the integer quotients on these ranges).                               *)
NormalizeScore(s, max) ==
  CASE max > 0 /\ in.kind = "diskuse" -> (10 * s) \div max
    [] max > 0                         -> (10 * (max - s)) \div max
    [] in.kind = "diskuse"             -> 0
    [] OTHER                           -> 10

(* main: reduceScoringNode(pod, priorityList); return the list. *)
Reduce ==
  /\ mpc = "reduce"
  /\ slots' = [i \in Nodes |-> [slots[i] EXCEPT !.score =
                                  NormalizeScore(slots[i].score, MaxScore(slots))]]
  /\ mpc' = "returned"
  /\ UNCHANGED <<in, k, wg, pc, count, vol, ret, tmp, mu, errs, errAdded>>

-----------------------------------------------------------------------------
(* HostPathPVDiskUse.mapScoringNode: the score of a node from its summed  *)
(* allocable size and summed volume quotas.                               *)
DiskUseCount(allocable, quota) ==
  IF allocable <= 0 \/ allocable <= quota THEN 0
  ELSE (100 * (allocable - quota)) \div allocable

(* diskuse goroutine: the two lookups; on an error the sums stay 0 and    *)
(* the error is appended before the slot is written.                      *)
DiskUseMap(i) ==
  LET d  == in.disk[i]
      ok == ~d.diskErr /\ ~d.mountErr
  IN /\ pc[i] = "map"
     /\ in.kind = "diskuse"
     /\ count' = [count EXCEPT ![i] =
                    IF ok THEN DiskUseCount(d.allocable, d.quota) ELSE DiskUseCount(0, 0)]
     /\ pc' = [pc EXCEPT ![i] = IF ok THEN "write" ELSE "lock"]
     /\ ret' = [ret EXCEPT ![i] = "write"]
     /\ UNCHANGED <<in, mpc, k, wg, vol, tmp, mu, errs, slots, errAdded>>

(* HostPathPVSpread.mapScoringNode: one iteration over pod.Spec.Volumes.  *)
(* A failed lookup appends an error and continues with the next volume;   *)
(* a shared volume adds 1 if it has users on the node, an exclusive one   *)
(* adds its number of users there.                                        *)
SpreadVolume(i) ==
  LET v    == vol[i]
      pv   == in.pv[v]
      used == in.used[i][v]
      fail == pv = "err" \/ (pv \in {"shared", "exclusive"} /\ used.err)
      add  == CASE pv = "shared" /\ ~used.err    -> IF used.n > 0 THEN 1 ELSE 0
                [] pv = "exclusive" /\ ~used.err -> used.n
                [] OTHER                         -> 0
  IN /\ pc[i] = "map"
     /\ in.kind = "spread"
     /\ v <= NumVolumes
     /\ vol' = [vol EXCEPT ![i] = v + 1]
     /\ count' = [count EXCEPT ![i] = @ + add]
     /\ pc' = [pc EXCEPT ![i] = IF fail THEN "lock" ELSE "map"]
     /\ ret' = [ret EXCEPT ![i] = "map"]
     /\ UNCHANGED <<in, mpc, k, wg, tmp, mu, errs, slots, errAdded>>

(* spread goroutine: the loop over the volumes is finished. *)
SpreadDone(i) ==
  /\ pc[i] = "map"
  /\ in.kind = "spread"
  /\ vol[i] > NumVolumes
  /\ pc' = [pc EXCEPT ![i] = "write"]
  /\ UNCHANGED <<in, mpc, k, wg, count, vol, ret, tmp, mu, errs, slots, errAdded>>

(* Mutant: appendError appends without taking mu. *)
ErrLockNoMutex(i) ==
  /\ pc[i] = "lock"
  /\ pc' = [pc EXCEPT ![i] = "read"]
  /\ UNCHANGED <<in, mpc, k, wg, count, vol, ret, tmp, mu, errs, slots, errAdded>>

(* appendError: mu.Lock() *)
ErrLock(i) ==
  /\ pc[i] = "lock"
  /\ mu = NoHolder
  /\ mu' = i
  /\ pc' = [pc EXCEPT ![i] = "read"]
  /\ UNCHANGED <<in, mpc, k, wg, count, vol, ret, tmp, errs, slots, errAdded>>

(* appendError: append reads the slice header ... *)
ErrRead(i) ==
  /\ pc[i] = "read"
  /\ tmp' = [tmp EXCEPT ![i] = errs]
  /\ pc' = [pc EXCEPT ![i] = "store"]
  /\ UNCHANGED <<in, mpc, k, wg, count, vol, ret, mu, errs, slots, errAdded>>

(* ... and stores the grown slice; the deferred mu.Unlock() follows. *)
ErrStore(i) ==
  /\ pc[i] = "store"
  /\ errs' = Append(tmp[i], i)
  /\ mu' = IF mu = i THEN NoHolder ELSE mu
  /\ errAdded' = errAdded + 1
  /\ pc' = [pc EXCEPT ![i] = ret[i]]
  /\ UNCHANGED <<in, mpc, k, wg, count, vol, ret, tmp, slots>>

(* priority.Host = node.Name; priority.Score = count *)
WriteSlot(i) ==
  /\ pc[i] = "write"
  /\ slots' = [slots EXCEPT ![i] = [host |-> NodeName[i], score |-> count[i]]]
  /\ pc' = [pc EXCEPT ![i] = "done"]
  /\ UNCHANGED <<in, mpc, k, wg, count, vol, ret, tmp, mu, errs, errAdded>>

(* Mutant: the goroutine ends without wg.Done(). *)
DoneNoDecrement(i) ==
  /\ pc[i] = "done"
  /\ pc' = [pc EXCEPT ![i] = "exit"]
  /\ UNCHANGED <<in, mpc, k, wg, count, vol, ret, tmp, mu, errs, slots, errAdded>>

(* the deferred wg.Done() *)
Done(i) ==
  /\ pc[i] = "done"
  /\ wg' = wg - 1
  /\ pc' = [pc EXCEPT ![i] = "exit"]
  /\ UNCHANGED <<in, mpc, k, count, vol, ret, tmp, mu, errs, slots, errAdded>>

(* NodesScoring has returned; the call is over. *)
Returned ==
  /\ mpc = "returned"
  /\ UNCHANGED vars

Worker(i) ==
  \/ DiskUseMap(i) \/ SpreadVolume(i) \/ SpreadDone(i)
  \/ ErrLock(i) \/ ErrRead(i) \/ ErrStore(i)
  \/ WriteSlot(i) \/ Done(i)

Next ==
  \/ Spawn \/ Wait \/ Reduce
  \/ \E i \in Nodes : Worker(i)
  \/ Returned

(* Go schedules every runnable goroutine eventually. *)
Fairness ==
  /\ WF_vars(Spawn \/ Wait \/ Reduce)
  /\ \A i \in Nodes : WF_vars(Worker(i))

Spec == Init /\ [][Next]_vars /\ Fairness

-----------------------------------------------------------------------------
TypeOK ==
  /\ in \in Inputs
  /\ mpc \in {"spawn", "wait", "reduce", "returned"}
  /\ k \in 1..N+1
  /\ wg \in 0..N
  /\ pc \in [Nodes -> {"idle", "map", "lock", "read", "store", "write", "done", "exit"}]
  /\ count \in [Nodes -> Nat]
  /\ vol \in [Nodes -> 1..NumVolumes+1]
  /\ ret \in [Nodes -> {"write", "map"}]
  /\ mu \in Nodes \cup {NoHolder}
  /\ errs \in Seq(Nodes)
  /\ slots \in [Nodes -> [host : {NodeName[i] : i \in Nodes} \cup {NoHost}, score : Nat]]
  /\ errAdded \in Nat

(* Spec section 5: the reduce step never runs while a node goroutine is   *)
(* still active.  It rests on wg.Add(1) preceding every `go` in           *)
(* NodesScoring and on wg.Done() being deferred to the goroutine's end.   *)
BarrierBeforeReduce ==
  mpc \in {"reduce", "returned"} => \A i \in Nodes : pc[i] = "exit"

(* Spec section 5: the error collector is shared by all node goroutines   *)
(* and guarded by mu, so once wg.Wait() returns every failed lookup of    *)
(* every goroutine is in errs: none is lost to a concurrent append.       *)
ErrorsNotLost ==
  mpc \in {"reduce", "returned"} => Len(errs) = errAdded

(* NodesScoring implements its abstract contract AbstractScoring: the      *)
(* returned answer, as the caller sees it, is the fail-closed, positional, *)
(* normalised result of the spec's formulas.                               *)
Abs == INSTANCE AbstractScoring WITH
         out <- IF mpc = "returned"
                THEN [done |-> TRUE, err |-> errs /= <<>>,
                      list |-> IF errs /= <<>> THEN <<>> ELSE slots]
                ELSE [done |-> FALSE, err |-> FALSE, list |-> <<>>]

AbstractSpec == Abs!Spec
=============================================================================
