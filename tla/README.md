# TLA+ models of the hostpath scheduler extender

These modules model the Go program under `src/pkg`. It is a Kubernetes scheduler extender that serves filter plugins (predicates) and scoring plugins (priorities) over HTTP. The modules are checked with TLC. `PROJECT.json` lists:

- the components;
- the runs and the mutants that show each property can fail;
- the map from every definition to the source lines it translates;
- the findings and the hazards.

## 1. The system

| Part | Source | State | Operations |
|---|---|---|---|
| Predicate registry | `algorithm/predicate/predicate.go` | `predicateList`, `predicateMu`, `inited` | `Regist`, `Init`, `Ready`, `InstallHttpServer`, `Handler`, `predicateRoute` |
| Priority registry | `algorithm/prioritize/prioritize.go` | `prioritizeList`, `prioritizeMu`, `inited` | the same, with `prioritieRoute` |
| Affinity predicate | `predicate/hostpathpv_affinity.go` | listers and `hasSynced`, set by `Init` | `podPVMatchNode`, `PodMatchNode` |
| Disk-pressure predicate | `predicate/hostpathpv_disk_pressure.go` | listers | `getPodHostpathOfNodeDiskInfos`, `getNodeDiskInfos`, `canRequestMatch`, `PodMatchNode` |
| Namespace node selector | `predicate/namespaces_nodeselector*.go` | a package-level config-map cache; an admin HTTP server | `PodMatchNode`, the admin routes |
| DiskUse scorer | `prioritize/hostpathpv_diskuse.go` | per call: `WaitGroup`, mutex, `errs`, `priorityList` | `NodesScoring`, `mapScoringNode`, `reduceScoringNode` |
| Spread scorer | `prioritize/hostpathpv_spread.go` | the same | the same |
| Start-up | `main.go` | informer factory, HTTP container | `initAll`, `waitReady`, `installHttpServer`, `ListenAndServe` |

How the parts interact:

1. Each plugin file's `init()` calls `Regist` during package initialisation.
2. `main` checks its `-runMode` flag (a fatal exit on an unknown value), builds the client set (exit 1 on an error), and starts the policy server in modes `all` and `backendonly`. In `backendonly` it then blocks forever on a stop channel that nobody closes. Otherwise it calls `initAll`. Each registry's `Init` wires every registered plugin to the shared informer caches (listers and a `hasSynced` closure).
3. `waitReady` starts the informers and polls `predicate.Ready`, then `prioritize.Ready`.
4. `installHttpServer` adds one endpoint per registered plugin.
5. Every request runs in its own goroutine:
   - A filter request runs `Handler`. It calls the plugin's `PodMatchNode` for each candidate node, in order, against the live cache.
   - A scoring request runs `NodesScoring`. It starts one goroutine per node, joins them on a `WaitGroup`, collects errors in a mutex-guarded slice, and then normalises the scores.

The cache readers of the `algorithm` package are not in this tree. The models treat their answers as inputs: a *snapshot* is one possible set of answers, including every error the callers handle.

Hard behaviours:

- concurrent goroutines sharing an error slice;
- the barrier before the reduce step;
- positional result slots;
- a live cache read node by node;
- quota accounting on string prefixes;
- a greedy bin-packing pass;
- errors that are discarded (`predicate.go:85`, `hostpathpv_affinity.go:62`, `hostpathpv_disk_pressure.go:84`);
- a start-up wait with no timeout.

## 2. Modules

| Module | Models | Kind |
|---|---|---|
| `Scoring` | `NodesScoring`, `mapScoringNode`, `reduceScoringNode` of both scorers (`Kind` selects which) | state machine: main goroutine `mpc`, per-node `pc[i]`, `wg`, `mu`, `errs`, `slots` |
| `AbstractScoring` | what a scoring call promises (spec 4.5, 4.6): one atomic step from pending to the normalised, positional, fail-closed answer | abstract spec |
| `FilterHandler` | `Predicate.Handler`, parameterised by the plugin's `PodMatchNode(_, _, _)` | state machine over the node loop; each iteration reads any snapshot |
| `DiskPressure` | the disk-pressure predicate, as pure operators (RECURSIVE for the loops), plus reference definitions `Locations`, `TrueFree` and `Fits` | operators |
| `Affinity` | the affinity predicate, as operators, plus `SpecPodMatchNode`, the set of answers the decision table of spec 4.3 and 7 allows, written independently | operators |
| `Registry` | both registries and `main`'s start-up: `Regist`, each plugin's `Init`, `inited`, `Ready` (including the nil-`hasSynced` panic), informer sync, `waitReady`'s polling, install, the policy server's start and its fatal exit | state machine |
| `NsNodeSelector` | the namespace node-selector predicate (`getConfigCM`, `GetNsConfigByConfigMap`, `GetNsLabelSelector`) the admin route `NsNodeSelectorAddUpdateOrDelete` with `getSelectorConfigMap`, `SetNsNodeSelectorConfigMapNsConfig` and `CreateOrUpdateSchedulerPolicyConfigMap`, and the route `NsNodeSelectorRefresh` that deletes misplaced pods | state machine: the stored config map and its resourceVersion, a heap of config-map objects, the 5 s cache (`global`, `fresh`), per-request `apc`, the bound pods |
| `MCScoring`, `MCDiskPressure`, `MCAffinity`, `MCRegistry`, `MCNsNodeSelector` | instantiation for TLC | model values and bounds |

How the modules correspond to the code:

- **Scoring:**
  - `Spawn` is one iteration of the spawn loop (`wg.Add(1)`; `go`).
  - `DiskUseMap` is DiskUse's body. `SpreadVolume` and `SpreadDone` are Spread's volume loop.
  - `appendError` is split into `ErrLock`, `ErrRead` and `ErrStore`: the lock, then the read and the write of `append`. This is what makes a lost append visible.
  - `WriteSlot` writes `priorityList[i]`. `Done` is the deferred `wg.Done()`.
  - `Wait` is `wg.Wait()` and the error check. `Reduce` is `reduceScoringNode`.
  - `Scoring` implements `AbstractScoring`, liveness included, under the mapping `out <- IF mpc = "returned" THEN <answer> ELSE pending`. TLC checks `AbstractSpec` as a PROPERTY.
- **FilterHandler:** `EvaluateNode` is one iteration of `Handler`'s loop. The answer `"match"`/`"nomatch"`/`"error"` stands for `(true, nil)`/`(false, nil)`/`(_, err)`.
- **Paths:** paths are sequences of symbols (`/xfs/d10` is `<<"1","0">>`), so `strings.HasPrefix` is `IsPrefix`.
- **NsNodeSelector:**
  - A config is the `NsConfig` its JSON encodes. `Nil` (an empty function) stands for Go's nil, so the model keeps a nil map apart from an empty one, as `json.Marshal` does. A key maps to its set of values, and `{}` means the key is absent.
  - Config-map objects are kept in `heap`, so an admin request that takes the cached object edits the same object the predicate reads.
  - An admin request takes four steps:
    - `Read`: `getSelectorConfigMap`, `GetNamespaces`, the parse and the edit, or an error answer.
    - `SetConfig`: `SetNsNodeSelectorConfigMapNsConfig`.
    - `GetCurrent`: the GET of `CreateOrUpdate`.
    - `WriteConfig`: `Create` or `Update`. The API server refuses a stale resourceVersion.
  - `Schedule(ns, n)` is the predicate's `PodMatchNode`; an admitted pod is bound, and `pods` holds the bound pods as `<<namespace, node>>` pairs.
  - `Refresh(ns)` is `NsNodeSelectorRefresh` in one step: `GetNodes` (an error ends it), the config through `getNsNodeSelectorConfigMap(true)`, the selector, `GetPods` (an error ends it), and a `DeletePod` for each bound pod of `ns` on a node the selector refuses, any of which may fail on its own.
  - `Expire` is the 5 s timeout running out.
  - `Faults` selects which API calls may fail.
  - `requested`, `lastAck` and `everStored` are history variables.
  - `CacheFill` is the unlocked write of the cache pointer and its timestamp (`getConfigCM`, and its copy `getSelectorConfigMap`). A fill is atomic, or its timestamp is seen first (`half`) and `FinishFill` later publishes the object. The Go memory model allows a racing reader this view, in which an old object is fresh again. The reverse view (new object, old time) only causes another GET and is left out.
- **Registry:** `Main` is `main`'s prologue up to `initAll`. The flag (`runMode`) and whether `getClientset` succeeds (`clientOk`) are chosen in the initial state. `policy` records that the policy server was started (not when the basic-auth file cannot be read), and `PolicyServerExit` is its goroutine's `glog.Fatal`, which ends the process at any step. Each of `initAll`, `waitReady` and `installHttpServer` is one or more actions. `WaitForCacheSync` is `PollReady`. Polling when not ready is a step that stays in place, so waiting forever is a liveness failure, not a deadlock.

## 3. Runs

| Run | Expect | Checks | Shows |
|---|---|---|---|
| `scoring_diskuse` | pass | `TypeOK`, `BarrierBeforeReduce`, `ErrorsNotLost`, `AbstractSpec` | 3 nodes; every mix of disk errors, mount errors, allocable {0,3,4} and quota {0,1,4}; all interleavings. 165k states. |
| `scoring_spread` | pass | the same | 2 nodes; 2 volumes of every kind; used counts {0,2} or errors. 143k states. |
| `disk_pressure` | pass | `TypeOK`, `AdmittedNodeFits` | An admitted node has room for the new directories, wherever its records really are, when no disk path is a prefix of another. 233k states. |
| `disk_pressure_nested` | violation | `AdmittedNodeFits` | Disks `/xfs/d1` and `/xfs/d10`: d10's quota is charged to d1, and a full node is admitted (code bug). |
| `filter_reasons` | violation | `EveryNodeAnswered` | A `(false, nil)` refusal puts the node in neither list (spec 4.7). |
| `affinity` | pass | `AgreesWithDecisionTable` | The code's answer is one the spec's table allows for every class, list of up to 3 records, emptiness answer (failures included) and used-node answer, for pods of 3 volumes, over 2 candidates with the cache changing between them. A failed emptiness check is reported in every record order where it could change the answer. 18k states. |
| `affinity_mount_err` | violation | `AgreesWithDecisionTable` | A failed mount-list lookup is read as "no records" and admits the node (spec 7). |
| `registry` | pass | `ServesOnlyReadyPlugins`, `EventuallyServing` | The five plugins of this repository. Every `-runMode` value (the three valid ones and an unknown one) is tried, each with and without a client set. The process never serves before every plugin is initialised and the caches have synced. Started in `all` or `scheduleronly` with a client set, it never hangs in start-up: it serves, unless in `all` the policy server's `glog.Fatal` ends the process first (at any step, or because the basic-auth file cannot be read, the server never starts). An exit and the `backendonly` block are real ends of `main`, so the run does not check deadlock. |
| `nsns` | pass | `SystemNodesNeedNotMatchEdit` | Two admin requests out of: match edits of `a` (listed by `GetNamespaces`) and of `b` (not listed, so its item starts from the zero item), and lifting `a`'s system exclusion. Also the predicate and refreshes on an ordinary and a system node, one cache expiry, one cache fill seen half-done, and every GET, list, write and delete failing or not. A pod runs on a system node only after a request on its namespace's notmatch map: match edits, a stale or torn cache and the fallback of a failed GET never open one. 880k states with admin symmetry, about 3 min. |
| `nsns_lost_update` | violation | `AckedUpdatesPersist` | Two admin requests on different namespaces, with no API error: the second write removes the first, which was answered OK. |
| `nsns_refused_write` | violation | `CacheHoldsStoredConfig` | A request whose write fails is answered with an error, but its edit stays in the cached object that the predicate reads. |
| `nsns_system_open` | violation | `SystemNodesReserved` | One request, `add b notmatch k=z` for the unlisted `b`, opens the system node to `b` although nobody asked about the system label (code bug). |

Each property of a passing run has a mutant in `PROJECT.json`. The mutant is a plausible bug in the mapped code, and TLC finds it:

| Property | Mutant that breaks it |
|---|---|
| `BarrierBeforeReduce`, `TypeOK` (Scoring) | `Spawn` without `wg.Add` |
| `ErrorsNotLost` | `appendError` without the mutex |
| `AbstractSpec` | normalisation rounding up (spread run); a goroutine ending without `wg.Done()`, so that the call never answers (diskuse run) |
| `AdmittedNodeFits` | `canRequestMatch` not taking the request from the disk |
| `TypeOK` (disk pressure) | no clamp at 0 |
| `AgreesWithDecisionTable` | exclusive keep refusing instead of creating a new directory |
| `ServesOnlyReadyPlugins` | `Ready` skipping the plugins |
| `EventuallyServing` | `Init` forgetting `inited = true` |
| `SystemNodesNeedNotMatchEdit` | `GetNsConfigByConfigMap` without the default notmatch on the system label |

### Bounds, and why they are enough

**Scoring.**
- Three nodes allow two goroutines to race on `errs` while a third is elsewhere.
- The diskuse inputs are chosen so that the cases all occur: raw scores of 0 (from allocable 0, or allocable ≤ quota), 25, 75 and 100, a maximum of 0, and truncation.
- Spread's counts of 0 and 2 give shared/exclusive differences and inversion.

**Disk pressure.**
- Each node has up to 2 disks of sizes {1,2,4} and up to 2 mount records of quota 2.
- Those records may be on a disk, off every disk, or have no host path.
- A pod has up to 2 requests of sizes 0 to 3.
- This covers over-charged disks, clamping, greedy skips and multi-disk fits.
- One candidate node is enough, because `AdmittedNodeFits` is per node; `FilterHandler`'s loop is exercised over two nodes in `affinity`.

**Affinity.**
- Candidates are n1 and n2. n3 is a non-candidate that holds records.
- Record lists have up to 3 distinct nodes, which covers "own record", "other's record" and their order, with a failing emptiness check before or after the candidate's own record.
- A pod has 3 volume references, so a refusal or an error can follow a match.
- A snapshot varies only the fields `podPVMatchNode` reads for the PV's class (used nodes for a shared keep PV without records, emptiness answers for the records of an exclusive keep PV). The other fields are held at one value, so the cases are all there at a fraction of the states.

**Registry.**
- The flag set `RunModeFlags` has the three modes `main` accepts plus `debug`, which reaches the fatal exit.
- Only the plugins this repository registers are instantiated. `Regist`'s refusal of an empty or a repeated name is modelled, but no `init()` here triggers it, and package initialisation runs in one goroutine.

**Namespace node selector.**
- Each admin id serves one request, and two ids give every interleaving of two read-modify-writes. The admins are a symmetry set (`AdminSymmetry`): the handler is the same for both, and no property names one.
- The four requests of the pass run cover:
  - add, update and delete;
  - the match and notmatch maps;
  - a listed and an unlisted namespace (and, with a failed `GetNamespaces`, a listed one treated as unlisted);
  - lifting a namespace's exclusion from system nodes.
- Both nodes carry `k=x`, so only a notmatch edit on `k` with another value lets a pod past it; the violation run uses `k=z`.
- One expiry and one half-seen fill let the cache be refilled by the predicate or an admin, and then an old object come back as fresh. A second expiry (`MaxExpiry = 2`) multiplies the states by about 3.5 (3M states, 10 minutes).
- The initial config map is either missing or holds what an earlier request stored, which covers the Create and the Update paths.

### Fairness

- **Scoring:** weak fairness for the main goroutine and for each node goroutine. The Go scheduler eventually runs every runnable goroutine. `AbstractScoring` promises, with weak fairness of its one step, that a call answers; spec 5 says every task runs to completion and nothing else bounds the call. So `AbstractSpec` also checks that `wg.Wait()` returns and that the call ends.
- **FilterHandler:** weak fairness of `EvaluateNode`. The loop runs in one goroutine.
- **NsNodeSelector:** no fairness. Its properties are safety properties, and the predicate can always run, so the model never deadlocks.
- **Registry:** weak fairness of `main`'s steps, of the polling loop, and of each informer's sync. The policy server's exit has no fairness: it is a failure that may or may not happen. `EventuallyServing` assumes that the informers do sync. Without that assumption, `waitReady` waits forever; that is listed as a hazard.

## 4. Findings

1. **Quota charged to the wrong disk** (`hostpathpv_disk_pressure.go:119`).
   - `strings.HasPrefix(mi.HostPath, disk.path)` charges a volume under `/xfs/d10` to `/xfs/d1`.
   - The node is then over-admitted.
2. **Refusals without a reason** (`predicate.go:53`). A node that is refused without an error is missing from `FailedNodes`.
3. **Lookup error read as "no records"** (`hostpathpv_affinity.go:62`). The mount-list lookup error is ignored, and an exclusive keep volume is admitted anywhere.
4. **An unlisted namespace's notmatch edit opens the system nodes** (`namespaces_nodeselector.go:204`).
   - The parse adds the default notmatch on the system label only to an item whose `NotMatch` is nil, and only for namespaces in the stored map or listed by `GetNamespaces` (whose error the handler drops, line 331).
   - For any other namespace the handler starts from the zero item (line 336), and a notmatch edit creates a `NotMatch` holding only the edited key (lines 386-391). The stored item keeps that non-nil `NotMatch`, so the default is never added again.
   - `add b notmatch k=z` therefore lets `b`'s pods onto system nodes, against the comment at line 204. Through the in-place edit of finding 6 this happens even before the write.

5. **Acknowledged admin updates are lost** (`namespaces_nodeselector_httpserver.go:64`).
   - `NsNodeSelectorAddUpdateOrDelete` edits the config map it read at the start.
   - `CreateOrUpdateSchedulerPolicyConfigMap` then GETs the object again and overwrites its `Data`. The write always carries a current resourceVersion, so the API server never reports a conflict.
   - Two concurrent requests therefore lose one edit, and both are answered "OK".
   - The same property also fails in two other ways:
     - one request after another, when the handler's GET fails: the empty fallback config map is written back (line 115);
     - when the predicate refills the 5 s cache during a write, so the next request edits the stale copy.
6. **A refused edit still takes effect** (`namespaces_nodeselector_httpserver.go:407`).
   - The edit is written into the cached object before the write to the API server.
   - When that write fails, the admin is told so. The predicate still schedules by the edit for up to 5 s, and the next request that takes the cached object stores it.

The spec places the namespace node selector outside its core (§1). Findings 5 and 6 are judged against what the handler's "OK" and error answers tell the admin, and finding 4 against the comment at line 204.

The spec itself is inconsistent on capacity errors:

- §4.4 step 3 says an ordinary non-match when allocable is 0, and an error otherwise. The code does this.
- §7 says the reverse.

The models follow §4.4. The spec also asks to keep the greedy bin-packing (§4.4 step 4, §9), so the models check only that it is sound (`AdmittedNodeFits`), not that it is complete.

## 5. Not modelled, and the plan

- **JSON routes.** `predicateRoute` and `prioritieRoute` are JSON decode and encode. The panic of `prioritieRoute` on a scoring error is recovered per request by `net/http`.
- **Start-up configuration.** Flag parsing, and how `getClientset` reads its configuration, are configuration I/O. Only whether `getClientset` succeeds is modelled. The version and health routes return constants. `ListenAndServe`'s error at the end of `main` only logs and returns; the model ends in `serving`.
- **Requests to the extender.** Once serving, each request is a call of a handler, which FilterHandler and Scoring model; the registry run stops at `serving`.
- **Late registration.** `Regist` builds the error "please regist before init" and drops it (`predicate.go:85`, `prioritize.go:50`), so a call after `Init` would be accepted. No caller in this repository registers late, so it is listed as a hazard and not checked.
- **The rest of the admin server.**
  - The read-only routes (`NsNodeSelectorGet`, `CheckNamespaceSchedulerNodes`, `NsNodeSelectorNodeLabels`) and the server's own `sc.nsNodeSelectorConfigMap` cache, which only they read.
  - These render the parsed config or the matching nodes, and they change only `sc.nsNodeSelectorConfigMap`, a cache that they alone read.
- **Go's abort on a concurrent map read and write** (`namespaces_nodeselector.go:61`). An admin edits the shared cached object while a predicate may read it. Each read of an object is one step in the model, so the abort is not modelled. The torn pointer and timestamp pair of the same race is modelled.
- **Selector text.** The label-selector text and `labels.Parse` are abstracted to the requirements they build. Keys are non-empty, and the values are valid label values.
- **Two scheduling cycles with informer lag.** Whether two pods can be steered to the same empty exclusive directory depends on binding, the mount records and the pod informer. These are kept outside this repository, and the node decides which pod gets a directory. A model would have to invent that protocol, so each cycle is checked against the cache view it reads.
- **Disk pressure and declared capacity.** The snapshots give the parsed capacity (0 on a parse error), so the discarded error of `hostpathpv_disk_pressure.go:84` is a hazard with no property: checked against a declared capacity, `AdmittedNodeFits` would fail by construction, as `affinity_mount_err` does for the mount list.
- **Refresh against the stored config.** A refresh that reads a refused edit (finding 6) or the fallback of a failed GET deletes pods that the stored config allows. This is listed as a hazard, not a run, because it fails through finding 6. `Refresh` models both early returns; the one eviction property that holds restates the `GetNodes` guard, so none is checked.
