--------------------------- MODULE NsNodeSelector ---------------------------
(***************************************************************************)
(* The namespace node selector: the predicate of namespaces_nodeselector.go *)
(* and the admin route /nsnodeselector/{addupdateordelete}/ of             *)
(* namespaces_nodeselector_httpserver.go, which share the package-level    *)
(* config-map cache (nsNodeSelectorConfigMap, kept for 5 s).               *)
(*                                                                         *)
(* The JSON item of the config map is modelled by the NsConfig it encodes: *)
(* json.Marshal and Unmarshal keep a nil map (null) apart from an empty     *)
(* one ({}), and so does the model.  A NsConfig maps a namespace to an     *)
(* NsConfigItem, an item maps each of the four types to a LabelValues, and *)
(* a LabelValues maps a key to its set of values ({} = key absent;          *)
(* InsertValue always stores at least one value).  Nil (an empty function) *)
(* is Go's nil: a missing namespace, a nil map or a missing config map.    *)
(*                                                                         *)
(* Config-map objects live in heap; global is nsNodeSelectorConfigMap (0 = *)
(* nil) and fresh says its update time is less than 5 s old.  An admin     *)
(* request that takes the cached object edits that very object in place    *)
(* (SetNsNodeSelectorConfigMapNsConfig) before it writes it to the API      *)
(* server (CreateOrUpdateSchedulerPolicyConfigMap).                         *)
(***************************************************************************)
EXTENDS Integers, Sequences, TLC

CONSTANTS
  Namespaces,         \* namespaces a config or a request may name
  ClusterNamespaces,  \* what GetNamespaces lists
  Keys,               \* label keys (the empty key is left out)
  Sys,                \* Nsnodeselector_systemlabel
  Nodes,
  Labels,             \* Labels[n][k]: {v} if node n has label k=v, else {}
  Admins,             \* admin requests, each served by its own goroutine
  Requests,           \* the requests an admin may send
  InitConfigs,        \* what the config map may hold at start (Nil: none)
  Faults,             \* which API calls may fail: "read", "list", "write"
  MaxExpiry,          \* bound on the times the 5 s cache runs out
  MaxTorn             \* bound on the cache fills seen half-done

Types == {"match", "mustmatch", "notmatch", "mustnotmatch"}
Nil == <<>>
ZeroItem == [t \in Types |-> Nil]                    \* NsConfigItem{}
NoKeys == [k \in Keys |-> {}]
EmptyConfig == [ns \in Namespaces |-> Nil]           \* data "{}"
SysDefault == [NoKeys EXCEPT ![Sys] = {"*"}]         \* {systemlabel: *}

Entry(r) == <<r.ns, r.type, r.key>>
Written(r) == IF r.op = "delete" THEN {} ELSE r.val

VARIABLES
  stored,      \* the config map in the API server (Nil: not found)
  rv,          \* its resourceVersion
  heap,        \* config-map objects in the process
  global,      \* nsNodeSelectorConfigMap: an index of heap, 0 for nil
  fresh,       \* time.Since(update time) <= 5 s
  half,        \* the object of a fill whose time alone is visible, or 0
  torns,       \* fills that have been seen half-done
  expiries,    \* times the cache has run out
  apc,         \* apc[a]: "idle", "set", "get", "write", "done"
  req,         \* the request a serves
  ref,         \* the object a's cm points to
  local,       \* a's nsConfig after the edit
  cur,         \* resourceVersion a's CreateOrUpdate read (-1: not found)
  pods,        \* the bound pods, as <<namespace, node>> pairs
  requested,   \* history: entries some request asked to change
  lastAck,     \* history: entry -> value of its last acknowledged write
  everStored   \* history: every config the API server has held

vars == <<stored, rv, heap, global, fresh, half, torns, expiries, apc, req,
          ref, local, cur, pods, requested, lastAck, everStored>>

OkChoices(f) == IF f \in Faults THEN BOOLEAN ELSE {TRUE}
Cached == global /= 0 /\ fresh

(* Mutant: the parse forgets the default notmatch on the system label. *)
GetNsConfigByConfigMapNoDefault(data, nss) ==
  [ns \in Namespaces |->
     IF data[ns] = Nil /\ ns \notin nss THEN Nil
     ELSE IF data[ns] = Nil THEN ZeroItem ELSE data[ns]]

(* GetNsConfigByConfigMap: the parsed item, an empty item for each listed *)
(* namespace it lacks, and a nil NotMatch replaced by {systemlabel: *}.   *)
GetNsConfigByConfigMap(data, nss) ==
  [ns \in Namespaces |->
     IF data[ns] = Nil /\ ns \notin nss THEN Nil
     ELSE LET item == IF data[ns] = Nil THEN ZeroItem ELSE data[ns]
          IN IF item["notmatch"] = Nil
             THEN [item EXCEPT !["notmatch"] = SysDefault] ELSE item]

(* MapHasString(values, "", "*"): the key alone is required (or refused). *)
Wild(vs) == vs \cap {"", "*"} /= {}

(* One requirement of the selector GetNsLabelSelector builds: "k in (vs)" *)
(* or "k" for Match and MustMatch, "k notin (vs)" or "!k" for the others.  *)
Holds(t, vs, l) ==
  IF t \in {"match", "mustmatch"}
  THEN IF Wild(vs) THEN l /= {} ELSE l /= {} /\ l \subseteq vs
  ELSE IF Wild(vs) THEN l = {} ELSE l \cap vs = {}

(* GetNsLabelSelector(config, ns).Matches(node labels): "!systemlabel"    *)
(* when the namespace has no item; else every requirement of every        *)
(* non-nil map of its item.                                               *)
Admits(config, ns, n) ==
  LET item == IF config[ns] = Nil
              THEN [ZeroItem EXCEPT !["notmatch"] = SysDefault]
              ELSE config[ns]
  IN \A t \in Types : item[t] /= Nil =>
       \A k \in Keys : item[t][k] /= {} => Holds(t, item[t][k], Labels[n][k])

(* tmpFun and the switch on the type: Nil when the handler answers an    *)
(* error (add of a key that exists, update or delete of one that does    *)
(* not); else the config with the namespace's item edited.               *)
Apply(config, r) ==
  LET item == IF config[r.ns] = Nil THEN ZeroItem ELSE config[r.ns]
      lv == IF item[r.type] = Nil THEN NoKeys ELSE item[r.type]
      has == lv[r.key] /= {}
  IN IF (r.op = "add") = has THEN Nil
     ELSE [config EXCEPT ![r.ns] =
             [item EXCEPT ![r.type] = [lv EXCEPT ![r.key] = Written(r)]]]

(* The config map behind a cache miss: a GET that succeeds is cached.    *)
Fetched(readOk) == ~Cached /\ readOk /\ stored /= Nil

(* getConfigCM: the cached object while fresh, else the GET's result, or *)
(* a new empty config map when the GET fails or finds nothing.           *)
getConfigCM(readOk) ==
  CASE Cached -> heap[global]
    [] Fetched(readOk) -> stored
    [] OTHER -> EmptyConfig

(* getSelectorConfigMap, the admin server's copy of getConfigCM, reached  *)
(* through getNsNodeSelectorConfigMap(true).                              *)
getSelectorConfigMap(readOk) == getConfigCM(readOk)

(* A successful GET caches its config map: nsNodeSelectorConfigMap = cm, *)
(* then the update time = time.Now(), with no lock.  A goroutine reading  *)
(* the pair meanwhile may, by the Go memory model, see either write       *)
(* without the other.  The new object with the old time only sends it to  *)
(* the API server again; the new time with the old object makes the old   *)
(* object fresh.  The fill is atomic, or its time is seen first and       *)
(* FinishFill publishes the object.                                       *)
CacheFill(got, obj) ==
  IF ~got THEN UNCHANGED <<global, fresh, half, torns>>
  ELSE \/ /\ global' = obj
          /\ fresh' = TRUE
          /\ UNCHANGED <<half, torns>>
       \/ /\ half = 0
          /\ torns < MaxTorn
          /\ torns' = torns + 1
          /\ global' = global
          /\ fresh' = TRUE
          /\ half' = obj

Init ==
  /\ stored \in InitConfigs
  /\ rv = 1
  /\ heap = <<>>
  /\ global = 0
  /\ fresh = FALSE
  /\ half = 0
  /\ torns = 0
  /\ expiries = 0
  /\ apc = [a \in Admins |-> "idle"]
  /\ req = [a \in Admins |-> Nil]
  /\ ref = [a \in Admins |-> 0]
  /\ local = [a \in Admins |-> Nil]
  /\ cur = [a \in Admins |-> 0]
  /\ pods = {}
  /\ requested = {}
  /\ lastAck = Nil
  /\ everStored = IF stored = Nil THEN {} ELSE {stored}

-----------------------------------------------------------------------------
(* NsNodeSelectorAddUpdateOrDelete up to the edit: getNsNodeSelectorConfigMap *)
(* (true) calls getSelectorConfigMap, which returns the cached object while  *)
(* it is fresh, else GETs the config map and caches it, or on an error       *)
(* (not found included) returns a new empty object; GetNamespaces (its error *)
(* dropped); GetNsConfigByConfigMap; the edit, or an error answer.           *)
Read(a) ==
  /\ apc[a] = "idle"
  /\ \E r \in Requests, readOk \in OkChoices("read"), listOk \in OkChoices("list") :
       LET got == Fetched(readOk)
           data == getSelectorConfigMap(readOk)
           edited == Apply(GetNsConfigByConfigMap(data,
                             IF listOk THEN ClusterNamespaces ELSE {}), r)
       IN /\ heap' = IF Cached THEN heap ELSE Append(heap, data)
          /\ ref' = [ref EXCEPT ![a] = IF Cached THEN global ELSE Len(heap) + 1]
          /\ CacheFill(got, Len(heap) + 1)
          /\ req' = [req EXCEPT ![a] = r]
          /\ local' = [local EXCEPT ![a] = edited]
          /\ apc' = [apc EXCEPT ![a] = IF edited = Nil THEN "done" ELSE "set"]
          /\ requested' = requested \cup {Entry(r)}
  /\ UNCHANGED <<stored, rv, expiries, cur, pods, lastAck, everStored>>

(* SetNsNodeSelectorConfigMapNsConfig(cm, nsConfig): the item is written *)
(* into cm.Data, in the object cm points to.                              *)
SetConfig(a) ==
  /\ apc[a] = "set"
  /\ heap' = [heap EXCEPT ![ref[a]] = local[a]]
  /\ apc' = [apc EXCEPT ![a] = "get"]
  /\ UNCHANGED <<stored, rv, global, fresh, half, torns, expiries, req, ref,
                 local, cur, pods, requested, lastAck, everStored>>

(* CreateOrUpdateSchedulerPolicyConfigMap: the GET of the current config *)
(* map; an error other than not-found is answered.                       *)
GetCurrent(a) ==
  /\ apc[a] = "get"
  /\ \E ok \in OkChoices("write") :
       /\ cur' = [cur EXCEPT ![a] = IF stored = Nil THEN -1 ELSE rv]
       /\ apc' = [apc EXCEPT ![a] = IF ok THEN "write" ELSE "done"]
  /\ UNCHANGED <<stored, rv, heap, global, fresh, half, torns, expiries, req,
                 ref, local, pods, requested, lastAck, everStored>>

(* Create(updateCm) after a not-found, else curCM.Data = updateCm.Data and *)
(* Update(curCM).  The API server refuses a create of an existing object   *)
(* and an update whose resourceVersion is stale.  "OK" is answered on      *)
(* success; sc.nsNodeSelectorConfigMap = updateCm only feeds the GET and   *)
(* check routes.                                                           *)
WriteConfig(a) ==
  /\ apc[a] = "write"
  /\ \E ok \in OkChoices("write") :
       LET data == heap[ref[a]]
           success == ok /\ IF cur[a] = -1 THEN stored = Nil
                            ELSE stored /= Nil /\ rv = cur[a]
       IN /\ stored' = IF success THEN data ELSE stored
          /\ rv' = IF success THEN rv + 1 ELSE rv
          /\ everStored' = IF success THEN everStored \cup {data} ELSE everStored
          /\ lastAck' = IF success
                        THEN (Entry(req[a]) :> Written(req[a])) @@ lastAck
                        ELSE lastAck
  /\ apc' = [apc EXCEPT ![a] = "done"]
  /\ UNCHANGED <<heap, global, fresh, half, torns, expiries, req, ref, local,
                 cur, pods, requested>>

(* More than 5 s pass since the cache was filled. *)
Expire ==
  /\ fresh
  /\ expiries < MaxExpiry
  /\ fresh' = FALSE
  /\ expiries' = expiries + 1
  /\ UNCHANGED <<stored, rv, heap, global, half, torns, apc, req, ref, local,
                 cur, pods, requested, lastAck, everStored>>

(* The predicate's PodMatchNode for a pod of ns on node n: getConfigCM    *)
(* (the cached object while fresh, else a GET that is cached, or an empty *)
(* config map on an error), GetNsConfigByConfigMap(cm, nil), the selector. *)
(* The scheduler binds an admitted pod to the node.                       *)
Schedule(ns, n) ==
  /\ \E readOk \in OkChoices("read") :
       LET got == Fetched(readOk)
           data == getConfigCM(readOk)
       IN /\ heap' = IF got THEN Append(heap, data) ELSE heap
          /\ CacheFill(got, Len(heap) + 1)
          /\ pods' = IF Admits(GetNsConfigByConfigMap(data, {}), ns, n)
                       THEN pods \cup {<<ns, n>>} ELSE pods
  /\ UNCHANGED <<stored, rv, expiries, apc, req, ref, local, cur, requested,
                 lastAck, everStored>>

(* The pods NsNodeSelectorRefresh deletes: the bound pods of ns on nodes *)
(* outside okNodes, the nodes the namespace's selector matches.          *)
Misplaced(ns, okNodes) == {p \in pods : p[1] = ns /\ p[2] \notin okNodes}

(* NsNodeSelectorRefresh for ns: GetNodes, whose error is answered before *)
(* anything else; the config through getNsNodeSelectorConfigMap(true), as *)
(* for an edit, and GetNsConfigByConfigMap(cm, nil); the nodes the        *)
(* selector matches; GetPods, whose error is answered; then DeletePod for *)
(* every bound pod on another node, each of which may fail on its own     *)
(* (the failures are listed in the answer, the loop goes on).             *)
Refresh(ns) ==
  /\ \E nodesOk \in OkChoices("list"), readOk \in OkChoices("read"),
        podsOk \in OkChoices("list"), failed \in SUBSET pods :
       LET got == Fetched(readOk)
           config == GetNsConfigByConfigMap(getSelectorConfigMap(readOk), {})
           okNodes == {n \in Nodes : Admits(config, ns, n)}
       IN /\ nodesOk
          /\ "write" \in Faults \/ failed = {}
          /\ heap' = IF got THEN Append(heap, stored) ELSE heap
          /\ CacheFill(got, Len(heap) + 1)
          /\ pods' = IF podsOk THEN pods \ (Misplaced(ns, okNodes) \ failed) ELSE pods
  /\ UNCHANGED <<stored, rv, expiries, apc, req, ref, local, cur, requested,
                 lastAck, everStored>>

(* The object write of a half-seen fill becomes visible. *)
FinishFill ==
  /\ half /= 0
  /\ global' = half
  /\ fresh' = TRUE
  /\ half' = 0
  /\ UNCHANGED <<stored, rv, heap, torns, expiries, apc, req, ref, local, cur,
                 pods, requested, lastAck, everStored>>

Next ==
  \/ \E a \in Admins : Read(a) \/ SetConfig(a) \/ GetCurrent(a) \/ WriteConfig(a)
  \/ Expire
  \/ FinishFill
  \/ \E ns \in Namespaces, n \in Nodes : Schedule(ns, n)
  \/ \E ns \in Namespaces : Refresh(ns)

Spec == Init /\ [][Next]_vars

-----------------------------------------------------------------------------
(* Line 204: a namespace is kept off system nodes by default.  A pod of   *)
(* namespace x runs on a node carrying the system label only if some      *)
(* admin request asked to change x's notmatch entry for that label,       *)
(* whatever the interleaving of requests, scheduling, refreshes, cache    *)
(* expiry and API errors.                                                 *)
SystemNodesReserved ==
  \A p \in pods :
    Labels[p[2]][Sys] /= {} => <<p[1], "notmatch", Sys>> \in requested

(* The default of line 204 is the only thing between a namespace and the  *)
(* system nodes, and only an edit of the namespace's own notmatch map can *)
(* remove it: edits of its match map (which create its item from the zero *)
(* item when the namespace is unlisted or GetNamespaces fails), edits of  *)
(* other namespaces, a cache that is stale or half-filled, and the empty  *)
(* config map a failed GET falls back to never open a system node to it.  *)
SystemNodesNeedNotMatchEdit ==
  \A p \in pods :
    Labels[p[2]][Sys] /= {} =>
      \E e \in requested : e[1] = p[1] /\ e[2] = "notmatch"

(* An admin request answered "OK" stays in force: the stored config holds *)
(* the value of the last acknowledged write of every entry.               *)
AckedUpdatesPersist ==
  \A e \in DOMAIN lastAck :
    LET item == IF stored = Nil THEN Nil ELSE stored[e[1]]
        value == IF item = Nil THEN {}
                 ELSE IF item[e[2]] = Nil THEN {} ELSE item[e[2]][e[3]]
    IN value = lastAck[e]

(* With no admin request in flight, the cached config map the predicate   *)
(* reads is one the API server has held: a refused write leaves no trace. *)
CacheHoldsStoredConfig ==
  (\A a \in Admins : apc[a] \in {"idle", "done"}) /\ Cached =>
    heap[global] \in everStored
=============================================================================
