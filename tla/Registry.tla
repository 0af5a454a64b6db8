------------------------------ MODULE Registry ------------------------------
(***************************************************************************)
(* The two plugin registries (pkg/algorithm/predicate/predicate.go and     *)
(* pkg/algorithm/prioritize/prioritize.go) and the start-up sequence of    *)
(* main.go that drives them.                                               *)
(*                                                                         *)
(* Package initialisation calls Regist once per plugin (pending, in file   *)
(* order).  main then runs initAll (predicate.Init, prioritize.Init), which *)
(* wires each registered plugin to the informer caches, waitReady, which   *)
(* starts the informers and polls predicate.Ready and prioritize.Ready     *)
(* until both hold, and installHttpServer, which adds one endpoint per     *)
(* registered plugin.  A cache-backed plugin's Ready calls its hasSynced   *)
(* closure, which only Init sets: on a plugin that was never initialised   *)
(* the call is a nil function call and the process panics ("crashed").     *)
(*                                                                         *)
(* Before initAll, main checks its -runMode flag (Fatalf on a value it   *)
(* does not know), builds the client set (exit 1 on an error), starts    *)
(* the policy server in modes "all" and "backendonly", and in            *)
(* "backendonly" blocks on a stop channel nobody closes ("parked").     *)
(* The policy server's goroutine ends the process when its listener     *)
(* fails.                                                                *)
(***************************************************************************)
EXTENDS Integers, Sequences

CONSTANTS
  Plugins,          \* plugin objects
  Cat,              \* Cat[p]: "predicates" or "priorities"
  PName,            \* PName[p]: what p.Name() returns ("" is possible)
  NeedsCache,       \* plugins whose Ready is hasSynced()
  Registrations,    \* the Regist calls of package initialisation, in order
  RunModeFlags      \* the -runMode values main may be started with

Cats == {"predicates", "priorities"}

Informers == {"pv", "pvc", "pod"}

(* The run modes main accepts. *)
RunModes == {"all", "scheduleronly", "backendonly"}

VARIABLES
  pending,     \* Regist calls of package initialisation still to run
  list,        \* list[c]: predicateList / prioritizeList
  inited,      \* inited[c]: the registry's inited flag
  wired,       \* plugins whose Init ran (listers and hasSynced set)
  idx,         \* the plugin Init is at, in the registry being initialised
  started,     \* informerFactory.Start has run
  synced,      \* the informers whose HasSynced holds
  installed,   \* plugins with an HTTP endpoint
  mpc,         \* main: "init", "initAll", "initPred", "initPrio",
               \* "waitPred", "waitPrio", "install", "serving",
               \* "crashed", "exited", "parked"
  runMode,     \* the -runMode flag
  clientOk,    \* getClientset finds a cluster configuration
  policy       \* the policy HTTP server has been started

vars == <<pending, list, inited, wired, idx, started, synced, installed, mpc,
          runMode, clientOk, policy>>

Init ==
  /\ pending = Registrations
  /\ list = [c \in Cats |-> <<>>]
  /\ inited = [c \in Cats |-> FALSE]
  /\ wired = {}
  /\ idx = 1
  /\ started = FALSE
  /\ synced = {}
  /\ installed = {}
  /\ mpc = "init"
  /\ runMode \in RunModeFlags
  /\ clientOk \in BOOLEAN
  /\ policy = FALSE

Members(s) == {s[i] : i \in 1..Len(s)}

(* Regist: an empty name is refused; under the lock, the inited check    *)
(* only builds an error it throws away; a name already registered is     *)
(* refused; otherwise the plugin is appended.  The new list.             *)
Regist(p) ==
  IF \/ PName[p] = ""
     \/ \E q \in Members(list[Cat[p]]) : PName[q] = PName[p]
  THEN list
  ELSE [list EXCEPT ![Cat[p]] = Append(@, p)]

(* hasSynced of a cache-backed plugin: pvSynced && pvcSynced && podSynced. *)
HasSynced == Informers \subseteq synced

(* Mutant: Ready answers on the inited flag alone. *)
ReadyNoPlugins(c) == IF ~inited[c] THEN "false" ELSE "true"

(* Ready: FALSE before Init; otherwise each plugin in order: a cache-     *)
(* backed one answers hasSynced() (a nil call, so a panic, if Init never  *)
(* set it), the others answer TRUE.  "true", "false" or "panic".         *)
Ready(c) ==
  LET s == list[c]
      firstBad == {i \in 1..Len(s) :
                     s[i] \in NeedsCache /\ (s[i] \notin wired \/ ~HasSynced)}
      i0 == CHOOSE i \in firstBad : \A j \in firstBad : i <= j
  IN CASE ~inited[c] -> "false"
       [] firstBad = {} -> "true"
       [] s[i0] \notin wired -> "panic"
       [] OTHER -> "false"

-----------------------------------------------------------------------------
(* Package initialisation: the next init() calls Regist. *)
RegistAtInit ==
  /\ mpc = "init"
  /\ pending /= <<>>
  /\ list' = Regist(Head(pending))
  /\ pending' = Tail(pending)
  /\ UNCHANGED <<inited, wired, idx, started, synced, installed, mpc,
                 runMode, clientOk, policy>>

(* main, once package initialisation is over: the runMode check, the    *)
(* client set, the policy server, and the backendonly block.             *)
(* StartPolicyHttpServer returns without a server when the basic-auth    *)
(* file cannot be read, and otherwise leaves a goroutine listening.      *)
Main ==
  /\ mpc = "init"
  /\ pending = <<>>
  /\ mpc' = CASE runMode \notin RunModes      -> "exited"
              [] ~clientOk                    -> "exited"
              [] runMode = "backendonly"      -> "parked"
              [] OTHER                        -> "initAll"
  /\ policy' \in IF runMode \in {"all", "backendonly"} /\ clientOk
                THEN BOOLEAN ELSE {FALSE}
  /\ UNCHANGED <<pending, list, inited, wired, idx, started, synced, installed,
                 runMode, clientOk>>

(* The policy server goroutine: ListenAndServe returns (a bind error at  *)
(* once, or any later failure) and glog.Fatal ends the whole process,    *)
(* whatever main is doing.                                               *)
PolicyServerExit ==
  /\ policy
  /\ mpc \notin {"exited", "crashed"}
  /\ mpc' = "exited"
  /\ policy' = FALSE
  /\ UNCHANGED <<pending, list, inited, wired, idx, started, synced, installed,
                 runMode, clientOk>>

(* main calls initAll. *)
StartInit ==
  /\ mpc = "initAll"
  /\ mpc' = "initPred"
  /\ UNCHANGED <<pending, list, inited, wired, idx, started, synced, installed,
                 runMode, clientOk, policy>>

Phase == [initPred |-> "predicates", initPrio |-> "priorities"]
After == [initPred |-> "initPrio", initPrio |-> "waitPred"]

(* predicate.Init / prioritize.Init, holding the registry's mutex: the   *)
(* next registered plugin's Init (none of them fails) sets its listers   *)
(* and its hasSynced closure.                                            *)
InitPlugin ==
  /\ mpc \in DOMAIN Phase
  /\ idx <= Len(list[Phase[mpc]])
  /\ wired' = wired \cup {list[Phase[mpc]][idx]}
  /\ idx' = idx + 1
  /\ UNCHANGED <<pending, list, inited, started, synced, installed, mpc,
                 runMode, clientOk, policy>>

(* Mutant: the registry's Init forgets inited = true. *)
InitDoneNoFlag ==
  /\ mpc \in DOMAIN Phase
  /\ idx > Len(list[Phase[mpc]])
  /\ idx' = 1
  /\ mpc' = After[mpc]
  /\ UNCHANGED <<pending, list, inited, wired, started, synced, installed,
                 runMode, clientOk, policy>>

(* The loop is over: inited = true, and initAll goes on. *)
InitDone ==
  /\ mpc \in DOMAIN Phase
  /\ idx > Len(list[Phase[mpc]])
  /\ inited' = [inited EXCEPT ![Phase[mpc]] = TRUE]
  /\ idx' = 1
  /\ mpc' = After[mpc]
  /\ UNCHANGED <<pending, list, wired, started, synced, installed,
                 runMode, clientOk, policy>>

(* waitReady: informerFactory.Start, then one poll of c's Ready by       *)
(* cache.WaitForCacheSync; stopCh is never closed, so it polls until     *)
(* Ready holds.                                                          *)
PollReady(c, here, then) ==
  /\ mpc = here
  /\ started' = TRUE
  /\ mpc' = CASE Ready(c) = "true"  -> then
              [] Ready(c) = "panic" -> "crashed"
              [] OTHER              -> here
  /\ UNCHANGED <<pending, list, inited, wired, idx, synced, installed,
                 runMode, clientOk, policy>>

WaitPredicates == PollReady("predicates", "waitPred", "waitPrio")
WaitPriorities == PollReady("priorities", "waitPrio", "install")

(* One started informer finishes its initial list. *)
Sync(inf) ==
  /\ started
  /\ inf \notin synced
  /\ synced' = synced \cup {inf}
  /\ UNCHANGED <<pending, list, inited, wired, idx, started, installed, mpc,
                 runMode, clientOk, policy>>

(* installHttpServer: both registries are inited here, so each adds one  *)
(* endpoint per registered plugin; then ListenAndServe.                  *)
Install ==
  /\ mpc = "install"
  /\ installed' = Members(list["predicates"]) \cup Members(list["priorities"])
  /\ mpc' = "serving"
  /\ UNCHANGED <<pending, list, inited, wired, idx, started, synced,
                 runMode, clientOk, policy>>

Next ==
  \/ RegistAtInit \/ Main \/ StartInit
  \/ InitPlugin \/ InitDone
  \/ WaitPredicates \/ WaitPriorities
  \/ \E inf \in Informers : Sync(inf)
  \/ Install
  \/ PolicyServerExit

(* main is one goroutine that keeps running; each informer keeps        *)
(* listing until it has synced.                                          *)
Fairness ==
  /\ WF_vars(RegistAtInit \/ Main \/ StartInit \/ InitPlugin \/ InitDone \/ Install)
  /\ WF_vars(WaitPredicates \/ WaitPriorities)
  /\ \A inf \in Informers : WF_vars(Sync(inf))

Spec == Init /\ [][Next]_vars /\ Fairness

-----------------------------------------------------------------------------
(* Spec 4.7 and 7: the server only serves once every registered plugin   *)
(* reports ready, and every plugin with an endpoint has been initialised *)
(* (its listers are set), so no request reaches a nil cache.             *)
ServesOnlyReadyPlugins ==
  mpc = "serving" =>
    /\ HasSynced
    /\ \A p \in installed : p \in wired

(* main.go: started in a mode that runs the scheduler extender, with a   *)
(* cluster configuration, the extender starts serving (initialisation,   *)
(* the readiness wait and the installation all complete, given that the  *)
(* informers eventually sync) unless, in mode "all", the policy server's *)
(* glog.Fatal ends the process first.  It never hangs in start-up.       *)
EventuallyServing ==
  (runMode \in {"all", "scheduleronly"} /\ clientOk) =>
    <>(mpc \in {"serving", "exited"})

=============================================================================
