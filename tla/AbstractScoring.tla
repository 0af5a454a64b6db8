-------------------------- MODULE AbstractScoring --------------------------
(***************************************************************************)
(* What a priority plugin's NodesScoring promises (spec 4.5, 4.6, 4.7):    *)
(* one call, seen from the caller, is a single step from "pending" to its  *)
(* answer, and that step is eventually taken (spec 5: every task runs to   *)
(* completion, and the call is bounded by its input alone).  The answer   *)
(* is an error whenever some per-node task failed (fail-closed);          *)
(* otherwise it is one entry per input node, in the input order, carrying *)
(* the normalised score of that node.                                     *)
(*                                                                         *)
(* The raw scores and the normalisation are written from the spec's        *)
(* formulas; they are the reference the detailed module Scoring is checked *)
(* against.                                                                *)
(***************************************************************************)
EXTENDS Integers, Sequences

CONSTANTS
  NodeName,     \* the request's node list (a sequence of node names)
  NumVolumes    \* hostpath volume references of the pod (spread scorer)

VARIABLES
  in,           \* the cache snapshot the call reads; never changes
  out           \* what the call has returned so far

Nodes == 1..Len(NodeName)
Vols  == 1..NumVolumes

Pending == [done |-> FALSE, err |-> FALSE, list |-> <<>>]

(* Spec 4.5: raw disk-use score of one node. *)
SpecDiskRaw(d) ==
  IF d.allocable <= 0 \/ d.allocable <= d.quota THEN 0
  ELSE (100 * (d.allocable - d.quota)) \div d.allocable

(* Spec 4.6: raw spread count of one node. *)
SpecSpreadRaw(i) ==
  LET add(v) == CASE in.pv[v] = "shared"    -> IF in.used[i][v].n > 0 THEN 1 ELSE 0
                  [] in.pv[v] = "exclusive" -> in.used[i][v].n
                  [] OTHER                  -> 0
      RECURSIVE sum(_)
      sum(S) == IF S = {} THEN 0
                ELSE LET v == CHOOSE x \in S : TRUE IN add(v) + sum(S \ {v})
  IN sum(Vols)

(* Spec 4.5, 4.6: a task fails when one of its cache lookups fails. *)
SpecTaskFails(i) ==
  IF in.kind = "diskuse"
  THEN in.disk[i].diskErr \/ in.disk[i].mountErr
  ELSE \E v \in Vols : \/ in.pv[v] = "err"
                       \/ in.pv[v] \in {"shared", "exclusive"} /\ in.used[i][v].err

SpecRaw(i) == IF in.kind = "diskuse" THEN SpecDiskRaw(in.disk[i]) ELSE SpecSpreadRaw(i)

SpecMaxRaw == LET m == {SpecRaw(i) : i \in Nodes}
              IN CHOOSE x \in m \cup {0} : \A y \in m \cup {0} : y <= x

(* Spec 4.5: final = floor(10 * raw / maxRaw), or 0 when maxRaw = 0.      *)
(* Spec 4.6: final = floor(10 * (maxRaw - raw) / maxRaw), or 10.          *)
SpecFinal(i) ==
  CASE SpecMaxRaw = 0 -> IF in.kind = "diskuse" THEN 0 ELSE 10
    [] in.kind = "diskuse" -> (10 * SpecRaw(i)) \div SpecMaxRaw
    [] OTHER -> (10 * (SpecMaxRaw - SpecRaw(i))) \div SpecMaxRaw

Answer ==
  IF \E i \in Nodes : SpecTaskFails(i)
  THEN [done |-> TRUE, err |-> TRUE, list |-> <<>>]
  ELSE [done |-> TRUE, err |-> FALSE,
        list |-> [i \in Nodes |-> [host |-> NodeName[i], score |-> SpecFinal(i)]]]

Init == out = Pending

Score == /\ out = Pending
         /\ out' = Answer
         /\ UNCHANGED in

Spec == Init /\ [][Score]_<<in, out>> /\ WF_<<in, out>>(Score)
=============================================================================
