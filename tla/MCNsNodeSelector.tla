------------------------- MODULE MCNsNodeSelector -------------------------
(***************************************************************************)
(* Instantiation of NsNodeSelector for TLC.  Namespace "a" is listed by    *)
(* GetNamespaces, "b" is not.  n1 is an ordinary node labelled k=x, n2 a   *)
(* system node also labelled k=x.  At start the config map is missing, or  *)
(* holds what an earlier "add a match k=x" stored.                         *)
(***************************************************************************)
EXTENDS NsNodeSelector

(* The admin goroutines run the same handler and no property names one, *)
(* so states that differ by a renaming of the admins are equivalent.    *)
AdminSymmetry == Permutations(Admins)

MCLabels ==
  [n \in {"n1", "n2"} |->
     [k \in {"sys", "k"} |->
        IF k = "k" THEN {"x"} ELSE IF n = "n2" THEN {"y"} ELSE {}]]

Req(op, ns, type, key, val) == [op |-> op, ns |-> ns, type |-> type, key |-> key, val |-> val]

(* Pass run: edits of a's match map, a match edit of the unlisted b     *)
(* (whose item the handler builds from the zero item), and lifting a's   *)
(* exclusion from system nodes (a delete that finds the default entry    *)
(* only because GetNamespaces lists a).                                  *)
MCRequests ==
  { Req("add", "a", "match", "k", {"x"}),
    Req("update", "a", "match", "k", {"*"}),
    Req("add", "b", "match", "k", {"x"}),
    Req("delete", "a", "notmatch", "sys", {}) }

(* Violation run: a notmatch edit of the unlisted b on a key other than  *)
(* the system label; no node carries k=z.                                *)
MCSystemOpenRequests == { Req("add", "b", "notmatch", "k", {"z"}) }

(* Violation runs: two requests on different namespaces. *)
MCDisjointRequests ==
  { Req("add", "a", "match", "k", {"x"}),
    Req("add", "b", "match", "k", {"x"}) }

MCInitConfigs ==
  { Nil,
    [EmptyConfig EXCEPT !["a"] =
       [ZeroItem EXCEPT !["match"] = [NoKeys EXCEPT !["k"] = {"x"}]]] }
=============================================================================
