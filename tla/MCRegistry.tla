----------------------------- MODULE MCRegistry -----------------------------
(***************************************************************************)
(* The plugins this repository registers, in the order of their files      *)
(* (the order Go runs the init functions of a package).                    *)
(***************************************************************************)
EXTENDS Registry, TLC

CONSTANTS aff, press, nsns, diskuse, spread

MCPlugins == {aff, press, nsns, diskuse, spread}

MCCat ==
  [p \in MCPlugins |->
     IF p \in {diskuse, spread} THEN "priorities" ELSE "predicates"]

MCPName ==
  (aff :> "hostpathpvaffinity" @@ press :> "hostpathpvdiskpressure"
   @@ nsns :> "namespacenodeselector" @@ diskuse :> "hostpathpvdiskuse"
   @@ spread :> "hostpathpvspread")

MCNeedsCache == {aff, press, diskuse, spread}

MCRegistrations == <<aff, press, nsns, diskuse, spread>>
====
