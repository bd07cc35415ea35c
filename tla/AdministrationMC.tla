-------------------------- MODULE AdministrationMC --------------------------
(***************************************************************************)
(* Administration for model checking: tables that do not read each other   *)
(* are looked at in behaviours of their own, with containers that start    *)
(* beside the requests in some of them.                                    *)
(***************************************************************************)
EXTENDS Administration, TLC

(* Four requests: one that creates, two that overlap, one alone after.     *)
RequestScenes ==
  [tables : {{"agency"}, {"agency", "provider", "mapping"}, {"user"}, {"role"}, {"policy"}, {"matrix"}},
   by : {{"requests"}}, calls : {4}]
  \cup [tables : {{"agency", "department", "user"}}, by : {{"requests"}}, calls : {3}]

(* Three starts: two containers beside each other and one after them. Two  *)
(* are enough for the tables that are written in one way only.             *)
SeedScenes ==
  [tables : {{"matrix"}, {"agency", "department"}, {"article"}, {"rule"}, {"status", "tracking"}},
   by : {{"containers"}}, calls : {3}]
  \cup [tables : {{"user"}, {"agency", "category"}, {"provider", "mapping"}, {"ticket", "assignment"},
                  {"priority", "permission", "setting"}, {"template", "model", "retention"},
                  {"kbCategory", "tag", "escalation"}, {"breachLog", "aiLog", "metric"},
                  {"holiday", "consent"}},
        by : {{"containers"}}, calls : {2}]

(* A request beside the containers.                                        *)
MixedScenes == [tables : {{"role"}, {"policy"}}, by : {{"requests", "containers"}}, calls : {3}]

AllScenes == RequestScenes \cup SeedScenes \cup MixedScenes

Symmetry == Permutations(Requests) \cup Permutations(Names) \cup Permutations(Keys)
=============================================================================
