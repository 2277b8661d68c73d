--------------------------- MODULE MCEngineRunner ---------------------------
(***************************************************************************)
(* Small workflows for EngineRunner. One Source p (a pin edge) with an     *)
(* output slot "level", one Watcher w on the slot "total" that node "add"  *)
(* writes, one Delay "d".                                                  *)
(*                                                                         *)
(*   startup -> add      p -> add      w -> log      d -> log              *)
(*   add -> d, or log                                                      *)
(*   log -> nothing; in the cyclic workflow log -> add or nothing          *)
(*                                                                         *)
(* TriggerItems is extended for TLC to evaluate its assumptions.           *)
(***************************************************************************)
EXTENDS EngineRunner, TriggerItems

MCNodes == {"add", "log", "d"}
MCSlots == {"level", "total"}
MCTarget == [t \in {"p", "w", "d"} |-> IF t = "p" THEN "add" ELSE "log"]
MCWrites == [n \in MCNodes |-> IF n = "add" THEN {"total"} ELSE {}]
MCOut == [t \in {"p", "w", "d"} |-> IF t = "p" THEN "level" ELSE "none"]
MCWatch == [w \in {"w"} |-> "total"]
MCInboxCap == [t \in {"p", "w", "d"} |-> IF t = "p" THEN 2 ELSE 1]

\* log -> add closes a cycle that need never go back to idle.
CyclicSucc ==
  [n \in MCNodes |->
     CASE n = "add" -> {"d", "log"}
       [] n = "log" -> {"add", "idle"}
       [] OTHER -> {}]

\* Every flow reaches the end of its edges.
AcyclicSucc ==
  [n \in MCNodes |->
     CASE n = "add" -> {"d", "log"}
       [] n = "log" -> {"idle"}
       [] OTHER -> {}]

=============================================================================
