----------------------------- MODULE MCLiveSync -----------------------------
(***************************************************************************)
(* Instances of LiveSync for TLC.                                           *)
(***************************************************************************)
EXTENDS LiveSync

(***************************************************************************)
(* Function f has a register argument "a", a stack argument "s" and a local *)
(* "x"; function g has one argument "b", displayed under the same name as   *)
(* "a" and living in another register.  A location is named for its         *)
(* function and place.                                                      *)
(***************************************************************************)
MCPlace == [l \in Locs |->
  CASE l \in {"f_entry", "g_entry"} -> "entry"
    [] l \in {"f_body", "g_body"} -> "body"
    [] OTHER -> l]
MCFuncOf == [l \in Locs |-> IF l \in {"g_entry", "g_body"} THEN "g" ELSE "f"]
MCLvarsOf == [f \in Funcs |-> IF f = "g" THEN Lvars \cap {"b"} ELSE Lvars \ {"b"}]
MCArgHome == [v \in Lvars |->
  CASE v = "a" -> "rcx" [] v = "b" -> "rdx" [] v \in {"s", "t"} -> "stack"
    [] OTHER -> "local"]
MCName == [v \in Lvars |-> CASE v = "b" -> "a" [] v = "t" -> "s" [] OTHER -> v]
MCEvidence == [l \in Locs |-> [v \in Lvars |->
  CASE v = "x" /\ l = "f_body" -> "rbx"
    [] v = "x" /\ l = "f_entry" -> "constant"
    [] v = "y" /\ l = "f_body" -> "stack"
    [] OTHER -> "none"]]
=============================================================================
