----------------------------- MODULE MCPluginEnv -----------------------------
(***************************************************************************)
(* An instance of PluginEnv for TLC: a function with a stack argument "s",  *)
(* a local "x" in a register and a local "y" on the stack.                  *)
(***************************************************************************)
EXTENDS PluginEnv

MCPlace == [l \in Locs |->
  CASE l = "f_entry" -> "entry" [] l = "f_body" -> "body" [] OTHER -> l]
MCFuncOf == [l \in Locs |-> "f"]
MCLvarsOf == [f \in Funcs |-> Lvars]
MCArgHome == [v \in Lvars |->
  IF v = "s" THEN "stack" ELSE "local"]
MCName == [v \in Lvars |-> v]
MCEvidence == [l \in Locs |-> [v \in Lvars |->
  CASE v = "x" -> "rbx" [] v = "y" /\ l = "f_body" -> "stack" [] OTHER -> "none"]]
\* The slot asked for, another one, and the one asked for under an earlier rsp.
MCAddrs == {[sp |-> 1, slot |-> "y"], [sp |-> 1, slot |-> "s"], [sp |-> 0, slot |-> "y"]}
MCRegs == {{"rbx", "rsp"}, {"rbx"}}
=============================================================================
