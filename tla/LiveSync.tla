------------------------------- MODULE LiveSync -------------------------------
(***************************************************************************)
(* The whole loop: the WinDbg extension and the IDA plugin, joined by the   *)
(* two queues of Link.  What the project promises is that a value shown as  *)
(* fresh is the value the variable has at the PC the table is for.          *)
(***************************************************************************)
EXTENDS WinDbgExt, DayVarPlugin

vars == <<linkVars, wdVars, pluginVars>>

Init == LinkInit /\ WdInit /\ PluginInit

WdStep == WdNext /\ UNCHANGED pluginVars
IdaStep == PluginNext /\ UNCHANGED wdVars
IdaLost == "idaloss" \in Mishaps /\ ConnectionLost /\ UNCHANGED wdVars

Next == WdStep \/ IdaStep \/ IdaLost

Spec == Init /\ [][Next]_vars

-----------------------------------------------------------------------------
(* Every variable has its type. *)
TypeOK == LinkTypeOK /\ WdTypeOK /\ PluginTypeOK

(* The home a variable of the table has at the PC the table is for.         *)
ShownHome(v) == IF IsArg(v) THEN ArgHome[v] ELSE Evidence[view.loc][v]

(***************************************************************************)
(* A value shown as fresh is the one its variable holds at the instant of   *)
(* the pc_update that the table is for: read from the variable's own place, *)
(* at that instant, at an address computed from the rsp of that instant.    *)
(* The extension answers a request from the debuggee as it is when the      *)
(* request arrives (dayvar.c, DvsHandleRegRequest and DvsHandleMemRequest), *)
(* so an answer given one step late carries the next instant's value under  *)
(* the old pc_seq; only the order of messages keeps it out of the table.    *)
(***************************************************************************)
FreshIsTrue ==
  \A v \in DOMAIN view.rows :
    view.rows[v].status = "fresh" =>
      view.rows[v].value = TrueValue(ShownHome(v), v, view.at)

(***************************************************************************)
(* A value shown as stale was exact once: it is what the variable held at   *)
(* some earlier instant, in a place it really lived in.  Argument values    *)
(* are carried over from the previous rows by function and name             *)
(* (build_entry_plan), values of locals through a bounded history           *)
(* (_new_record, _prune_history).                                           *)
(***************************************************************************)
StaleWasExact ==
  \A v \in DOMAIN view.rows :
    LET value == view.rows[v].value IN
    view.rows[v].status = "stale" =>
      /\ value.at <= view.at
      /\ IF IsArg(v) THEN value = TrueValue(ArgHome[v], v, value.at)
         ELSE \E l \in Locs : value = TrueValue(Evidence[l][v], v, value.at)

(***************************************************************************)
(* A value shown as fresh is never older than the PC it is shown for: even  *)
(* when the debuggee moves unreported or connections break, an answer from  *)
(* before the current pc_update cannot satisfy a request made after it.     *)
(***************************************************************************)
FreshNotEarlier ==
  \A v \in DOMAIN view.rows :
    LET row == view.rows[v] IN
    row.status = "fresh" /\ row.value # ConstantValue => row.value.at >= view.at

(***************************************************************************)
(* Whatever happens, the plugin awaits only requests of its current PC, the *)
(* core and the recovery of locals never disagree about which PC that is,   *)
(* and while anything is awaited the table is for that PC.                  *)
(***************************************************************************)
PendingIsCurrent ==
  /\ \A p \in pending_requests \cup v_pending : p.rid[2] = current_pc.seq
  /\ v_context.seq # 0 => v_context = current_pc
  /\ pending_requests \cup v_pending # {} =>
       view.seq = current_pc.seq /\ view.at = current_pc.at

(***************************************************************************)
(* A !dvs_step sequence that can no longer report its stops does not run on *)
(* blindly: at most one stop of a sequence goes unreported, and that stop   *)
(* ends it (DvsHandlePostStepAccessible clears it when the pc_update fails; *)
(* the pump before it hides a lost socket, so one more step is started).    *)
(***************************************************************************)
AtMostOneBlindStop ==
  /\ blind <= 1
  /\ blind = 1 => ~step.pending

-----------------------------------------------------------------------------
(***************************************************************************)
(* Liveness.  The debuggee stops after each step, notifications are         *)
(* delivered, a pump returns (every receive has a timeout), IDA's main      *)
(* thread serves its queue.                                                 *)
(***************************************************************************)
Progress ==
  /\ WF_vars(TargetStops /\ UNCHANGED pluginVars)
  /\ WF_vars(DvsHandlePostStepAccessible /\ UNCHANGED pluginVars)
  /\ WF_vars(PumpReturn /\ UNCHANGED pluginVars)
  /\ WF_vars(HandleMessage /\ UNCHANGED wdVars)

FairSpec == Spec /\ Progress

(***************************************************************************)
(* Every !dvs_step sequence comes to an end, whatever breaks on the way: a  *)
(* sequence left pending would refuse every later !dvs_step.                *)
(***************************************************************************)
StepEnds == step.pending ~> ~step.pending

(***************************************************************************)
(* The user polls now and then, and a pump that keeps being given messages  *)
(* receives them.                                                           *)
(***************************************************************************)
PolledSpec ==
  /\ FairSpec
  /\ SF_vars(PumpReceive /\ UNCHANGED pluginVars)
  /\ SF_vars((\E n \in 1 .. PumpMax : dvs_poll(n)) /\ UNCHANGED pluginVars)

Awaiting == pending_requests \cup v_pending

\* The request, or its answer, is on its way.
Carried(p) ==
  \E m \in Range(toWd \o toIda) :
    m.type \notin {"pc_update", "logged"} /\ m.rid = p.rid

Lost == {p \in Awaiting : ~Carried(p)}

\* What may lose a request: a connection that is down, closed or made anew, and
\* a register request that finds the debugger's registers out of reach.
MayLose ==
  \/ FALSE \in {wdUp, idaUp, wdUp', idaUp'}
  \/ dvs_connect
  \/ PumpReceive /\ Head(toWd).type = "reg_request" /\ UNCHANGED toIda

(***************************************************************************)
(* Every request of the plugin is answered, superseded or lost, and it is   *)
(* lost only with a connection or because the registers could not be read   *)
(* at all (DvsHandleRegRequest returns without an answer): no row waits for *)
(* ever on a request that arrived, although each pump stops after a few     *)
(* messages or at the first timeout.                                        *)
(***************************************************************************)
RequestsEnd ==
  /\ [][Lost' \subseteq Lost \/ MayLose]_vars
  /\ Awaiting # {} ~> Awaiting = {} \/ Lost # {}
=============================================================================
