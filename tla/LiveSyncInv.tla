----------------------------- MODULE LiveSyncInv -----------------------------
(***************************************************************************)
(* Inductive invariants of the live loop.  FreshInv: why a fresh value is   *)
(* true, in an environment in which the debuggee does not move unreported   *)
(* and no two variables of a function share a name.  NotEarlierInv: why a   *)
(* fresh value is never older than the PC, in any environment.  StaleInv:   *)
(* why a stale value was exact, where FreshInv holds.                       *)
(***************************************************************************)
EXTENDS LiveSync

\* The debuggee moves only by !dvs_step, and every such move is reported.
Reported == Mishaps \cap Unreported = {}

NamesUnique ==
  \A f \in Funcs : \A u, v \in LvarsOf[f] : Name[u] = Name[v] => u = v

IsUpdate(m) == m.type = "pc_update"
IsRequest(m) == m.type \in {"reg_request", "mem_request"}

\* Something is awaited: a response might still change the table.
Waiting == pending_requests # {} \/ v_pending # {}

(* The extension: outside a step in progress the debuggee is where the last *)
(* pc_update said, so whatever a pump reads is of that instant.             *)
ReportInv ==
  /\ target # "stopped" =>
       wdUp /\ step.pending /\ step.in_progress /\ pump.caller = "none"
  /\ pump.caller # "none" => wdUp
  /\ pump.caller = "step" => step.pending
  /\ pump.caller = "none" => pump.left = 0
  /\ instant = IF target = "notify" THEN reportedAt + 1 ELSE reportedAt

(* Updates reach IDA in the order of their numbers, the newest one tells    *)
(* the instant the extension believes in, and while IDA is connected the    *)
(* newest one is not lost.                                                  *)
UpdateInv ==
  /\ current_pc.seq < next_pc_seq
  /\ current_pc.seq + 1 = next_pc_seq => current_pc.at = reportedAt
  /\ \A i \in DOMAIN toIda : IsUpdate(toIda[i]) =>
       /\ toIda[i].auto
       /\ current_pc.seq < toIda[i].seq
       /\ toIda[i].seq < next_pc_seq
       /\ toIda[i].seq + 1 = next_pc_seq => toIda[i].at = reportedAt
  /\ \A i, j \in DOMAIN toIda :
       IsUpdate(toIda[i]) /\ IsUpdate(toIda[j]) /\ i < j => toIda[i].seq < toIda[j].seq
  /\ idaUp /\ (\E i \in DOMAIN toIda : IsUpdate(toIda[i])) =>
       \E i \in DOMAIN toIda : IsUpdate(toIda[i]) /\ toIda[i].seq + 1 = next_pc_seq

\* A memory request or response is about the slot its id names.
SlotOK(m) ==
  /\ m.rid[1] = "mem" =>
       /\ m.addr.slot \in StackArgs(FuncOf[m.loc])
       /\ Name[m.addr.slot] = m.rid[3]
  /\ m.rid[1] = "v-mem" => m.addr.slot = m.rid[3]

(* Requests on their way are for the current PC or an older one; those for  *)
(* the newest one were computed from its rsp.                               *)
RequestInv ==
  \A i \in DOMAIN toWd : IsRequest(toWd[i]) =>
    /\ toWd[i].seq <= current_pc.seq
    /\ toWd[i].type = "mem_request" =>
         /\ SlotOK(toWd[i])
         /\ toWd[i].seq + 1 = next_pc_seq => toWd[i].addr.sp = reportedAt

\* The answer to this request, or this answer, might still be accepted.
Live(m) == Waiting /\ m.seq = current_pc.seq

\* IDA is at the newest PC, or will learn of a newer one.
NewestKnown ==
  /\ idaUp
  /\ \/ current_pc.seq + 1 = next_pc_seq
     \/ \E j \in DOMAIN toIda : IsUpdate(toIda[j])

(* A request that IDA awaits and that will be answered after the debuggee   *)
(* has moved on is overtaken: the newer pc_update is already on its way.    *)
OvertakenInv ==
  /\ \A i \in DOMAIN toWd : IsRequest(toWd[i]) /\ Live(toWd[i]) => NewestKnown
  /\ \A i \in DOMAIN toIda : ~IsUpdate(toIda[i]) /\ Live(toIda[i]) => NewestKnown

(* A response that IDA would still accept is of the instant of its PC,      *)
(* unless a newer pc_update comes first.                                    *)
AnswerInv ==
  \A i \in DOMAIN toIda : ~IsUpdate(toIda[i]) =>
    /\ toIda[i].seq <= current_pc.seq
    /\ toIda[i].type = "mem_response" => SlotOK(toIda[i])
    /\ Live(toIda[i]) =>
         \/ \E j \in DOMAIN toIda : j < i /\ IsUpdate(toIda[j])
         \/ /\ toIda[i].at = current_pc.at
            /\ toIda[i].type = "mem_response" => toIda[i].addr.sp = current_pc.at

(* While something is awaited the rows and the records are those of the     *)
(* current PC.                                                              *)
ContextInv ==
  /\ Waiting => /\ planned = [func |-> FuncOf[current_pc.loc], at |-> current_pc.at]
                /\ DOMAIN rows = LvarsOf[planned.func]
  /\ v_pending # {} \/ DOMAIN records # {} => v_context = current_pc
  /\ \A p \in v_pending : p.rid[1] = "v-mem" =>
       p.rid[3] \in DOMAIN records /\ records[p.rid[3]].home = "stack"

(* Fresh rows of arguments, fresh records of locals, and the table.         *)
RowsTrue ==
  \A v \in DOMAIN rows : rows[v].status = "fresh" =>
    IsArg(v) /\ rows[v].value = TrueValue(ArgHome[v], v, planned.at)

RecordsTrue ==
  \A v \in DOMAIN records :
    /\ ~IsArg(v)
    /\ records[v].home \in {"none", Evidence[v_context.loc][v]}
    /\ records[v].status = "fresh" =>
         records[v].value = TrueValue(Evidence[v_context.loc][v], v, v_context.at)

\* What the queues hold, and what the plugin keeps.
QueueInv == UpdateInv /\ RequestInv /\ OvertakenInv /\ AnswerInv
TableInv == ContextInv /\ RowsTrue /\ RecordsTrue /\ FreshIsTrue

FreshInv == ReportInv /\ QueueInv /\ TableInv
-----------------------------------------------------------------------------
(***************************************************************************)
(* Whatever goes wrong, time does not run backwards in the queue to IDA:    *)
(* each message says when the debuggee was read, a connection delivers in   *)
(* order and loses only from its end, and so what IDA takes next was read   *)
(* no earlier than the PC it is at.                                         *)
(***************************************************************************)
OrderInv ==
  /\ current_pc.at <= instant
  /\ \A i \in DOMAIN toIda :
       current_pc.at <= toIda[i].at /\ toIda[i].at <= instant
  /\ \A i, j \in DOMAIN toIda : i < j => toIda[i].at <= toIda[j].at

(* The rows are of the last PC that could be enumerated, the records of the *)
(* current one; while anything is awaited those are the same.               *)
PlanInv ==
  /\ planned.at <= current_pc.at
  /\ Waiting => planned.at = current_pc.at
  /\ v_pending # {} \/ DOMAIN records # {} => v_context = current_pc

(* Fresh rows and records are no older than the PC they are for.            *)
RowsNotEarlier ==
  \A v \in DOMAIN rows : rows[v].status = "fresh" => rows[v].value.at >= planned.at

RecordsNotEarlier ==
  \A v \in DOMAIN records :
    records[v].status = "fresh" /\ records[v].value # ConstantValue =>
      records[v].value.at >= v_context.at

NotEarlierInv ==
  OrderInv /\ PlanInv /\ RowsNotEarlier /\ RecordsNotEarlier /\ FreshNotEarlier

-----------------------------------------------------------------------------
(***************************************************************************)
(* Why a stale value was exact: every value that is kept to be shown later, *)
(* in a row or in the history, is what its variable held when it was read.  *)
(***************************************************************************)

\* The value is what v held in that home when it was read, not after t.
Held(value, home, v, t) == value.at <= t /\ value = TrueValue(home, v, value.at)

RowsExact ==
  /\ DOMAIN rows \subseteq LvarsOf[planned.func]
  /\ \A v \in DOMAIN rows :
       /\ rows[v].status = "stale" => rows[v].value # NoValue
       /\ rows[v].value # NoValue =>
            IsArg(v) /\ Held(rows[v].value, ArgHome[v], v, planned.at)

RecordsExact ==
  \A v \in DOMAIN records : records[v].status = "stale" =>
    \E l \in Locs : Held(records[v].value, Evidence[l][v], v, v_context.at)

HistoryExact ==
  \A v \in DOMAIN history :
    \E l \in Locs : Held(history[v].value, Evidence[l][v], v, current_pc.at)

StaleInv == RowsExact /\ RecordsExact /\ HistoryExact /\ StaleWasExact
=============================================================================
