----------------------------- MODULE DayVarPlugin -----------------------------
(***************************************************************************)
(* DayVarPluginController (ida_plugin/dayvar_plugin.py): the handlers of    *)
(* the messages taken off the plugin's queue, on IDA's main thread, and the *)
(* connect and disconnect commands.  It joins DayVarCore and VRecovery, and *)
(* owns the table the user sees.                                            *)
(***************************************************************************)
EXTENDS Link, DayVarCore, VRecovery

VARIABLE view   \* the rows last published; at and seq are history: for what PC

pluginVars == <<coreVars, vVars, view>>

PluginInit ==
  /\ CoreInit
  /\ VInit
  /\ view = [rows |-> rows, seq |-> 0, loc |-> NoLoc, at |-> 0]

PluginTypeOK ==
  /\ CoreTypeOK
  /\ VTypeOK
  /\ DOMAIN view.rows \subseteq Lvars
  /\ view \in [rows : [DOMAIN view.rows -> Row], seq : Nat, loc : Locs, at : Nat]

\* LiveVariablesView.update_rows with these rows, for PC context c.
Show(rs, c) == view' = [rows |-> rs, seq |-> c.seq, loc |-> c.loc, at |-> c.at]

\* _publish_rows
PublishRows == Show(Overlay(rows', records'), current_pc')

Received(type) ==
  /\ toIda # <<>>
  /\ Head(toIda).type = type
  /\ toIda' = Tail(toIda)
  /\ UNCHANGED <<wdUp, idaUp>>

-----------------------------------------------------------------------------
(* _handle_pc_update *)

PcUpdateIgnored ==
  /\ Received("pc_update")
  /\ ~Head(toIda).auto
  /\ UNCHANGED <<toWd, pluginVars>>

\* The PC cannot be mapped: a new context, no requests, ida_pc_mapped with
\* ok = false; rows and table are left as they are.
MappingFailed ==
  LET m == Head(toIda) IN
  /\ Received("pc_update")
  /\ m.auto /\ Place[m.loc] = "foreign"
  /\ start_pc_context(m.seq, m.loc, m.at)
  /\ invalidate_pc(m.seq, m.loc, m.at)
  /\ SendToWd(<<Logged>>)
  /\ UNCHANGED <<rows, planned, view>>

\* The PC maps but Hex-Rays gives no variables: the table is emptied, the
\* core's rows are kept.
EnumerationFailed ==
  LET m == Head(toIda) IN
  /\ Received("pc_update")
  /\ m.auto /\ Place[m.loc] = "opaque"
  /\ start_pc_context(m.seq, m.loc, m.at)
  /\ invalidate_pc(m.seq, m.loc, m.at)
  /\ SendToWd(<<Logged>>)
  /\ Show([v \in {} |-> NoValue], current_pc')
  /\ UNCHANGED <<rows, planned>>

\* The variables are enumerated: ida_pc_mapped, the entry plan and its request,
\* then recovery of the locals selected for analysis and its request.
PcUpdateHandled ==
  LET m == Head(toIda) IN
  /\ Received("pc_update")
  /\ m.auto /\ Place[m.loc] \in {"entry", "body"}
  /\ build_entry_plan(m.seq, m.loc, m.at)
  /\ \/ \E selected \in SUBSET Locals(FuncOf[m.loc]) :
          /\ begin_pc(m.seq, m.loc, m.at, selected)
          /\ SendToWd(<<Logged>> \o EntryRequest(m.seq, m.loc)
                                 \o VRequest(m.seq, m.loc, selected))
     \/ /\ begin_pc_unanalysed(m.seq, m.loc, m.at)
        /\ SendToWd(<<Logged>> \o EntryRequest(m.seq, m.loc))
     \/ /\ invalidate_pc(m.seq, m.loc, m.at)   \* begin_pc itself raised
        /\ SendToWd(<<Logged>> \o EntryRequest(m.seq, m.loc))
  /\ PublishRows

-----------------------------------------------------------------------------
(* _handle_reg_response, _handle_mem_response: by the id's "v-" prefix *)

IsVRequest(m) == m.rid[1] \in {"v-reg", "v-mem"}

RegResponseForArgs ==
  LET m == Head(toIda) IN
  /\ Received("reg_response")
  /\ ~IsVRequest(m)
  /\ apply_reg_response(m)
  /\ UNCHANGED vVars
  /\ PublishRows
  /\ SendToWd(MemRequests(m))

RegResponseForLocals ==
  LET m == Head(toIda) IN
  /\ Received("reg_response")
  /\ IsVRequest(m)
  /\ v_apply_reg_response(m)
  /\ UNCHANGED coreVars
  /\ PublishRows
  /\ SendToWd(VMemRequests(m))

MemResponseForArgs ==
  LET m == Head(toIda) IN
  /\ Received("mem_response")
  /\ ~IsVRequest(m)
  /\ apply_mem_response(m)
  /\ UNCHANGED <<toWd, vVars>>
  /\ PublishRows

MemResponseForLocals ==
  LET m == Head(toIda) IN
  /\ Received("mem_response")
  /\ IsVRequest(m)
  /\ v_apply_mem_response(m)
  /\ UNCHANGED <<toWd, coreVars>>
  /\ PublishRows

\* Refused responses are logged.
ResponseIgnored ==
  LET m == Head(toIda) IN
  /\ \/ /\ Received("reg_response")
        /\ IF IsVRequest(m) THEN ~VRegAccepted(m) ELSE ~RegAccepted(m)
     \/ /\ Received("mem_response")
        /\ IF IsVRequest(m) THEN ~VMemAccepted(m) ELSE ~MemAccepted(m)
  /\ UNCHANGED <<toWd, pluginVars>>

HandleMessage ==
  \/ PcUpdateIgnored \/ MappingFailed \/ EnumerationFailed \/ PcUpdateHandled
  \/ RegResponseForArgs \/ RegResponseForLocals
  \/ MemResponseForArgs \/ MemResponseForLocals \/ ResponseIgnored

-----------------------------------------------------------------------------
(* Commands *)

\* What an earlier client had received is handled before the user reconnects.
connect ==
  /\ ~idaUp
  /\ toIda = <<>>
  /\ idaUp' = TRUE
  /\ UNCHANGED <<toIda, toWd, wdUp, pluginVars>>

\* Pending requests and recovery state are dropped; the context, the rows and
\* the table stay.
disconnect ==
  /\ DropIda
  /\ core_disconnect
  /\ clear_runtime_state
  /\ UNCHANGED <<toWd, wdUp, view>>

\* The connection breaks: ProtocolClient._run ends, nothing else changes.
ConnectionLost ==
  /\ idaUp
  /\ DropIda
  /\ UNCHANGED <<toWd, wdUp, pluginVars>>

PluginNext == HandleMessage \/ connect \/ disconnect
=============================================================================
