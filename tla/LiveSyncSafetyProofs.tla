-------------------------- MODULE LiveSyncSafetyProofs --------------------------
(***************************************************************************)
(* What holds whatever goes wrong: properties of LiveSync proved for every  *)
(* set of mishaps.                                                          *)
(***************************************************************************)
EXTENDS LiveSyncTypeProofs

-----------------------------------------------------------------------------
(* PendingIsCurrent is inductive as it stands. *)

(* Steps that leave the plugin alone. *)
LEMMA PendingUnchanged ==
  ASSUME PendingIsCurrent, UNCHANGED pluginVars
  PROVE  PendingIsCurrent'
  BY DEF PendingIsCurrent, pluginVars, coreVars, vVars

(* A new context: what is awaited afterwards was asked for in it. *)
LEMMA PendingAtUpdate ==
  ASSUME MappingFailed \/ EnumerationFailed \/ PcUpdateHandled
  PROVE  PendingIsCurrent'
  <1> DEFINE m == Head(toIda)
             c == [seq |-> m.seq, loc |-> m.loc, at |-> m.at]
  <1>1. CASE MappingFailed \/ EnumerationFailed
    <2>1. /\ current_pc' = c /\ v_context' = c
          /\ pending_requests' = {} /\ v_pending' = {}
      BY <1>1 DEF MappingFailed, EnumerationFailed, start_pc_context, invalidate_pc, StartContext
    <2>2. QED
      BY <2>1 DEF PendingIsCurrent
  <1>2. CASE PcUpdateHandled
    <2>1. /\ current_pc' = c
          /\ pending_requests' \in {{}, {[rid |-> EntryRid(m.seq), addr |-> NoAddr]}}
      BY <1>2 DEF PcUpdateHandled, build_entry_plan
    <2>2. /\ v_context' = c
          /\ v_pending' \in {{}, {[rid |-> VRegRid(m.seq), addr |-> NoAddr]}}
      BY <1>2 DEF PcUpdateHandled, begin_pc, begin_pc_unanalysed, invalidate_pc, StartContext
    <2>3. view'.seq = current_pc'.seq /\ view'.at = current_pc'.at
      BY <1>2 DEF PcUpdateHandled, PublishRows, Show
    <2>4. \A p \in pending_requests' \cup v_pending' : p.rid[2] = m.seq
      BY <2>1, <2>2 DEF EntryRid, VRegRid
    <2>5. QED
      BY <2>1, <2>2, <2>3, <2>4 DEF PendingIsCurrent
  <1>3. QED
    BY <1>1, <1>2

(* A response: entries are removed, or memory reads of the context added. *)
LEMMA PendingAtResponse ==
  ASSUME PendingIsCurrent, RegResponseForArgs \/ RegResponseForLocals
                           \/ MemResponseForArgs \/ MemResponseForLocals
  PROVE  PendingIsCurrent'
  <1> DEFINE m == Head(toIda)
  <1>1. view'.seq = current_pc'.seq /\ view'.at = current_pc'.at
    BY DEF RegResponseForArgs, RegResponseForLocals, MemResponseForArgs, MemResponseForLocals,
           PublishRows, Show
  <1>2. UNCHANGED <<current_pc, v_context>>
    BY DEF RegResponseForArgs, RegResponseForLocals, MemResponseForArgs, MemResponseForLocals,
           apply_reg_response, v_apply_reg_response, apply_mem_response, v_apply_mem_response,
           coreVars, vVars
  <1>3. CASE RegResponseForArgs
    <2>1. /\ pending_requests' \subseteq pending_requests \cup StackEntries(m)
          /\ UNCHANGED v_pending
      BY <1>3 DEF RegResponseForArgs, apply_reg_response, vVars
    <2>2. \A p \in StackEntries(m) : p.rid[2] = current_pc.seq
      BY DEF StackEntries, StackRid
    <2>3. QED
      BY <1>1, <1>2, <2>1, <2>2 DEF PendingIsCurrent
  <1>4. CASE RegResponseForLocals
    <2>1. /\ UNCHANGED pending_requests
          /\ v_pending' \subseteq v_pending
               \cup {[rid |-> VMemRid(v), addr |-> VStackAddr(m, v)] : v \in OnStack(m)}
          /\ v_context.seq # 0
      BY <1>4 DEF RegResponseForLocals, v_apply_reg_response, VRegAccepted, VAwaited, coreVars
    <2>2. \A v : VMemRid(v)[2] = v_context.seq
      BY DEF VMemRid
    <2>3. v_context = current_pc
      BY <2>1 DEF PendingIsCurrent
    <2>4. \A p \in v_pending' : p.rid[2] = current_pc.seq
      BY <2>1, <2>2, <2>3 DEF PendingIsCurrent
    <2>5. QED
      BY <1>1, <1>2, <2>1, <2>4 DEF PendingIsCurrent
  <1>5. CASE MemResponseForArgs \/ MemResponseForLocals
    <2>1. pending_requests' \subseteq pending_requests /\ v_pending' \subseteq v_pending
      BY <1>5 DEF MemResponseForArgs, MemResponseForLocals, apply_mem_response,
                  v_apply_mem_response, coreVars, vVars
    <2>2. QED
      BY <1>1, <1>2, <2>1 DEF PendingIsCurrent
  <1>6. QED
    BY <1>3, <1>4, <1>5

LEMMA PendingStep == PendingIsCurrent /\ [Next]_vars => PendingIsCurrent'
  <1> SUFFICES ASSUME PendingIsCurrent, [Next]_vars PROVE PendingIsCurrent'
    OBVIOUS
  <1>1. CASE UNCHANGED pluginVars
    BY <1>1, PendingUnchanged
  <1>2. CASE MappingFailed \/ EnumerationFailed \/ PcUpdateHandled
    BY <1>2, PendingAtUpdate
  <1>3. CASE \/ RegResponseForArgs \/ RegResponseForLocals
             \/ MemResponseForArgs \/ MemResponseForLocals
    BY <1>3, PendingAtResponse
  <1>4. CASE disconnect
    BY <1>4 DEF disconnect, core_disconnect, clear_runtime_state, NoVContext, PendingIsCurrent
  <1>5. QED
    BY <1>1, <1>2, <1>3, <1>4 DEF Next, WdStep, IdaStep, IdaLost, PluginNext, HandleMessage,
       PcUpdateIgnored, ResponseIgnored, connect, ConnectionLost, vars

(***************************************************************************)
(* Whatever breaks, is lost or is reloaded, the plugin awaits only requests *)
(* of its current PC, and its two halves agree on which PC that is          *)
(* (dynvar_core.py start_pc_context and build_entry_plan,                   *)
(* v_variable_recovery.py _start_context, dayvar_plugin.py disconnect).     *)
(***************************************************************************)
THEOREM PendingCurrent == Spec => []PendingIsCurrent
  <1>1. Init => PendingIsCurrent
    BY DEF Init, PluginInit, CoreInit, VInit, NoVContext, PendingIsCurrent
  <1>2. QED
    BY <1>1, PendingStep, PTL DEF Spec

-----------------------------------------------------------------------------
(* AtMostOneBlindStop *)

LEMMA BlindStep == TypeOK /\ AtMostOneBlindStop /\ [Next]_vars => AtMostOneBlindStop'
  <1> SUFFICES ASSUME TypeOK, AtMostOneBlindStop, [Next]_vars PROVE AtMostOneBlindStop'
    OBVIOUS
  <1>0. blind \in Nat /\ step \in StepType
    BY DEF TypeOK, WdTypeOK, StepType
  <1>1. NoStep.pending = FALSE
    BY DEF NoStep
  <1>2. CASE UNCHANGED <<blind, step>>
    BY <1>2 DEF AtMostOneBlindStop
  <1>3. CASE dvs_disconnect \/ Reload \/ NotifyInactive
    BY <1>1, <1>3 DEF dvs_disconnect, Reload, NotifyInactive, DvsClearPendingStep,
                      AtMostOneBlindStop
  <1>4. CASE dvs_pc
    BY <1>4 DEF dvs_pc, PcUpdateSent, AtMostOneBlindStop
  <1>5. CASE \E n \in 1 .. MaxCount : dvs_step(n)
    BY <1>5 DEF dvs_step, AtMostOneBlindStop
  <1>6. CASE PumpReturn
    <2>1. UNCHANGED blind
      BY <1>6 DEF PumpReturn
    <2>2. step'.pending => step.pending
      BY <1>0, <1>1, <1>6 DEF PumpReturn, DvsInitiateNextPendingStep, DvsClearPendingStep, StepType
    <2>3. QED
      BY <2>1, <2>2 DEF AtMostOneBlindStop
  <1>7. CASE DvsHandlePostStepAccessible
    <2>1. CASE UNCHANGED <<blind, step>>
      BY <1>2, <2>1
    <2>2. CASE blind' = 0
      BY <2>2 DEF AtMostOneBlindStop
    <2>3. CASE step.pending /\ step' = NoStep /\ blind' = blind + 1
      BY <1>0, <1>1, <2>3 DEF AtMostOneBlindStop
    <2>4. QED
      BY <1>7, <2>1, <2>2, <2>3 DEF DvsHandlePostStepAccessible, DvsClearPendingStep, PcUpdateSent
  <1>8. QED
    BY <1>2, <1>3, <1>4, <1>5, <1>6, <1>7 DEF Next, WdStep, IdaStep, IdaLost, WdNext, WdCommand,
       WdPump, dvs_connect, dvs_poll, PumpReceive, PumpLost, TargetStops, NativeGo, wdVars, vars

(***************************************************************************)
(* Whatever breaks, at most one stop of a !dvs_step sequence goes           *)
(* unreported, and it ends the sequence (dayvar.c,                          *)
(* DvsHandlePostStepAccessible and DvsSendPcUpdateAndPump).                 *)
(***************************************************************************)
THEOREM BlindStops == Spec => []AtMostOneBlindStop
  <1>1. Init => TypeOK /\ AtMostOneBlindStop
    BY InitTypes DEF Init, WdInit, AtMostOneBlindStop
  <1>2. (TypeOK /\ AtMostOneBlindStop) /\ [Next]_vars => (TypeOK /\ AtMostOneBlindStop)'
    BY NextTypes, BlindStep
  <1>3. QED
    BY <1>1, <1>2, PTL DEF Spec

-----------------------------------------------------------------------------
(* FreshNotEarlier: time does not run backwards in the queue to IDA *)

\* a is an answer to the request m, read at instant t.
AnswerTo(a, m, t) ==
  /\ ~IsUpdate(a) /\ IsRequest(m)
  /\ a.seq = m.seq /\ a.rid = m.rid /\ a.loc = m.loc /\ a.at = t
  /\ a.type = "mem_response" => m.type = "mem_request" /\ a.addr = m.addr

(* Handling a line answers the request in it from the debuggee as it is now, *)
(* or answers nothing.                                                       *)
LEMMA HandledLine ==
  ASSUME TypeOK, toWd # <<>>, DvsHandleIncomingMessage(Head(toWd), Tail(toWd))
  PROVE  \/ toWd' = Tail(toWd) /\ UNCHANGED toIda
         \/ \E a \in IdaMsg : AnswerTo(a, Head(toWd), instant) /\ SendToIda(a, Tail(toWd))
  <1> DEFINE m == Head(toWd)
  <1>1. m \in WdMsg
    BY TailElements DEF TypeOK, LinkTypeOK
  <1>2. CASE m.type = "reg_request" /\ DvsHandleRegRequest(m, Tail(toWd))
    <2>1. m \in RegRequestMsg
      BY <1>1, <1>2 DEF WdMsg, RegRequestMsg, MemRequestMsg, LoggedMsg
    <2>2. ASSUME NEW got \in SUBSET m.regs
          PROVE  RegAnswer(m, got) \in IdaMsg /\ AnswerTo(RegAnswer(m, got), m, instant)
      BY <2>1, <2>2, <1>2 DEF RegAnswer, RegRequestMsg, IdaMsg, RegResponseMsg, TypeOK,
                         WdTypeOK, AnswerTo, IsUpdate, IsRequest
    <2>3. \/ toWd' = Tail(toWd) /\ UNCHANGED toIda
          \/ \E got \in SUBSET m.regs : SendToIda(RegAnswer(m, got), Tail(toWd))
      BY <1>2 DEF DvsHandleRegRequest
    <2>4. QED
      BY <2>2, <2>3
  <1>3. CASE m.type = "mem_request" /\ DvsHandleMemRequest(m, Tail(toWd))
    <2>1. m \in MemRequestMsg
      BY <1>1, <1>3 DEF WdMsg, RegRequestMsg, MemRequestMsg, LoggedMsg
    <2>2. ASSUME NEW readable \in BOOLEAN
          PROVE  MemAnswer(m, readable) \in IdaMsg /\ AnswerTo(MemAnswer(m, readable), m, instant)
      BY <2>1, <2>2, <1>3 DEF MemAnswer, MemRequestMsg, IdaMsg, MemResponseMsg, TypeOK,
                         WdTypeOK, AnswerTo, IsUpdate, IsRequest
    <2>3. \E readable \in BOOLEAN : SendToIda(MemAnswer(m, readable), Tail(toWd))
      BY <1>3 DEF DvsHandleMemRequest
    <2>4. QED
      BY <2>2, <2>3
  <1>4. QED
    BY <1>2, <1>3 DEF DvsHandleIncomingMessage

(* Every message to IDA says when the debuggee was read. *)
LEMMA TimedMessages ==
  ASSUME TypeOK
  PROVE  /\ toIda \in Seq(IdaMsg) /\ \A i \in DOMAIN toIda : toIda[i].at \in Nat
         /\ current_pc.at \in Nat /\ instant \in Nat
  <1>1. \A a \in IdaMsg : a.at \in Nat
    BY DEF IdaMsg, PcUpdateMsg, RegResponseMsg, MemResponseMsg
  <1>2. toIda \in Seq(IdaMsg)
    BY DEF TypeOK, LinkTypeOK
  <1>3. QED
    BY <1>1, <1>2 DEF TypeOK, WdTypeOK, PluginTypeOK, CoreTypeOK, PcContext

(* Nothing new is put in the queue; its end may be lost. *)
LEMMA OrderKept ==
  ASSUME TypeOK, OrderInv, UNCHANGED current_pc, instant' \in {instant, instant + 1},
         \A i \in DOMAIN toIda' : i \in DOMAIN toIda /\ toIda'[i] = toIda[i]
  PROVE  OrderInv'
  <1>1. /\ \A i \in DOMAIN toIda : toIda[i].at \in Nat
        /\ current_pc.at \in Nat /\ instant \in Nat
    BY TimedMessages
  <1>2. current_pc'.at <= instant'
    BY <1>1 DEF OrderInv
  <1>3. \A i \in DOMAIN toIda' :
          current_pc'.at <= toIda'[i].at /\ toIda'[i].at <= instant'
    BY <1>1 DEF OrderInv
  <1>4. \A i, j \in DOMAIN toIda' : i < j => toIda'[i].at <= toIda'[j].at
    BY DEF OrderInv
  <1>5. QED
    BY <1>2, <1>3, <1>4 DEF OrderInv

(* A message of this instant is put behind the others. *)
LEMMA OrderSent ==
  ASSUME TypeOK, OrderInv, UNCHANGED <<current_pc, instant>>,
         NEW a \in IdaMsg, a.at = instant, NEW rest, SendToIda(a, rest)
  PROVE  OrderInv'
  <1>1. /\ toIda \in Seq(IdaMsg) /\ \A i \in DOMAIN toIda : toIda[i].at \in Nat
        /\ current_pc.at \in Nat /\ instant \in Nat
    BY TimedMessages
  <1>2. CASE toIda' = toIda
    BY <1>2, OrderKept
  <1>3. CASE toIda' = Append(toIda, a)
    <2>1. /\ DOMAIN toIda' = 1 .. Len(toIda) + 1 /\ Len(toIda) \in Nat
          /\ DOMAIN toIda = 1 .. Len(toIda)
          /\ \A i \in DOMAIN toIda : toIda'[i] = toIda[i]
          /\ toIda'[Len(toIda) + 1] = a
      BY <1>1, <1>3, AppendElements
    <2>2. \A i \in DOMAIN toIda' : i \in DOMAIN toIda \/ (i = Len(toIda) + 1 /\ toIda'[i] = a)
      BY <2>1
    <2>3. \A i \in DOMAIN toIda :
            current_pc.at <= toIda[i].at /\ toIda[i].at <= instant
      BY DEF OrderInv
    <2>4. current_pc.at <= instant
      BY DEF OrderInv
    <2>5. \A i \in DOMAIN toIda' :
            current_pc.at <= toIda'[i].at /\ toIda'[i].at <= instant
      BY <1>1, <2>1, <2>2, <2>3, <2>4
    <2>6. \A i, j \in DOMAIN toIda' : i < j => toIda'[i].at <= toIda'[j].at
      <3> SUFFICES ASSUME NEW i \in DOMAIN toIda', NEW j \in DOMAIN toIda', i < j
                   PROVE  toIda'[i].at <= toIda'[j].at
        OBVIOUS
      <3>1. i \in DOMAIN toIda
        BY <2>1
      <3>2. CASE j \in DOMAIN toIda
        BY <2>1, <3>1, <3>2 DEF OrderInv
      <3>3. CASE j = Len(toIda) + 1 /\ toIda'[j] = a
        BY <2>1, <2>3, <3>1, <3>3
      <3>4. QED
        BY <2>2, <3>2, <3>3
    <2>7. QED
      BY <2>4, <2>5, <2>6 DEF OrderInv
  <1>4. QED
    BY <1>2, <1>3 DEF SendToIda

(* IDA takes the head: the others are no older, so it may become the PC. *)
LEMMA OrderTaken ==
  ASSUME TypeOK, OrderInv, UNCHANGED instant, NEW type, Received(type),
         current_pc'.at \in {current_pc.at, Head(toIda).at}
  PROVE  /\ OrderInv'
         /\ Head(toIda).at \in Nat /\ current_pc.at <= Head(toIda).at
  <1>1. /\ toIda \in Seq(IdaMsg) /\ \A i \in DOMAIN toIda : toIda[i].at \in Nat
        /\ current_pc.at \in Nat /\ instant \in Nat
    BY TimedMessages
  <1>2. toIda # <<>> /\ toIda' = Tail(toIda)
    BY DEF Received
  <1>3. /\ Head(toIda) = toIda[1] /\ 1 \in DOMAIN toIda /\ Len(toIda) \in Nat
        /\ DOMAIN toIda = 1 .. Len(toIda) /\ DOMAIN toIda' = 1 .. Len(toIda) - 1
        /\ \A i \in DOMAIN toIda' : toIda'[i] = toIda[i + 1]
    BY <1>1, <1>2, TailElements
  <1>4. \A i \in DOMAIN toIda' : i \in Nat /\ i + 1 \in DOMAIN toIda /\ 1 < i + 1
    BY <1>3
  <1>5. \A i \in DOMAIN toIda : current_pc.at <= toIda[i].at /\ toIda[i].at <= instant
    BY DEF OrderInv
  <1>6. \A i, j \in DOMAIN toIda : i < j => toIda[i].at <= toIda[j].at
    BY DEF OrderInv
  <1>7. \A i \in DOMAIN toIda' : Head(toIda).at <= toIda'[i].at
    BY <1>3, <1>4, <1>6
  <1>8. \A i \in DOMAIN toIda' :
          current_pc'.at <= toIda'[i].at /\ toIda'[i].at <= instant'
    BY <1>3, <1>4, <1>5, <1>7
  <1>9. \A i, j \in DOMAIN toIda' : i < j => toIda'[i].at <= toIda'[j].at
    <2> SUFFICES ASSUME NEW i \in DOMAIN toIda', NEW j \in DOMAIN toIda', i < j
                 PROVE  toIda'[i].at <= toIda'[j].at
      OBVIOUS
    <2>1. i + 1 < j + 1 /\ i + 1 \in DOMAIN toIda /\ j + 1 \in DOMAIN toIda
      BY <1>4
    <2>2. QED
      BY <1>3, <1>6, <2>1
  <1>10. current_pc'.at <= instant'
    BY <1>3, <1>5 DEF OrderInv
  <1>11. QED
    BY <1>1, <1>3, <1>5, <1>8, <1>9, <1>10 DEF OrderInv

(* Steps of the extension: what it sends is of this instant. *)
LEMMA OrderWd ==
  ASSUME TypeOK, OrderInv, WdNext, UNCHANGED pluginVars
  PROVE  OrderInv'
  <1>0. UNCHANGED current_pc
    BY DEF pluginVars, coreVars
  <1>1. ASSUME DropWd, UNCHANGED instant
        PROVE  OrderInv'
    <2>1. PICK k \in 0 .. Len(toIda) : toIda' = SubSeq(toIda, 1, k)
      BY <1>1 DEF DropWd
    <2>2. toIda \in Seq(IdaMsg)
      BY DEF TypeOK, LinkTypeOK
    <2>3. \A i \in DOMAIN toIda' : i \in DOMAIN toIda /\ toIda'[i] = toIda[i]
      BY <2>1, <2>2, PrefixElements
    <2>4. QED
      BY <1>0, <1>1, <2>3, OrderKept
  <1>2. ASSUME NEW caller, PcUpdateSent(caller), UNCHANGED instant
        PROVE  OrderInv'
    <2> DEFINE u == [type |-> "pc_update", seq |-> next_pc_seq, loc |-> loc,
                     auto |-> TRUE, at |-> instant]
    <2>1. u \in IdaMsg /\ u.at = instant
      BY DEF TypeOK, WdTypeOK, IdaMsg, PcUpdateMsg
    <2>2. SendToIda(u, toWd)
      BY <1>2 DEF PcUpdateSent
    <2> HIDE DEF u
    <2>3. QED
      BY <1>0, <1>2, <2>1, <2>2, OrderSent
  <1>3. CASE UNCHANGED <<toIda, instant>>
    BY <1>0, <1>3, OrderKept
  <1>4. CASE PumpReceive
    <2>1. /\ UNCHANGED instant
          /\ \/ UNCHANGED toIda
             \/ \E a \in IdaMsg : AnswerTo(a, Head(toWd), instant) /\ SendToIda(a, Tail(toWd))
      BY <1>4, HandledLine DEF PumpReceive
    <2>2. QED
      BY <1>0, <1>3, <2>1, OrderSent DEF AnswerTo
  <1>5. CASE dvs_pc \/ DvsHandlePostStepAccessible
    <2>1. /\ UNCHANGED instant
          /\ \/ UNCHANGED toIda
             \/ DropWd
             \/ \E caller \in {"command", "step"} : PcUpdateSent(caller)
      BY <1>5 DEF dvs_pc, DvsHandlePostStepAccessible, PcUpdateNotSent, PcUpdateLost
    <2>2. QED
      BY <1>1, <1>2, <1>3, <2>1
  <1>6. CASE PumpLost
    BY <1>1, <1>6 DEF PumpLost
  <1>7. CASE TargetStops
    <2>1. UNCHANGED toIda /\ instant' = instant + 1
      BY <1>7 DEF TargetStops, linkVars
    <2>2. QED
      BY <1>0, <2>1, OrderKept
  <1>8. QED
    BY <1>3, <1>4, <1>5, <1>6, <1>7 DEF WdNext, WdCommand, WdPump, dvs_connect, dvs_disconnect,
       dvs_poll, dvs_step, PumpReturn, Reload, NotifyInactive, NativeGo, DvsSocketDisconnect,
       linkVars, wdVars

(* Steps of the plugin, and the loss of its connection. *)
LEMMA OrderIda ==
  ASSUME TypeOK, OrderInv, PluginNext \/ ConnectionLost, UNCHANGED wdVars
  PROVE  OrderInv'
  <1>0. UNCHANGED instant
    BY DEF wdVars
  <1>1. CASE HandleMessage
    <2>1. /\ \E type \in {"pc_update", "reg_response", "mem_response"} : Received(type)
          /\ current_pc'.at \in {current_pc.at, Head(toIda).at}
      BY <1>1 DEF HandleMessage, PcUpdateIgnored, MappingFailed, EnumerationFailed,
         PcUpdateHandled, RegResponseForArgs, RegResponseForLocals, MemResponseForArgs,
         MemResponseForLocals, ResponseIgnored, start_pc_context, build_entry_plan,
         apply_reg_response, apply_mem_response, pluginVars, coreVars
    <2>2. QED
      BY <1>0, <2>1, OrderTaken
  <1>2. CASE connect
    BY <1>0, <1>2, OrderKept DEF connect, pluginVars, coreVars
  <1>3. CASE disconnect \/ ConnectionLost
    <2>1. DropIda /\ UNCHANGED current_pc
      BY <1>3 DEF disconnect, ConnectionLost, core_disconnect, pluginVars, coreVars
    <2>2. PICK k \in 0 .. Len(toIda) : toIda' = SubSeq(toIda, 1, k)
      BY <2>1 DEF DropIda
    <2>3. toIda \in Seq(IdaMsg)
      BY DEF TypeOK, LinkTypeOK
    <2>4. \A i \in DOMAIN toIda' : i \in DOMAIN toIda /\ toIda'[i] = toIda[i]
      BY <2>2, <2>3, PrefixElements
    <2>5. QED
      BY <1>0, <2>1, <2>4, OrderKept
  <1>4. QED
    BY <1>1, <1>2, <1>3 DEF PluginNext

(* OrderInv holds initially and every step keeps it. *)
LEMMA OrderInit == Init => OrderInv
  <1> SUFFICES ASSUME Init PROVE OrderInv
    OBVIOUS
  <1>1. DOMAIN toIda = {}
    BY DEF Init, LinkInit
  <1>2. QED
    BY <1>1 DEF Init, WdInit, PluginInit, CoreInit, NoPc, OrderInv

LEMMA OrderStep == TypeOK /\ OrderInv /\ [Next]_vars => OrderInv'
  <1> SUFFICES ASSUME TypeOK, OrderInv, [Next]_vars PROVE OrderInv'
    OBVIOUS
  <1>1. CASE WdStep
    BY <1>1, OrderWd DEF WdStep
  <1>2. CASE IdaStep \/ IdaLost
    BY <1>2, OrderIda DEF IdaStep, IdaLost
  <1>3. CASE UNCHANGED vars
    BY <1>3 DEF OrderInv, vars, linkVars, wdVars, pluginVars, coreVars
  <1>4. QED
    BY <1>1, <1>2, <1>3 DEF Next

(* A published table is not early when the rows and the records are not, and *)
(* both are of the current PC.                                               *)
LEMMA PublishNotEarlier ==
  ASSUME PublishRows, RowsNotEarlier', RecordsNotEarlier', planned'.at = current_pc'.at,
         DOMAIN records' # {} => v_context' = current_pc'
  PROVE  FreshNotEarlier'
  <1> DEFINE rs == Overlay(rows', records')
  <1>1. view'.rows = rs /\ view'.at = current_pc'.at /\ DOMAIN rs = DOMAIN rows'
    BY DEF PublishRows, Show, Overlay
  <1>2. ASSUME NEW v \in DOMAIN rows', rs[v].status = "fresh", rs[v].value # ConstantValue
        PROVE  rs[v].value.at >= current_pc'.at
    <2>1. CASE ~IsArg(v) /\ v \in DOMAIN records'
      <3>1. rs[v] = [status |-> records'[v].status, value |-> records'[v].value]
        BY <2>1 DEF Overlay
      <3>2. v_context' = current_pc'
        BY <2>1
      <3>3. QED
        BY <1>2, <2>1, <3>1, <3>2 DEF RecordsNotEarlier
    <2>2. CASE ~(~IsArg(v) /\ v \in DOMAIN records')
      <3>1. rs[v] = rows'[v]
        BY <2>2 DEF Overlay
      <3>2. QED
        BY <1>2, <3>1 DEF RowsNotEarlier
    <2>3. QED
      BY <2>1, <2>2
  <1> HIDE DEF rs
  <1>3. QED
    BY <1>1, <1>2 DEF FreshNotEarlier

\* What of NotEarlierInv is about the plugin's own state.
NotEarlierTable == PlanInv /\ RowsNotEarlier /\ RecordsNotEarlier /\ FreshNotEarlier

(* A pc_update: nothing is fresh but constants. *)
LEMMA UpdateNotEarlier ==
  ASSUME TypeOK, OrderInv, NotEarlierTable, UNCHANGED instant,
         MappingFailed \/ EnumerationFailed \/ PcUpdateHandled
  PROVE  NotEarlierTable'
  <1> DEFINE m == Head(toIda)
             f == FuncOf[m.loc]
             c == [seq |-> m.seq, loc |-> m.loc, at |-> m.at]
  <1>1. /\ Received("pc_update") /\ current_pc' = c
    BY DEF MappingFailed, EnumerationFailed, PcUpdateHandled, start_pc_context, build_entry_plan
  <1>2. current_pc'.at = m.at
    BY <1>1
  <1>3. m.at \in Nat /\ current_pc.at <= m.at
    BY <1>1, <1>2, OrderTaken
  <1>4. current_pc.at \in Nat /\ planned.at \in Nat
    BY DEF TypeOK, PluginTypeOK, CoreTypeOK, PcContext
  <1>5. CASE MappingFailed \/ EnumerationFailed
    <2>1. /\ pending_requests' = {} /\ v_pending' = {} /\ records' = NoRecords
          /\ UNCHANGED <<rows, planned>>
      BY <1>5 DEF MappingFailed, EnumerationFailed, start_pc_context, invalidate_pc
    <2>2. DOMAIN records' = {}
      BY <2>1 DEF NoRecords
    <2>3. planned'.at <= current_pc'.at
      BY <1>2, <1>3, <1>4, <2>1 DEF NotEarlierTable, PlanInv
    <2>4. PlanInv' /\ RowsNotEarlier' /\ RecordsNotEarlier'
      BY <2>1, <2>2, <2>3 DEF NotEarlierTable, PlanInv, Waiting, RowsNotEarlier,
                              RecordsNotEarlier
    <2>5. FreshNotEarlier'
      <3>1. CASE MappingFailed
        BY <3>1 DEF MappingFailed, NotEarlierTable, FreshNotEarlier
      <3>2. CASE EnumerationFailed
        <4>1. view'.rows = [v \in {} |-> NoValue]
          BY <3>2 DEF EnumerationFailed, Show
        <4>2. QED
          BY <4>1 DEF FreshNotEarlier
      <3>3. QED
        BY <1>5, <3>1, <3>2
    <2>6. QED
      BY <2>4, <2>5 DEF NotEarlierTable
  <1>6. CASE PcUpdateHandled
    <2>1. /\ planned' = [func |-> f, at |-> m.at] /\ PublishRows
          /\ rows' = [v \in LvarsOf[f] |-> PlannedRow(f, m.loc, v)]
      BY <1>6 DEF PcUpdateHandled, build_entry_plan
    <2>2. RowsNotEarlier'
      <3>1. \A v : PlannedRow(f, m.loc, v).status # "fresh"
        BY DEF PlannedRow
      <3>2. QED
        BY <2>1, <3>1 DEF RowsNotEarlier
    <2>3. /\ v_context' = c
          /\ \A v \in DOMAIN records' :
               records'[v].status = "fresh" => records'[v].value = ConstantValue
      <3>1. CASE \E selected \in SUBSET Locals(f) : begin_pc(m.seq, m.loc, m.at, selected)
        <4>1. PICK selected \in SUBSET Locals(f) : begin_pc(m.seq, m.loc, m.at, selected)
          BY <3>1
        <4>2. /\ v_context' = c
              /\ records' = [v \in Locals(f) |-> NewRecord(m.loc, v, selected)]
          BY <4>1 DEF begin_pc, StartContext
        <4>3. \A v : NewRecord(m.loc, v, selected).status = "fresh" =>
                       NewRecord(m.loc, v, selected).value = ConstantValue
          BY DEF NewRecord, FreshRecord, StaleOrNone
        <4>4. QED
          BY <4>2, <4>3
      <3>2. CASE begin_pc_unanalysed(m.seq, m.loc, m.at)
        BY <3>2 DEF begin_pc_unanalysed, StartContext, NotAnalysed
      <3>3. CASE invalidate_pc(m.seq, m.loc, m.at)
        <4>1. v_context' = c /\ records' = NoRecords
          BY <3>3 DEF invalidate_pc, StartContext
        <4>2. DOMAIN records' = {}
          BY <4>1 DEF NoRecords
        <4>3. QED
          BY <4>1, <4>2
      <3>4. QED
        BY <1>6, <3>1, <3>2, <3>3 DEF PcUpdateHandled
    <2>4. RecordsNotEarlier'
      BY <2>3 DEF RecordsNotEarlier
    <2>5. planned'.at = current_pc'.at
      BY <1>2, <2>1
    <2>6. PlanInv'
      BY <1>1, <1>2, <1>3, <2>3, <2>5 DEF PlanInv
    <2>7. FreshNotEarlier'
      BY <1>1, <2>1, <2>2, <2>3, <2>4, <2>5, PublishNotEarlier
    <2>8. QED
      BY <2>2, <2>4, <2>6, <2>7 DEF NotEarlierTable
  <1>7. QED
    BY <1>5, <1>6

(* An accepted response was read no earlier than the PC of its context. *)
LEMMA ResponseNotEarlier ==
  ASSUME TypeOK, OrderInv, NotEarlierTable, UNCHANGED instant,
         RegResponseForArgs \/ RegResponseForLocals
           \/ MemResponseForArgs \/ MemResponseForLocals
  PROVE  NotEarlierTable'
  <1> DEFINE m == Head(toIda)
  <1>1. /\ \E type \in {"reg_response", "mem_response"} : Received(type)
        /\ PublishRows /\ UNCHANGED <<current_pc, planned, v_context>>
    BY DEF RegResponseForArgs, RegResponseForLocals, MemResponseForArgs, MemResponseForLocals,
           apply_reg_response, v_apply_reg_response, apply_mem_response, v_apply_mem_response,
           coreVars, vVars
  <1>2. m.at \in Nat /\ current_pc.at <= m.at
    BY <1>1, OrderTaken
  <1>3. CoreTypeOK /\ VTypeOK
    BY DEF TypeOK, PluginTypeOK
  <1>4. current_pc.at \in Nat
    BY <1>3 DEF CoreTypeOK, PcContext
  <1>5. Waiting
    BY DEF RegResponseForArgs, RegResponseForLocals, MemResponseForArgs, MemResponseForLocals,
           apply_reg_response, v_apply_reg_response, apply_mem_response, v_apply_mem_response,
           RegAccepted, VRegAccepted, MemAccepted, VMemAccepted, Awaited, VAwaited, Waiting
  <1>6. planned.at = current_pc.at
    BY <1>5 DEF NotEarlierTable, PlanInv
  <1> HIDE DEF m
  <1>7. CASE RegResponseForArgs \/ MemResponseForArgs
    <2>1. /\ UNCHANGED <<v_pending, records>>
          /\ \/ rows' = [v \in DOMAIN rows |-> RegRow(m, v)]
             \/ rows' = [v \in DOMAIN rows |-> MemRow(m, v)]
      BY <1>7 DEF RegResponseForArgs, MemResponseForArgs, apply_reg_response,
                  apply_mem_response, vVars, m
    <2>2. ASSUME NEW v \in DOMAIN rows
          PROVE  /\ RegRow(m, v).status = "fresh" => RegRow(m, v).value.at >= planned.at
                 /\ MemRow(m, v).status = "fresh" => MemRow(m, v).value.at >= planned.at
      <3>1. rows[v].status = "fresh" => rows[v].value.at >= planned.at
        BY DEF NotEarlierTable, RowsNotEarlier
      <3>2. Failed(rows[v]).status # "fresh"
        BY <1>3 DEF Failed, CoreTypeOK, Row
      <3>3. \A r : RegValue(r, m.at).at >= planned.at
        BY <1>2, <1>4, <1>6 DEF RegValue
      <3>4. MemValue(m.addr, m.at).at >= planned.at
        BY <1>2, <1>4, <1>6 DEF MemValue
      <3>5. QED
        BY <3>1, <3>2, <3>3, <3>4 DEF RegRow, MemRow
    <2>3. RowsNotEarlier'
      BY <1>1, <2>1, <2>2 DEF RowsNotEarlier
    <2>4. RecordsNotEarlier'
      BY <1>1, <2>1 DEF NotEarlierTable, RecordsNotEarlier
    <2>5. PlanInv'
      BY <1>1, <1>6, <2>1 DEF NotEarlierTable, PlanInv
    <2>6. FreshNotEarlier'
      BY <1>1, <1>6, <2>3, <2>4, <2>5, PublishNotEarlier DEF PlanInv
    <2>7. QED
      BY <2>3, <2>4, <2>5, <2>6 DEF NotEarlierTable
  <1>8. CASE RegResponseForLocals \/ MemResponseForLocals
    <2>1. /\ UNCHANGED rows /\ v_pending # {}
          /\ \/ records' = [v \in DOMAIN records |-> VRegRecord(m, v)]
             \/ records' = [v \in DOMAIN records |-> VMemRecord(m, v)]
      BY <1>8 DEF RegResponseForLocals, MemResponseForLocals, v_apply_reg_response,
                  v_apply_mem_response, VRegAccepted, VMemAccepted, VAwaited, coreVars, m
    <2>2. v_context = current_pc
      BY <2>1 DEF NotEarlierTable, PlanInv
    <2>3. ASSUME NEW v \in DOMAIN records, NEW r \in {VRegRecord(m, v), VMemRecord(m, v)},
                 r.status = "fresh", r.value # ConstantValue
          PROVE  r.value.at >= v_context.at
      <3>1. records[v].status = "fresh" /\ records[v].value # ConstantValue =>
              records[v].value.at >= v_context.at
        BY DEF NotEarlierTable, RecordsNotEarlier
      <3>2. ErrorRecord(records[v]).status # "fresh"
        BY <1>3 DEF ErrorRecord, VTypeOK, Record
      <3>3. \A h, k : FreshRecord(RegValue(h, m.at), k).value.at >= v_context.at
        BY <1>2, <1>4, <2>2 DEF FreshRecord, RegValue
      <3>4. \A k : FreshRecord(MemValue(m.addr, m.at), k).value.at >= v_context.at
        BY <1>2, <1>4, <2>2 DEF FreshRecord, MemValue
      <3>5. QED
        BY <2>3, <3>1, <3>2, <3>3, <3>4 DEF VRegRecord, VMemRecord
    <2>4. RecordsNotEarlier'
      BY <1>1, <2>1, <2>3 DEF RecordsNotEarlier
    <2>5. RowsNotEarlier'
      BY <1>1, <2>1 DEF NotEarlierTable, RowsNotEarlier
    <2>6. PlanInv'
      <3>1. planned'.at <= current_pc'.at
        BY <1>1 DEF NotEarlierTable, PlanInv
      <3>2. QED
        BY <1>1, <1>6, <2>2, <3>1 DEF PlanInv
    <2>7. FreshNotEarlier'
      BY <1>1, <1>6, <2>2, <2>4, <2>5, PublishNotEarlier
    <2>8. QED
      BY <2>4, <2>5, <2>6, <2>7 DEF NotEarlierTable
  <1>9. QED
    BY <1>7, <1>8

(* NotEarlierInv holds initially and every step keeps it. *)
LEMMA NotEarlierInit == Init => NotEarlierInv
  <1> SUFFICES ASSUME Init PROVE NotEarlierInv
    OBVIOUS
  <1>1. DOMAIN rows = {} /\ DOMAIN records = {} /\ DOMAIN view.rows = {}
    BY DEF Init, PluginInit, CoreInit, VInit, NoRecords
  <1>2. QED
    BY <1>1, OrderInit DEF Init, PluginInit, CoreInit, VInit, NoPc, NotEarlierInv, PlanInv,
                           Waiting, RowsNotEarlier, RecordsNotEarlier, FreshNotEarlier

LEMMA NotEarlierStep == TypeOK /\ NotEarlierInv /\ [Next]_vars => NotEarlierInv'
  <1> SUFFICES ASSUME TypeOK, NotEarlierInv, [Next]_vars PROVE NotEarlierInv'
    OBVIOUS
  <1>1. OrderInv /\ NotEarlierTable
    BY DEF NotEarlierInv, NotEarlierTable
  <1>2. OrderInv'
    BY <1>1, OrderStep
  <1>3. CASE UNCHANGED pluginVars
    <2>1. UNCHANGED <<current_pc, pending_requests, rows, planned, v_context, v_pending,
                      records, view>>
      BY <1>3 DEF pluginVars, coreVars, vVars
    <2>2. NotEarlierTable'
      BY <1>1, <2>1 DEF NotEarlierTable, PlanInv, Waiting, RowsNotEarlier, RecordsNotEarlier,
                        FreshNotEarlier
    <2>3. QED
      BY <1>2, <2>2 DEF NotEarlierInv, NotEarlierTable
  <1>4. CASE disconnect
    <2>1. /\ pending_requests' = {} /\ v_pending' = {} /\ records' = NoRecords
          /\ UNCHANGED <<current_pc, rows, planned, view>>
      BY <1>4 DEF disconnect, core_disconnect, clear_runtime_state
    <2>2. DOMAIN records' = {}
      BY <2>1 DEF NoRecords
    <2>3. NotEarlierTable'
      BY <1>1, <2>1, <2>2 DEF NotEarlierTable, PlanInv, Waiting, RowsNotEarlier,
                              RecordsNotEarlier, FreshNotEarlier
    <2>4. QED
      BY <1>2, <2>3 DEF NotEarlierInv, NotEarlierTable
  <1>5. CASE UNCHANGED wdVars /\ (MappingFailed \/ EnumerationFailed \/ PcUpdateHandled)
    BY <1>1, <1>2, <1>5, UpdateNotEarlier DEF NotEarlierInv, NotEarlierTable, wdVars
  <1>6. CASE /\ UNCHANGED wdVars
             /\ \/ RegResponseForArgs \/ RegResponseForLocals
                \/ MemResponseForArgs \/ MemResponseForLocals
    BY <1>1, <1>2, <1>6, ResponseNotEarlier DEF NotEarlierInv, NotEarlierTable, wdVars
  <1>7. QED
    BY <1>3, <1>4, <1>5, <1>6 DEF Next, WdStep, IdaStep, IdaLost, PluginNext, HandleMessage,
       PcUpdateIgnored, ResponseIgnored, connect, ConnectionLost, vars

(***************************************************************************)
(* A value shown as fresh was read no earlier than the PC it is shown for,  *)
(* whatever breaks, is lost, is reloaded or moves unreported: an answer     *)
(* from before the current pc_update never fills a row after it             *)
(* (dynvar_core.py, _take_pending_response; v_variable_recovery.py,         *)
(* _take_pending).                                                          *)
(***************************************************************************)
THEOREM FreshIsNotEarlier == Spec => []FreshNotEarlier
  <1>1. Init => TypeOK /\ NotEarlierInv
    BY InitTypes, NotEarlierInit
  <1>2. (TypeOK /\ NotEarlierInv) /\ [Next]_vars => (TypeOK /\ NotEarlierInv)'
    BY NextTypes, NotEarlierStep
  <1>3. TypeOK /\ NotEarlierInv => FreshNotEarlier
    BY DEF NotEarlierInv
  <1>4. QED
    BY <1>1, <1>2, <1>3, PTL DEF Spec
=============================================================================
