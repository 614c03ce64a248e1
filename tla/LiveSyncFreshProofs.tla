-------------------------- MODULE LiveSyncFreshProofs --------------------------
(***************************************************************************)
(* A fresh value is true, for every database, every sequence of commands    *)
(* and every interleaving, as long as the debuggee moves only by !dvs_step, *)
(* connections end only by command, and names are unique within a function. *)
(***************************************************************************)
EXTENDS LiveSyncSafetyProofs

-----------------------------------------------------------------------------
(* Steps of the extension *)

(* What Reported rules out. *)
LEMMA NoMishap ==
  ASSUME Reported
  PROVE  /\ "native" \notin Mishaps /\ "pcfail" \notin Mishaps /\ "wdloss" \notin Mishaps
         /\ "idaloss" \notin Mishaps /\ "inactive" \notin Mishaps /\ "reload" \notin Mishaps
  BY DEF Reported, Unreported

(* A step that neither numbers a pc_update nor answers anything, and leaves  *)
(* the queue to the extension alone or empties it of requests, keeps what    *)
(* is known of the queues.                                                   *)
LEMMA QuietQueues ==
  ASSUME QueueInv, UNCHANGED <<toIda, idaUp, next_pc_seq, reportedAt, pluginVars>>,
         toWd' = toWd \/ \A i \in DOMAIN toWd' : ~IsRequest(toWd'[i])
  PROVE  QueueInv'
  <1>1. UNCHANGED <<current_pc, pending_requests, v_pending>>
    BY DEF pluginVars, coreVars, vVars
  <1>2. UpdateInv'
    BY <1>1 DEF QueueInv, UpdateInv, IsUpdate
  <1>3. RequestInv'
    BY <1>1 DEF QueueInv, RequestInv, IsRequest, SlotOK
  <1>4. OvertakenInv'
    BY <1>1 DEF QueueInv, OvertakenInv, Live, Waiting, NewestKnown, IsUpdate, IsRequest
  <1>5. AnswerInv'
    BY <1>1 DEF QueueInv, AnswerInv, Live, Waiting, IsUpdate, SlotOK
  <1>6. QED
    BY <1>2, <1>3, <1>4, <1>5 DEF QueueInv

(* A pc_update that is sent is newer than all the others; what it overtakes  *)
(* is no longer the newest.  With IDA not connected nothing awaited is left  *)
(* to overtake.                                                              *)
LEMMA SentQueues ==
  ASSUME TypeOK, QueueInv, NEW caller, PcUpdateSent(caller), UNCHANGED <<idaUp, pluginVars>>
  PROVE  QueueInv'
  <1> DEFINE u == [type |-> "pc_update", seq |-> next_pc_seq, loc |-> loc,
                   auto |-> TRUE, at |-> instant]
  <1>1. UNCHANGED <<current_pc, pending_requests, v_pending>>
    BY DEF pluginVars, coreVars, vVars
  <1>2. next_pc_seq' = next_pc_seq + 1 /\ reportedAt' = instant /\ SendToIda(u, toWd)
    BY DEF PcUpdateSent
  <1>3. next_pc_seq \in Nat /\ current_pc.seq \in Nat /\ instant \in Nat
    BY DEF TypeOK, WdTypeOK, PluginTypeOK, CoreTypeOK, PcContext
  <1>4. u \in IdaMsg /\ IsUpdate(u) /\ u.auto /\ u.seq = next_pc_seq /\ u.at = instant
    BY DEF TypeOK, WdTypeOK, IdaMsg, PcUpdateMsg, IsUpdate
  <1>5. toIda \in Seq(IdaMsg) /\ toWd \in Seq(WdMsg)
    BY DEF TypeOK, LinkTypeOK
  <1>6. \A i \in DOMAIN toIda : IsUpdate(toIda[i]) => toIda[i].seq \in Nat
    BY <1>5 DEF IsUpdate, IdaMsg, PcUpdateMsg, RegResponseMsg, MemResponseMsg
  <1>7. \A i \in DOMAIN toWd : IsRequest(toWd[i]) => toWd[i].seq \in Nat
    BY <1>5 DEF IsRequest, WdMsg, RegRequestMsg, MemRequestMsg, LoggedMsg
  <1> HIDE DEF u
  <1>8. CASE idaUp
    <2>1. toIda' = Append(toIda, u) /\ toWd' = toWd
      BY <1>2, <1>8 DEF SendToIda
    <2>2. /\ DOMAIN toIda' = 1 .. Len(toIda) + 1 /\ Len(toIda) \in Nat
          /\ DOMAIN toIda = 1 .. Len(toIda)
          /\ \A i \in DOMAIN toIda : toIda'[i] = toIda[i]
          /\ toIda'[Len(toIda) + 1] = u
      BY <1>4, <1>5, <2>1, AppendElements
    <2>3. UpdateInv'
      <3>1. \A i \in DOMAIN toIda' : i \in DOMAIN toIda \/ i = Len(toIda) + 1
        BY <2>2
      <3>2. \A i \in DOMAIN toIda : IsUpdate(toIda[i]) =>
              toIda[i].auto /\ current_pc.seq < toIda[i].seq /\ toIda[i].seq < next_pc_seq
        BY DEF QueueInv, UpdateInv
      <3>3. current_pc.seq < next_pc_seq
        BY DEF QueueInv, UpdateInv
      <3>4. \A i \in DOMAIN toIda' : IsUpdate(toIda'[i]) =>
              /\ toIda'[i].auto
              /\ current_pc.seq < toIda'[i].seq
              /\ toIda'[i].seq < next_pc_seq'
              /\ toIda'[i].seq + 1 = next_pc_seq' => toIda'[i].at = reportedAt'
        BY <1>2, <1>3, <1>4, <1>6, <2>2, <3>1, <3>2, <3>3
      <3>5. \A i, j \in DOMAIN toIda' :
              IsUpdate(toIda'[i]) /\ IsUpdate(toIda'[j]) /\ i < j =>
                toIda'[i].seq < toIda'[j].seq
        <4>1. \A i, j \in DOMAIN toIda :
                IsUpdate(toIda[i]) /\ IsUpdate(toIda[j]) /\ i < j => toIda[i].seq < toIda[j].seq
          BY DEF QueueInv, UpdateInv
        <4>2. QED
          BY <1>4, <2>2, <3>1, <3>2, <4>1
      <3>6. \E i \in DOMAIN toIda' : IsUpdate(toIda'[i]) /\ toIda'[i].seq + 1 = next_pc_seq'
        BY <1>2, <1>4, <2>2
      <3>7. QED
        BY <1>1, <1>2, <1>3, <3>3, <3>4, <3>5, <3>6 DEF UpdateInv
    <2>4. RequestInv'
      BY <1>1, <1>2, <1>3, <1>7, <2>1 DEF QueueInv, RequestInv, UpdateInv, SlotOK
    <2>5. NewestKnown'
      BY <1>4, <1>8, <2>2 DEF NewestKnown
    <2>6. OvertakenInv'
      BY <2>5 DEF OvertakenInv
    <2>7. AnswerInv'
      <3> SUFFICES ASSUME NEW i \in DOMAIN toIda', ~IsUpdate(toIda'[i])
                   PROVE  /\ toIda'[i].seq <= current_pc.seq
                          /\ toIda'[i].type = "mem_response" => SlotOK(toIda'[i])
                          /\ Live(toIda'[i]) =>
                               \/ \E j \in DOMAIN toIda' : j < i /\ IsUpdate(toIda'[j])
                               \/ /\ toIda'[i].at = current_pc.at
                                  /\ toIda'[i].type = "mem_response" =>
                                       toIda'[i].addr.sp = current_pc.at
        BY <1>1 DEF AnswerInv, Live, Waiting, SlotOK, IsUpdate
      <3>1. i \in DOMAIN toIda /\ toIda'[i] = toIda[i]
        BY <1>4, <2>2
      <3>2. \A j \in DOMAIN toIda : j \in DOMAIN toIda' /\ toIda'[j] = toIda[j]
        BY <2>2
      <3>3. QED
        BY <3>1, <3>2 DEF QueueInv, AnswerInv
    <2>8. QED
      BY <2>3, <2>4, <2>6, <2>7 DEF QueueInv
  <1>9. CASE ~idaUp
    <2>1. toIda' = toIda /\ toWd' = Append(toWd, Logged)
      BY <1>2, <1>9 DEF SendToIda
    <2>2. Logged \in WdMsg /\ ~IsRequest(Logged)
      BY DEF Logged, LoggedMsg, WdMsg, IsRequest
    <2>3. \A i \in DOMAIN toWd' :
            IsRequest(toWd'[i]) => i \in DOMAIN toWd /\ toWd'[i] = toWd[i]
      <3>1. /\ DOMAIN toWd' = 1 .. Len(toWd) + 1 /\ Len(toWd) \in Nat
            /\ DOMAIN toWd = 1 .. Len(toWd)
            /\ \A i \in DOMAIN toWd : toWd'[i] = toWd[i]
            /\ toWd'[Len(toWd) + 1] = Logged
        BY <1>5, <2>1, <2>2, AppendElements
      <3>2. QED
        BY <2>2, <3>1
    <2>4. UpdateInv'
      BY <1>1, <1>2, <1>3, <1>6, <1>9, <2>1 DEF QueueInv, UpdateInv, IsUpdate
    <2>5. RequestInv'
      BY <1>1, <1>2, <1>3, <1>7, <2>3 DEF QueueInv, RequestInv, UpdateInv, SlotOK
    <2>6. OvertakenInv'
      BY <1>1, <1>9, <2>1, <2>3 DEF QueueInv, OvertakenInv, NewestKnown, Live, Waiting, IsUpdate
    <2>7. AnswerInv'
      BY <1>1, <2>1 DEF QueueInv, AnswerInv, Live, Waiting, SlotOK, IsUpdate
    <2>8. QED
      BY <2>4, <2>5, <2>6, <2>7 DEF QueueInv
  <1>10. QED
    BY <1>8, <1>9

(* An answer that IDA would still accept was read at the instant of the PC   *)
(* it is for, unless the newer pc_update is already ahead of it in the queue.*)
LEMMA AnswerQueues ==
  ASSUME TypeOK, ReportInv, QueueInv, PumpReceive, UNCHANGED pluginVars
  PROVE  QueueInv'
  <1> DEFINE m == Head(toWd)
  <1>1. UNCHANGED <<current_pc, pending_requests, v_pending, next_pc_seq, reportedAt, idaUp>>
    BY DEF pluginVars, coreVars, vVars, PumpReceive
  <1>2. toIda \in Seq(IdaMsg) /\ toWd \in Seq(WdMsg) /\ toWd # <<>>
    BY DEF TypeOK, LinkTypeOK, PumpReceive
  <1>3. /\ m = toWd[1] /\ 1 \in DOMAIN toWd /\ m \in WdMsg
        /\ \A i \in DOMAIN Tail(toWd) : i + 1 \in DOMAIN toWd /\ Tail(toWd)[i] = toWd[i + 1]
        /\ Tail(toWd) \in Seq(WdMsg)
    BY <1>2, TailElements
  <1>4. instant = reportedAt
    <2>1. pump.caller # "none"
      BY DEF PumpReceive, ReportInv
    <2>2. QED
      BY <2>1 DEF ReportInv, TypeOK, WdTypeOK
  <1>5. \/ toWd' = Tail(toWd) /\ UNCHANGED toIda
        \/ \E a \in IdaMsg : AnswerTo(a, m, instant) /\ SendToIda(a, Tail(toWd))
    BY HandledLine DEF PumpReceive
  <1> HIDE DEF m
  <1>6. \A i \in DOMAIN toWd' :
          IsRequest(toWd'[i]) => \E j \in DOMAIN toWd : toWd'[i] = toWd[j]
    <2>1. CASE toWd' = Tail(toWd)
      BY <1>3, <2>1
    <2>2. CASE toWd' = Append(Tail(toWd), Logged)
      <3>1. Logged \in WdMsg /\ ~IsRequest(Logged)
        BY DEF Logged, LoggedMsg, WdMsg, IsRequest
      <3>2. /\ DOMAIN toWd' = 1 .. Len(Tail(toWd)) + 1 /\ Len(Tail(toWd)) \in Nat
            /\ DOMAIN Tail(toWd) = 1 .. Len(Tail(toWd))
            /\ \A i \in DOMAIN Tail(toWd) : toWd'[i] = Tail(toWd)[i]
            /\ toWd'[Len(Tail(toWd)) + 1] = Logged
        BY <1>3, <2>2, <3>1, AppendElements
      <3>3. \A i \in DOMAIN toWd' : i \in DOMAIN Tail(toWd) \/ toWd'[i] = Logged
        BY <3>2
      <3>4. QED
        BY <1>3, <3>1, <3>2, <3>3
    <2>3. QED
      BY <1>5, <2>1, <2>2 DEF SendToIda
  <1>7. RequestInv'
    BY <1>1, <1>6 DEF QueueInv, RequestInv, SlotOK
  <1>8. CASE toIda' = toIda
    <2>1. UpdateInv' /\ AnswerInv'
      BY <1>1, <1>8 DEF QueueInv, UpdateInv, AnswerInv, Live, Waiting, SlotOK, IsUpdate
    <2>2. OvertakenInv'
      BY <1>1, <1>6, <1>8 DEF QueueInv, OvertakenInv, NewestKnown, Live, Waiting, IsUpdate
    <2>3. QED
      BY <1>7, <2>1, <2>2 DEF QueueInv
  <1>9. ASSUME NEW a \in IdaMsg, AnswerTo(a, m, instant), toIda' = Append(toIda, a)
        PROVE  QueueInv'
    <2>1. /\ DOMAIN toIda' = 1 .. Len(toIda) + 1 /\ Len(toIda) \in Nat
          /\ DOMAIN toIda = 1 .. Len(toIda)
          /\ \A i \in DOMAIN toIda : toIda'[i] = toIda[i]
          /\ toIda'[Len(toIda) + 1] = a
      BY <1>2, <1>9, AppendElements
    <2>2. \A i \in DOMAIN toIda : i \in DOMAIN toIda' /\ toIda'[i] = toIda[i]
      BY <2>1
    <2>3. \A i \in DOMAIN toIda' :
             i \in DOMAIN toIda \/ (i = Len(toIda) + 1 /\ toIda'[i] = a)
      BY <2>1
    <2>4. ~IsUpdate(a) /\ IsRequest(m)
      BY <1>9 DEF AnswerTo
    <2>5. UpdateInv'
      <3>1. \A i \in DOMAIN toIda' :
              IsUpdate(toIda'[i]) => i \in DOMAIN toIda /\ toIda'[i] = toIda[i]
        BY <2>2, <2>3, <2>4
      <3>2. QED
        BY <1>1, <2>2, <3>1 DEF QueueInv, UpdateInv
    <2>6. NewestKnown => NewestKnown'
      BY <1>1, <2>2 DEF NewestKnown
    <2>7. Live(a) <=> Live(m)
      BY <1>9 DEF Live, AnswerTo
    <2>8. OvertakenInv'
      <3>1. \A i \in DOMAIN toWd : IsRequest(toWd[i]) /\ Live(toWd[i]) => NewestKnown'
        BY <2>6 DEF QueueInv, OvertakenInv
      <3>2. \A i \in DOMAIN toIda' : ~IsUpdate(toIda'[i]) /\ Live(toIda'[i]) => NewestKnown'
        BY <1>3, <2>2, <2>3, <2>4, <2>6, <2>7, <3>1 DEF QueueInv, OvertakenInv
      <3>3. QED
        BY <1>1, <1>6, <3>1, <3>2 DEF OvertakenInv, Live, Waiting
    <2>9. AnswerInv'
      <3> SUFFICES ASSUME NEW i \in DOMAIN toIda', ~IsUpdate(toIda'[i])
                   PROVE  /\ toIda'[i].seq <= current_pc.seq
                          /\ toIda'[i].type = "mem_response" => SlotOK(toIda'[i])
                          /\ Live(toIda'[i]) =>
                               \/ \E j \in DOMAIN toIda' : j < i /\ IsUpdate(toIda'[j])
                               \/ /\ toIda'[i].at = current_pc.at
                                  /\ toIda'[i].type = "mem_response" =>
                                       toIda'[i].addr.sp = current_pc.at
        BY <1>1 DEF AnswerInv, Live, Waiting, SlotOK, IsUpdate
      <3>1. CASE i \in DOMAIN toIda
        BY <2>2, <3>1 DEF QueueInv, AnswerInv
      <3>2. CASE i = Len(toIda) + 1 /\ toIda'[i] = a
        <4>1. /\ m.seq <= current_pc.seq
              /\ m.type = "mem_request" =>
                   SlotOK(m) /\ (m.seq + 1 = next_pc_seq => m.addr.sp = reportedAt)
          BY <1>3, <2>4 DEF QueueInv, RequestInv
        <4>2. a.seq <= current_pc.seq /\ (a.type = "mem_response" => SlotOK(a))
          BY <1>9, <4>1 DEF AnswerTo, SlotOK
        <4>3. ASSUME Live(a)
              PROVE  \/ \E j \in DOMAIN toIda' : j < i /\ IsUpdate(toIda'[j])
                     \/ /\ a.at = current_pc.at
                        /\ a.type = "mem_response" => a.addr.sp = current_pc.at
          <5>1. NewestKnown
            BY <1>3, <2>4, <2>7, <4>3 DEF QueueInv, OvertakenInv
          <5>2. CASE \E j \in DOMAIN toIda : IsUpdate(toIda[j])
            BY <2>1, <2>2, <3>2, <5>2
          <5>3. CASE current_pc.seq + 1 = next_pc_seq
            <6>1. current_pc.at = reportedAt
              BY <5>3 DEF QueueInv, UpdateInv
            <6>2. m.seq + 1 = next_pc_seq
              BY <2>7, <4>3, <5>3 DEF Live
            <6>3. QED
              BY <1>4, <1>9, <4>1, <6>1, <6>2 DEF AnswerTo
          <5>4. QED
            BY <5>1, <5>2, <5>3 DEF NewestKnown
        <4>4. QED
          BY <3>2, <4>2, <4>3
      <3>3. QED
        BY <2>3, <3>1, <3>2
    <2>10. QED
      BY <1>7, <2>5, <2>8, <2>9 DEF QueueInv
  <1>10. QED
    BY <1>5, <1>8, <1>9 DEF SendToIda

(* Steps of the extension: each action keeps what is known of the debuggee   *)
(* (ReportInv) and of the queues.                                            *)
LEMMA WdKeepsInv ==
  ASSUME Reported, TypeOK, ReportInv, QueueInv, WdNext, UNCHANGED pluginVars
  PROVE  ReportInv' /\ QueueInv'
  <1>0. /\ instant \in Nat /\ reportedAt \in Nat /\ pump.left \in Nat
        /\ target \in {"stopped", "running", "notify"}
    BY DEF TypeOK, WdTypeOK
  <1>a. /\ \A i \in DOMAIN <<>> : ~IsRequest(<<>>[i])
        /\ \A i \in DOMAIN <<Logged>> : ~IsRequest(<<Logged>>[i])
    BY DEF Logged, IsRequest
  <1>b. ASSUME NEW s \in StepType, s.pending, DvsInitiateNextPendingStep(s)
        PROVE  \/ target' = "running" /\ step'.pending /\ step'.in_progress
               \/ target' = "stopped"
    BY <1>b DEF DvsInitiateNextPendingStep, DvsClearPendingStep, StepType
  <1>1. CASE dvs_connect
    <2>1. ReportInv'
      BY <1>1 DEF dvs_connect, DvsSocketDisconnect, Prompt, ReportInv, wdVars
    <2>2. toWd' = <<>> \/ toWd' = <<Logged>>
      BY <1>1 DEF dvs_connect, DvsSocketDisconnect
    <2>3. UNCHANGED <<toIda, idaUp, next_pc_seq, reportedAt, pluginVars>>
      BY <1>1 DEF dvs_connect, DvsSocketDisconnect, wdVars
    <2>4. QED
      BY <1>a, <2>1, <2>2, <2>3, QuietQueues
  <1>2. CASE dvs_disconnect
    <2>1. ReportInv'
      BY <1>2 DEF dvs_disconnect, DvsClearPendingStep, DvsSocketDisconnect, Prompt, ReportInv
    <2>2. toWd' = <<>> /\ UNCHANGED <<toIda, idaUp, next_pc_seq, reportedAt, pluginVars>>
      BY <1>2 DEF dvs_disconnect, DvsSocketDisconnect
    <2>3. QED
      BY <1>a, <2>1, <2>2, QuietQueues
  <1>3. CASE dvs_pc
    <2>1. CASE PcUpdateSent("command")
      <3>1. ReportInv'
        BY <1>0, <1>3, <2>1 DEF dvs_pc, PcUpdateSent, Prompt, ReportInv
      <3>2. QED
        BY <1>3, <2>1, <3>1, SentQueues DEF dvs_pc
    <2>2. CASE PcUpdateNotSent
      <3>1. UNCHANGED <<toIda, idaUp, next_pc_seq, reportedAt, pluginVars, toWd, wdUp, pump,
                        instant, target, step>>
        BY <1>3, <2>2, NoMishap DEF dvs_pc, PcUpdateNotSent
      <3>2. ReportInv'
        BY <3>1 DEF ReportInv
      <3>3. QED
        BY <3>1, <3>2, QuietQueues
    <2>3. QED
      BY <1>3, <2>1, <2>2, NoMishap DEF dvs_pc, PcUpdateLost
  <1>4. CASE \E n \in 1 .. PumpMax : dvs_poll(n)
    <2>1. ReportInv'
      BY <1>4 DEF dvs_poll, Prompt, ReportInv, linkVars
    <2>2. UNCHANGED <<toIda, idaUp, next_pc_seq, reportedAt, pluginVars, toWd>>
      BY <1>4 DEF dvs_poll, linkVars
    <2>3. QED
      BY <2>1, <2>2, QuietQueues
  <1>5. CASE \E n \in 1 .. MaxCount : dvs_step(n)
    <2>1. PICK n \in 1 .. MaxCount : dvs_step(n)
      BY <1>5
    <2>2. [pending |-> TRUE, in_progress |-> FALSE, remaining |-> n] \in StepType
      BY WinDbgAssumption DEF StepType
    <2>3. \/ target' = "running" /\ step'.pending /\ step'.in_progress
          \/ target' = "stopped"
      BY <1>b, <2>1, <2>2 DEF dvs_step
    <2>4. /\ Prompt /\ wdUp
          /\ UNCHANGED <<toIda, idaUp, next_pc_seq, reportedAt, pluginVars, toWd, wdUp, pump,
                         instant>>
      BY <2>1 DEF dvs_step, linkVars
    <2>5. ReportInv'
      BY <1>0, <2>3, <2>4 DEF Prompt, ReportInv
    <2>6. QED
      BY <2>4, <2>5, QuietQueues
  <1>6. CASE PumpReceive
    <2>1. pump.caller # "none"
      BY <1>6 DEF PumpReceive, ReportInv
    <2>2. pump'.caller = pump.caller
      BY <1>6 DEF PumpReceive, TypeOK, WdTypeOK
    <2>3. UNCHANGED <<target, wdUp, step, instant, reportedAt>>
      BY <1>6 DEF PumpReceive
    <2>4. ReportInv'
      BY <2>1, <2>2, <2>3 DEF ReportInv
    <2>5. QED
      BY <1>6, <2>4, AnswerQueues
  <1>7. CASE PumpReturn
    <2>1. /\ pump.caller # "none" /\ target = "stopped" /\ wdUp
          /\ pump' = NoPump
          /\ UNCHANGED <<toIda, idaUp, next_pc_seq, reportedAt, pluginVars, toWd, wdUp, instant>>
      BY <1>0, <1>7 DEF PumpReturn, linkVars, ReportInv
    <2>2. \/ target' = "running" /\ step'.pending /\ step'.in_progress
          \/ target' = "stopped"
      <3>1. step \in StepType /\ (pump.caller = "step" => step.pending)
        BY DEF TypeOK, WdTypeOK, StepType, ReportInv
      <3>2. CASE pump.caller = "step" /\ DvsInitiateNextPendingStep(step)
        BY <1>b, <3>1, <3>2
      <3>3. CASE UNCHANGED target
        BY <2>1, <3>3
      <3>4. QED
        BY <1>7, <3>2, <3>3 DEF PumpReturn
    <2>3. ReportInv'
      BY <1>0, <2>1, <2>2 DEF ReportInv, NoPump
    <2>4. QED
      BY <2>1, <2>3, QuietQueues
  <1>8. CASE DvsHandlePostStepAccessible
    <2>1. step.pending /\ step.in_progress /\ wdUp /\ target = "notify"
      BY <1>8 DEF DvsHandlePostStepAccessible, ReportInv
    <2>2. PcUpdateSent("step") /\ step' = [step EXCEPT !.in_progress = FALSE]
      BY <1>8, <2>1, NoMishap DEF DvsHandlePostStepAccessible, PcUpdateNotSent, PcUpdateLost
    <2>3. step'.pending
      BY <2>1, <2>2 DEF TypeOK, WdTypeOK
    <2>4. target' = "stopped" /\ UNCHANGED <<instant, idaUp>>
      BY <1>8 DEF DvsHandlePostStepAccessible
    <2>5. ReportInv'
      BY <1>0, <2>1, <2>2, <2>3, <2>4 DEF ReportInv, PcUpdateSent
    <2>6. QED
      BY <2>2, <2>4, <2>5, SentQueues
  <1>9. CASE TargetStops
    <2>1. ReportInv'
      BY <1>0, <1>9 DEF TargetStops, ReportInv, linkVars
    <2>2. UNCHANGED <<toIda, idaUp, next_pc_seq, reportedAt, pluginVars, toWd>>
      BY <1>9 DEF TargetStops, linkVars
    <2>3. QED
      BY <2>1, <2>2, QuietQueues
  <1>10. QED
    BY <1>1, <1>2, <1>3, <1>4, <1>5, <1>6, <1>7, <1>8, <1>9, NoMishap
       DEF WdNext, WdCommand, WdPump, PumpLost, Reload, NotifyInactive, NativeGo

(* The extension does not touch what the plugin keeps. *)
LEMMA TableUnchanged ==
  ASSUME TableInv, UNCHANGED pluginVars
  PROVE  TableInv'
  BY DEF TableInv, pluginVars, coreVars, vVars, ContextInv, Waiting, RowsTrue, RecordsTrue,
         FreshIsTrue, ShownHome

-----------------------------------------------------------------------------
(* Steps of the plugin: the queues *)

(* What is in the queue to the extension after the plugin has sent ms. *)
LEMMA SentToWd ==
  ASSUME TypeOK, NEW ms \in Seq(WdMsg), SendToWd(ms)
  PROVE  \A i \in DOMAIN toWd' :
           \/ \E j \in DOMAIN toWd : toWd'[i] = toWd[j]
           \/ idaUp /\ \E j \in DOMAIN ms : toWd'[i] = ms[j]
  <1>1. toWd \in Seq(WdMsg)
    BY DEF TypeOK, LinkTypeOK
  <1>2. CASE idaUp /\ wdUp
    <2>1. toWd' = toWd \o ms
      BY <1>2 DEF SendToWd
    <2> DEFINE t == toWd \o ms
    <2>2. \A i \in DOMAIN t : \/ i \in DOMAIN toWd /\ t[i] = toWd[i]
                              \/ \E j \in DOMAIN ms : t[i] = ms[j]
      BY <1>1, ConcatElements
    <2> HIDE DEF t
    <2>3. toWd' = t
      BY <2>1 DEF t
    <2>4. QED
      BY <1>2, <2>2, <2>3
  <1>3. CASE ~(idaUp /\ wdUp)
    BY <1>3 DEF SendToWd
  <1>4. QED
    BY <1>2, <1>3

(* After a message is taken the others are one place nearer. *)
LEMMA TakenMessage ==
  ASSUME TypeOK, toIda # <<>>, toIda' = Tail(toIda)
  PROVE  /\ Head(toIda) = toIda[1] /\ 1 \in DOMAIN toIda /\ Head(toIda) \in IdaMsg
         /\ \A i \in DOMAIN toIda' :
              i + 1 \in DOMAIN toIda /\ toIda'[i] = toIda[i + 1] /\ i \in Nat \ {0}
         /\ \A i \in DOMAIN toIda : i = 1 \/ (i - 1 \in DOMAIN toIda' /\ toIda'[i - 1] = toIda[i])
         /\ \A i \in DOMAIN toIda : i \in Nat \ {0}
  <1>1. toIda \in Seq(IdaMsg)
    BY DEF TypeOK, LinkTypeOK
  <1>2. /\ Head(toIda) = toIda[1] /\ Head(toIda) \in IdaMsg
        /\ DOMAIN toIda = 1 .. Len(toIda) /\ Len(toIda) \in Nat \ {0}
        /\ DOMAIN toIda' = 1 .. Len(toIda) - 1
        /\ \A i \in DOMAIN toIda' : toIda'[i] = toIda[i + 1]
    BY <1>1, TailElements
  <1>3. \A i \in DOMAIN toIda' : i + 1 \in DOMAIN toIda /\ i \in Nat \ {0}
    BY <1>2
  <1>4. \A i \in DOMAIN toIda : i = 1 \/ (i - 1 \in DOMAIN toIda' /\ toIda'[i - 1] = toIda[i])
    <2>1. ASSUME NEW i \in DOMAIN toIda, i # 1
          PROVE  i - 1 \in DOMAIN toIda' /\ (i - 1) + 1 = i
      BY <1>2, <2>1
    <2>2. QED
      BY <1>2, <2>1
  <1>5. QED
    BY <1>2, <1>3, <1>4

(* A pc_update begins a context newer than all requests and answers under   *)
(* way; the requests sent for it are the only ones of that context.         *)
LEMMA UpdateTakenQueues ==
  ASSUME TypeOK, QueueInv, Received("pc_update"),
         UNCHANGED <<next_pc_seq, reportedAt>>,
         current_pc'.seq = Head(toIda).seq, current_pc'.at = Head(toIda).at,
         \A i \in DOMAIN toWd' : IsRequest(toWd'[i]) =>
           \/ \E j \in DOMAIN toWd : toWd'[i] = toWd[j]
           \/ idaUp /\ toWd'[i].type = "reg_request" /\ toWd'[i].seq = Head(toIda).seq
  PROVE  QueueInv'
  <1> DEFINE m == Head(toIda)
  <1>1. /\ m = toIda[1] /\ 1 \in DOMAIN toIda
        /\ \A i \in DOMAIN toIda' :
             i + 1 \in DOMAIN toIda /\ toIda'[i] = toIda[i + 1] /\ i \in Nat \ {0}
        /\ \A i \in DOMAIN toIda : i = 1 \/ (i - 1 \in DOMAIN toIda' /\ toIda'[i - 1] = toIda[i])
        /\ \A i \in DOMAIN toIda : i \in Nat \ {0}
    BY TakenMessage DEF Received
  <1>2. IsUpdate(m) /\ UNCHANGED idaUp
    BY DEF Received, IsUpdate
  <1>3. toIda \in Seq(IdaMsg) /\ toWd \in Seq(WdMsg) /\ next_pc_seq \in Nat
        /\ current_pc.seq \in Nat
    BY DEF TypeOK, LinkTypeOK, WdTypeOK, PluginTypeOK, CoreTypeOK, PcContext
  <1>4. \A i \in DOMAIN toIda : toIda[i].seq \in Nat
    BY <1>3 DEF IdaMsg, PcUpdateMsg, RegResponseMsg, MemResponseMsg
  <1>5. \A i \in DOMAIN toWd : IsRequest(toWd[i]) => toWd[i].seq \in Nat
    BY <1>3 DEF IsRequest, WdMsg, RegRequestMsg, MemRequestMsg, LoggedMsg
  <1>6. m.seq \in Nat
    BY <1>1, <1>4
  <1> HIDE DEF m
  <1>7. /\ current_pc.seq < m.seq /\ m.seq < next_pc_seq
        /\ m.seq + 1 = next_pc_seq => m.at = reportedAt
        /\ \A i \in DOMAIN toIda : IsUpdate(toIda[i]) /\ i # 1 => m.seq < toIda[i].seq
    BY <1>1, <1>2 DEF QueueInv, UpdateInv
  <1>8. current_pc'.seq = m.seq /\ current_pc'.at = m.at
    BY DEF m
  <1>9. UpdateInv'
    <2>1. \A i \in DOMAIN toIda' : IsUpdate(toIda'[i]) =>
            /\ toIda'[i].auto
            /\ m.seq < toIda'[i].seq
            /\ toIda'[i].seq < next_pc_seq
            /\ toIda'[i].seq + 1 = next_pc_seq => toIda'[i].at = reportedAt
      BY <1>1, <1>7 DEF QueueInv, UpdateInv
    <2>2. \A i, j \in DOMAIN toIda' :
            IsUpdate(toIda'[i]) /\ IsUpdate(toIda'[j]) /\ i < j => toIda'[i].seq < toIda'[j].seq
      BY <1>1 DEF QueueInv, UpdateInv
    <2>3. ASSUME idaUp, NEW i \in DOMAIN toIda', IsUpdate(toIda'[i])
          PROVE  \E k \in DOMAIN toIda' : IsUpdate(toIda'[k]) /\ toIda'[k].seq + 1 = next_pc_seq
      <3>1. PICK k \in DOMAIN toIda : IsUpdate(toIda[k]) /\ toIda[k].seq + 1 = next_pc_seq
        BY <1>1, <1>2, <2>3 DEF QueueInv, UpdateInv
      <3>2. m.seq < toIda'[i].seq /\ toIda'[i].seq < next_pc_seq /\ toIda'[i].seq \in Nat
        BY <1>1, <1>4, <2>1, <2>3
      <3>3. k # 1
        BY <1>1, <1>3, <1>6, <3>1, <3>2
      <3>4. QED
        BY <1>1, <3>1, <3>3
    <2>4. QED
      BY <1>2, <1>7, <1>8, <2>1, <2>2, <2>3 DEF UpdateInv
  <1>10. RequestInv'
    <2> SUFFICES ASSUME NEW i \in DOMAIN toWd', IsRequest(toWd'[i])
                 PROVE  /\ toWd'[i].seq <= m.seq
                        /\ toWd'[i].type = "mem_request" =>
                             /\ SlotOK(toWd'[i])
                             /\ toWd'[i].seq + 1 = next_pc_seq => toWd'[i].addr.sp = reportedAt
      BY <1>8 DEF RequestInv, SlotOK
    <2>1. CASE \E j \in DOMAIN toWd : toWd'[i] = toWd[j]
      BY <1>3, <1>5, <1>6, <1>7, <2>1 DEF QueueInv, RequestInv
    <2>2. CASE toWd'[i].type = "reg_request" /\ toWd'[i].seq = m.seq
      BY <1>6, <2>2
    <2>3. QED
      BY <2>1, <2>2 DEF m
  <1>11. OvertakenInv'
    <2>1. \A i \in DOMAIN toIda' : ~IsUpdate(toIda'[i]) => toIda'[i].seq # m.seq
      BY <1>1, <1>3, <1>4, <1>6, <1>7 DEF QueueInv, AnswerInv
    <2>2. \A i \in DOMAIN toWd' : IsRequest(toWd'[i]) /\ toWd'[i].seq = m.seq => idaUp
      <3>1. \A j \in DOMAIN toWd : IsRequest(toWd[j]) => toWd[j].seq # m.seq
        BY <1>3, <1>5, <1>6, <1>7 DEF QueueInv, RequestInv
      <3>2. QED
        BY <3>1
    <2>3. idaUp => NewestKnown'
      <3>1. ASSUME idaUp, m.seq + 1 # next_pc_seq
            PROVE  \E j \in DOMAIN toIda' : IsUpdate(toIda'[j])
        <4>1. PICK k \in DOMAIN toIda : IsUpdate(toIda[k]) /\ toIda[k].seq + 1 = next_pc_seq
          BY <1>1, <1>2, <3>1 DEF QueueInv, UpdateInv
        <4>2. QED
          BY <1>1, <3>1, <4>1
      <3>2. QED
        BY <1>2, <1>8, <3>1 DEF NewestKnown
    <2>4. QED
      BY <1>8, <2>1, <2>2, <2>3 DEF OvertakenInv, Live
  <1>12. AnswerInv'
    <2>1. \A i \in DOMAIN toIda' : ~IsUpdate(toIda'[i]) =>
            /\ toIda'[i].seq < m.seq
            /\ toIda'[i].type = "mem_response" => SlotOK(toIda'[i])
      BY <1>1, <1>3, <1>4, <1>6, <1>7 DEF QueueInv, AnswerInv
    <2>2. \A i \in DOMAIN toIda' : toIda'[i].seq \in Nat
      BY <1>1, <1>4
    <2>3. QED
      BY <1>6, <1>8, <2>1, <2>2 DEF AnswerInv, Live, SlotOK
  <1>13. QED
    BY <1>9, <1>10, <1>11, <1>12 DEF QueueInv

\* A memory request as the plugin makes it in its current context.
MadeNow(r) ==
  /\ r.type = "mem_request" /\ r.seq = current_pc.seq
  /\ r.addr.sp = current_pc.at
  /\ SlotOK(r)

(* A response leaves the context alone; an accepted one may lead to memory   *)
(* requests in that context.                                                 *)
LEMMA ResponseTakenQueues ==
  ASSUME TypeOK, QueueInv, toIda # <<>>, ~IsUpdate(Head(toIda)), toIda' = Tail(toIda),
         UNCHANGED <<next_pc_seq, reportedAt, current_pc, idaUp>>,
         Waiting' => Waiting,
         \A i \in DOMAIN toWd' : IsRequest(toWd'[i]) =>
           \/ \E j \in DOMAIN toWd : toWd'[i] = toWd[j]
           \/ Live(Head(toIda)) /\ MadeNow(toWd'[i])
  PROVE  QueueInv'
  <1> DEFINE m == Head(toIda)
  <1>1. /\ m = toIda[1] /\ 1 \in DOMAIN toIda
        /\ \A i \in DOMAIN toIda' :
             i + 1 \in DOMAIN toIda /\ toIda'[i] = toIda[i + 1] /\ i \in Nat \ {0}
        /\ \A i \in DOMAIN toIda : i = 1 \/ (i - 1 \in DOMAIN toIda' /\ toIda'[i - 1] = toIda[i])
        /\ \A i \in DOMAIN toIda : i \in Nat \ {0}
    BY TakenMessage
  <1>2. current_pc.seq \in Nat
    BY DEF TypeOK, PluginTypeOK, CoreTypeOK, PcContext
  <1> HIDE DEF m
  <1>3. ~IsUpdate(m)
    BY DEF m
  <1>4. ASSUME NEW k \in DOMAIN toIda, IsUpdate(toIda[k])
        PROVE  k - 1 \in DOMAIN toIda' /\ toIda'[k - 1] = toIda[k]
    BY <1>1, <1>3, <1>4
  <1>5. NewestKnown => NewestKnown'
    BY <1>4 DEF NewestKnown
  <1>6. UpdateInv'
    <2>1. \A i \in DOMAIN toIda' : IsUpdate(toIda'[i]) =>
            /\ toIda'[i].auto
            /\ current_pc.seq < toIda'[i].seq
            /\ toIda'[i].seq < next_pc_seq
            /\ toIda'[i].seq + 1 = next_pc_seq => toIda'[i].at = reportedAt
      BY <1>1 DEF QueueInv, UpdateInv
    <2>2. \A i, j \in DOMAIN toIda' :
            IsUpdate(toIda'[i]) /\ IsUpdate(toIda'[j]) /\ i < j => toIda'[i].seq < toIda'[j].seq
      BY <1>1 DEF QueueInv, UpdateInv
    <2>3. ASSUME idaUp, NEW i \in DOMAIN toIda', IsUpdate(toIda'[i])
          PROVE  \E k \in DOMAIN toIda' : IsUpdate(toIda'[k]) /\ toIda'[k].seq + 1 = next_pc_seq
      <3>1. PICK k \in DOMAIN toIda : IsUpdate(toIda[k]) /\ toIda[k].seq + 1 = next_pc_seq
        BY <1>1, <2>3 DEF QueueInv, UpdateInv
      <3>2. QED
        BY <1>4, <3>1
    <2>4. /\ current_pc.seq < next_pc_seq
          /\ current_pc.seq + 1 = next_pc_seq => current_pc.at = reportedAt
      BY DEF QueueInv, UpdateInv
    <2>5. QED
      BY <2>1, <2>2, <2>3, <2>4 DEF UpdateInv
  <1>7. RequestInv'
    <2> SUFFICES ASSUME NEW i \in DOMAIN toWd', IsRequest(toWd'[i])
                 PROVE  /\ toWd'[i].seq <= current_pc.seq
                        /\ toWd'[i].type = "mem_request" =>
                             /\ SlotOK(toWd'[i])
                             /\ toWd'[i].seq + 1 = next_pc_seq => toWd'[i].addr.sp = reportedAt
      BY DEF RequestInv, SlotOK
    <2>1. CASE \E j \in DOMAIN toWd : toWd'[i] = toWd[j]
      BY <2>1 DEF QueueInv, RequestInv
    <2>2. CASE MadeNow(toWd'[i])
      BY <1>2, <2>2 DEF MadeNow, QueueInv, UpdateInv
    <2>3. QED
      BY <2>1, <2>2
  <1>8. OvertakenInv'
    <2>1. \A i \in DOMAIN toIda' : ~IsUpdate(toIda'[i]) /\ Live(toIda'[i]) => NewestKnown
      BY <1>1 DEF QueueInv, OvertakenInv
    <2>2. Live(m) => NewestKnown
      BY <1>1, <1>3 DEF QueueInv, OvertakenInv
    <2>3. \A i \in DOMAIN toWd' : IsRequest(toWd'[i]) /\ Live(toWd'[i]) => NewestKnown
      BY <2>2 DEF QueueInv, OvertakenInv, m
    <2>4. \A x : Waiting' /\ x.seq = current_pc'.seq => Live(x)
      BY DEF Live
    <2>5. QED
      BY <1>5, <2>1, <2>3, <2>4 DEF OvertakenInv, Live
  <1>9. AnswerInv'
    <2> SUFFICES ASSUME NEW i \in DOMAIN toIda', ~IsUpdate(toIda'[i])
                 PROVE  /\ toIda'[i].seq <= current_pc.seq
                        /\ toIda'[i].type = "mem_response" => SlotOK(toIda'[i])
                        /\ Live(toIda'[i]) =>
                             \/ \E j \in DOMAIN toIda' : j < i /\ IsUpdate(toIda'[j])
                             \/ /\ toIda'[i].at = current_pc.at
                                /\ toIda'[i].type = "mem_response" =>
                                     toIda'[i].addr.sp = current_pc.at
      BY DEF AnswerInv, Live, SlotOK, IsUpdate
    <2>1. i + 1 \in DOMAIN toIda /\ toIda'[i] = toIda[i + 1] /\ i \in Nat
      BY <1>1
    <2>2. ASSUME NEW j \in DOMAIN toIda, j < i + 1, IsUpdate(toIda[j])
          PROVE  \E k \in DOMAIN toIda' : k < i /\ IsUpdate(toIda'[k])
      <3>1. j \in Nat /\ j - 1 < i
        BY <1>1, <2>1, <2>2
      <3>2. QED
        BY <1>4, <2>2, <3>1
    <2>3. QED
      BY <2>1, <2>2 DEF QueueInv, AnswerInv
  <1>10. QED
    BY <1>6, <1>7, <1>8, <1>9 DEF QueueInv

(* The plugin's commands: nothing is awaited after disconnect, and connect   *)
(* finds an empty queue.                                                     *)
LEMMA CommandQueues ==
  ASSUME TypeOK, QueueInv, connect \/ disconnect, UNCHANGED <<next_pc_seq, reportedAt>>
  PROVE  QueueInv'
  <1>1. CASE connect
    <2>1. /\ toIda = <<>> /\ idaUp'
          /\ UNCHANGED <<toIda, toWd, current_pc, pending_requests, v_pending>>
      BY <1>1 DEF connect, pluginVars, coreVars, vVars
    <2>2. DOMAIN toIda = {}
      BY <2>1
    <2>3. UpdateInv'
      BY <2>1, <2>2 DEF QueueInv, UpdateInv
    <2>4. RequestInv' /\ AnswerInv'
      BY <2>1, <2>2 DEF QueueInv, RequestInv, AnswerInv, SlotOK
    <2>5. OvertakenInv'
      BY <2>1, <2>2 DEF QueueInv, OvertakenInv, Live, Waiting, NewestKnown
    <2>6. QED
      BY <2>3, <2>4, <2>5 DEF QueueInv
  <1>2. CASE disconnect
    <2>1. /\ ~idaUp' /\ pending_requests' = {} /\ v_pending' = {}
          /\ UNCHANGED <<toWd, current_pc>>
      BY <1>2 DEF disconnect, DropIda, core_disconnect, clear_runtime_state
    <2>2. ~Waiting'
      BY <2>1 DEF Waiting
    <2>3. PICK k \in 0 .. Len(toIda) : toIda' = SubSeq(toIda, 1, k)
      BY <1>2 DEF disconnect, DropIda
    <2>4. toIda \in Seq(IdaMsg)
      BY DEF TypeOK, LinkTypeOK
    <2>5. \A i \in DOMAIN toIda' : i \in DOMAIN toIda /\ toIda'[i] = toIda[i]
      BY <2>3, <2>4, PrefixElements
    <2>6. UpdateInv'
      BY <2>1, <2>5 DEF QueueInv, UpdateInv
    <2>7. RequestInv' /\ AnswerInv'
      BY <2>1, <2>2, <2>5 DEF QueueInv, RequestInv, AnswerInv, SlotOK, Live
    <2>8. OvertakenInv'
      BY <2>2 DEF OvertakenInv, Live
    <2>9. QED
      BY <2>6, <2>7, <2>8 DEF QueueInv
  <1>3. QED
    BY <1>1, <1>2

-----------------------------------------------------------------------------
(* Steps of the plugin: rows, records and the table *)

(* A published table is true when the rows and the records are, and both are *)
(* of the current PC.                                                        *)
LEMMA PublishTrue ==
  ASSUME CoreTypeOK', VTypeOK', PublishRows, RowsTrue', RecordsTrue',
         planned'.at = current_pc'.at,
         DOMAIN records' # {} => v_context' = current_pc'
  PROVE  FreshIsTrue'
  <1> DEFINE rs == Overlay(rows', records')
  <1>1. view' = [rows |-> rs, seq |-> current_pc'.seq, loc |-> current_pc'.loc,
                 at |-> current_pc'.at]
    BY DEF PublishRows, Show
  <1>2. view'.rows = rs /\ view'.loc = current_pc'.loc /\ view'.at = current_pc'.at
    BY <1>1
  <1>3. DOMAIN rs = DOMAIN rows'
    BY DEF Overlay
  <1>4. ASSUME NEW v \in DOMAIN rows', rs[v].status = "fresh"
        PROVE  rs[v].value = TrueValue(IF IsArg(v) THEN ArgHome[v]
                                       ELSE Evidence[current_pc'.loc][v], v, current_pc'.at)
    <2>1. CASE ~IsArg(v) /\ v \in DOMAIN records'
      <3>1. rs[v] = [status |-> records'[v].status, value |-> records'[v].value]
        BY <2>1 DEF Overlay
      <3>2. v_context' = current_pc'
        BY <2>1
      <3>3. QED
        BY <1>4, <2>1, <3>1, <3>2 DEF RecordsTrue
    <2>2. CASE ~(~IsArg(v) /\ v \in DOMAIN records')
      <3>1. rs[v] = rows'[v]
        BY <2>2 DEF Overlay
      <3>2. QED
        BY <1>4, <3>1 DEF RowsTrue
    <2>3. QED
      BY <2>1, <2>2
  <1> HIDE DEF rs
  <1>5. QED
    BY <1>2, <1>3, <1>4 DEF FreshIsTrue, ShownHome

(* A pc_update: rows and records start anew, without a fresh value but       *)
(* constants.                                                                *)
LEMMA UpdateTakenTable ==
  ASSUME TypeOK, TypeOK', TableInv, MappingFailed \/ EnumerationFailed \/ PcUpdateHandled
  PROVE  TableInv'
  <1> DEFINE m == Head(toIda)
             f == FuncOf[m.loc]
             c == [seq |-> m.seq, loc |-> m.loc, at |-> m.at]
  <1>1. CASE MappingFailed \/ EnumerationFailed
    <2>1. /\ pending_requests' = {} /\ v_pending' = {} /\ records' = NoRecords
          /\ UNCHANGED <<rows, planned>>
      BY <1>1 DEF MappingFailed, EnumerationFailed, start_pc_context, invalidate_pc
    <2>2. DOMAIN records' = {}
      BY <2>1 DEF NoRecords
    <2>3. ContextInv' /\ RecordsTrue' /\ RowsTrue'
      BY <2>1, <2>2 DEF ContextInv, Waiting, RecordsTrue, RowsTrue, TableInv
    <2>4. FreshIsTrue'
      <3>1. CASE MappingFailed
        BY <3>1 DEF MappingFailed, TableInv, FreshIsTrue, ShownHome
      <3>2. CASE EnumerationFailed
        <4>1. view'.rows = [v \in {} |-> NoValue]
          BY <3>2 DEF EnumerationFailed, Show
        <4>2. QED
          BY <4>1 DEF FreshIsTrue
      <3>3. QED
        BY <1>1, <3>1, <3>2
    <2>5. QED
      BY <2>3, <2>4 DEF TableInv
  <1>2. CASE PcUpdateHandled
    <2>1. build_entry_plan(m.seq, m.loc, m.at) /\ PublishRows
      BY <1>2 DEF PcUpdateHandled
    <2>2. /\ current_pc' = c /\ planned' = [func |-> f, at |-> m.at]
          /\ rows' = [v \in LvarsOf[f] |-> PlannedRow(f, m.loc, v)]
      BY <2>1 DEF build_entry_plan
    <2>3. RowsTrue'
      <3>1. \A v : PlannedRow(f, m.loc, v).status # "fresh"
        BY DEF PlannedRow
      <3>2. QED
        BY <2>2, <3>1 DEF RowsTrue
    <2>4. /\ v_context' = c
          /\ \A p \in v_pending' : p.rid[1] # "v-mem"
          /\ RecordsTrue'
      <3>1. CASE \E selected \in SUBSET Locals(f) : begin_pc(m.seq, m.loc, m.at, selected)
        <4>1. PICK selected \in SUBSET Locals(f) : begin_pc(m.seq, m.loc, m.at, selected)
          BY <3>1
        <4>2. /\ v_context' = c
              /\ records' = [v \in Locals(f) |-> NewRecord(m.loc, v, selected)]
              /\ v_pending' \in {{}, {[rid |-> VRegRid(m.seq), addr |-> NoAddr]}}
          BY <4>1 DEF begin_pc, StartContext
        <4>3. \A p \in v_pending' : p.rid[1] # "v-mem"
          BY <4>2 DEF VRegRid
        <4>4. ASSUME NEW v \in Locals(f)
              PROVE  LET r == NewRecord(m.loc, v, selected) IN
                     /\ ~IsArg(v)
                     /\ r.home \in {"none", Evidence[m.loc][v]}
                     /\ r.status = "fresh" => r.value = TrueValue(Evidence[m.loc][v], v, m.at)
          <5>1. ~IsArg(v) /\ HomeAt(m.loc, v, selected) \in {"none", Evidence[m.loc][v]}
            BY <4>4 DEF Locals, HomeAt
          <5>2. CASE HomeAt(m.loc, v, selected) = "constant"
            BY <5>1, <5>2 DEF NewRecord, FreshRecord, TrueValue
          <5>3. CASE HomeAt(m.loc, v, selected) # "constant"
            BY <5>1, <5>3 DEF NewRecord, StaleOrNone
          <5>4. QED
            BY <5>2, <5>3
        <4>5. RecordsTrue'
          BY <4>2, <4>4 DEF RecordsTrue
        <4>6. QED
          BY <4>2, <4>3, <4>5
      <3>2. CASE begin_pc_unanalysed(m.seq, m.loc, m.at)
        <4>1. /\ v_context' = c /\ v_pending' = {}
              /\ records' = [v \in Locals(f) |-> NotAnalysed(v)]
          BY <3>2 DEF begin_pc_unanalysed, StartContext
        <4>2. RecordsTrue'
          BY <4>1 DEF RecordsTrue, NotAnalysed, Locals
        <4>3. QED
          BY <4>1, <4>2
      <3>3. CASE invalidate_pc(m.seq, m.loc, m.at)
        <4>1. v_context' = c /\ v_pending' = {} /\ records' = NoRecords
          BY <3>3 DEF invalidate_pc, StartContext
        <4>2. DOMAIN records' = {}
          BY <4>1 DEF NoRecords
        <4>3. QED
          BY <4>1, <4>2 DEF RecordsTrue
      <3>4. QED
        BY <1>2, <3>1, <3>2, <3>3 DEF PcUpdateHandled
    <2>5. ContextInv'
      BY <2>2, <2>4 DEF ContextInv
    <2>6. FreshIsTrue'
      BY <2>1, <2>2, <2>3, <2>4, PublishTrue DEF TypeOK, PluginTypeOK
    <2>7. QED
      BY <2>3, <2>4, <2>5, <2>6 DEF TableInv
  <1>3. QED
    BY <1>1, <1>2

(* An answer at the head of the queue that could be accepted was read at the *)
(* instant of the current PC: nothing is ahead of it.                        *)
LEMMA HeadIsTimely ==
  ASSUME TypeOK, QueueInv, toIda # <<>>, ~IsUpdate(Head(toIda)), Live(Head(toIda))
  PROVE  /\ Head(toIda).at = current_pc.at
         /\ Head(toIda).type = "mem_response" =>
              SlotOK(Head(toIda)) /\ Head(toIda).addr.sp = current_pc.at
  <1>1. toIda \in Seq(IdaMsg)
    BY DEF TypeOK, LinkTypeOK
  <1>2. /\ Head(toIda) = toIda[1] /\ 1 \in DOMAIN toIda
        /\ \A j \in DOMAIN toIda : ~(j < 1)
    BY <1>1, TailElements
  <1>3. QED
    BY <1>2 DEF QueueInv, AnswerInv

(* An accepted response is live, and for the current PC if it names one. *)
LEMMA AcceptedIsLive ==
  ASSUME NEW m, ContextInv
  PROVE  /\ RegAccepted(m) \/ MemAccepted(m) => Live(m)
         /\ VRegAccepted(m) \/ VMemAccepted(m) => Live(m) /\ v_context = current_pc
         /\ RegAccepted(m) \/ MemAccepted(m) => m.loc \in {NoRuntimePc, current_pc.loc}
  BY DEF RegAccepted, MemAccepted, VRegAccepted, VMemAccepted, Awaited, VAwaited, Live,
         Waiting, ContextInv

(* A register response for the arguments. *)
LEMMA RegTakenForArgs ==
  ASSUME TypeOK, TypeOK', QueueInv, TableInv, UNCHANGED <<next_pc_seq, reportedAt>>,
         RegResponseForArgs
  PROVE  QueueInv' /\ TableInv'
  <1> DEFINE m == Head(toIda)
  <1>1. /\ toIda # <<>> /\ m.type = "reg_response" /\ toIda' = Tail(toIda)
        /\ apply_reg_response(m) /\ PublishRows /\ SendToWd(MemRequests(m))
        /\ UNCHANGED <<idaUp, vVars, current_pc, planned>>
    BY DEF RegResponseForArgs, Received, apply_reg_response
  <1>2. Live(m) /\ m.loc = current_pc.loc
    <2>1. m \in RegResponseMsg
      BY ReceivedTypes DEF TypeOK, RegResponseForArgs
    <2>2. Live(m) /\ m.loc \in {NoRuntimePc, current_pc.loc}
      BY <1>1, AcceptedIsLive DEF apply_reg_response, TableInv
    <2>3. QED
      BY <2>1, <2>2, LocsAssumption DEF RegResponseMsg
  <1>3. ~IsUpdate(m)
    BY <1>1 DEF IsUpdate
  <1>4. m.at = current_pc.at
    BY <1>1, <1>2, <1>3, HeadIsTimely
  <1>5. m \in RegResponseMsg
    BY ReceivedTypes DEF TypeOK, RegResponseForArgs
  <1>6. /\ planned = [func |-> FuncOf[current_pc.loc], at |-> current_pc.at]
        /\ DOMAIN rows = LvarsOf[planned.func]
    BY <1>2 DEF TableInv, ContextInv, Live
  <1>7. CoreTypeOK
    BY DEF TypeOK, PluginTypeOK
  <1> HIDE DEF m
  <1>8. QueueInv'
    <2> DEFINE args == SetToSeq(StackArgs(planned.func))
    <2>1. StackArgs(planned.func) \in SUBSET Lvars
      BY <1>7, LvarsAssumption DEF StackArgs, CoreTypeOK
    <2>2. \A i \in DOMAIN args : args[i] \in StackArgs(planned.func)
      BY <2>1, ListOfSet
    <2>3. \A i \in DOMAIN StackRequests(m) : MadeNow(StackRequests(m)[i])
      <3> SUFFICES ASSUME NEW i \in DOMAIN args
                   PROVE  MadeNow([type |-> "mem_request", seq |-> current_pc.seq,
                                   rid |-> StackRid(args[i]), loc |-> current_pc.loc,
                                   addr |-> StackAddr(m, args[i])])
        BY DEF StackRequests
      <3>1. args[i] \in StackArgs(FuncOf[current_pc.loc])
        BY <1>6, <2>2
      <3> HIDE DEF args
      <3>2. QED
        BY <1>4, <3>1 DEF MadeNow, SlotOK, StackRid, StackAddr
    <2>4. MemRequests(m) \in Seq(WdMsg)
      BY <1>5, <1>7, StackTypes
    <2>5. \A i \in DOMAIN MemRequests(m) : MadeNow(MemRequests(m)[i])
      BY <2>3 DEF MemRequests
    <2>6. \A i \in DOMAIN toWd' :
            \/ \E j \in DOMAIN toWd : toWd'[i] = toWd[j]
            \/ MadeNow(toWd'[i])
      BY <1>1, <2>4, <2>5, SentToWd
    <2>7. QED
      BY <1>1, <1>2, <1>3, <2>6, ResponseTakenQueues DEF Live, m
  <1>9. RowsTrue'
    <2> SUFFICES ASSUME NEW v \in DOMAIN rows, RegRow(m, v).status = "fresh"
                 PROVE  IsArg(v) /\ RegRow(m, v).value = TrueValue(ArgHome[v], v, planned.at)
      BY <1>1 DEF RowsTrue, apply_reg_response
    <2>1. rows[v].status = "fresh" =>
            IsArg(v) /\ rows[v].value = TrueValue(ArgHome[v], v, planned.at)
      BY DEF TableInv, RowsTrue
    <2>2. Failed(rows[v]).status # "fresh"
      BY <1>7 DEF Failed, CoreTypeOK, Row
    <2>3. CASE ArgHome[v] \in Regs
               /\ RegRow(m, v) = [status |-> "fresh", value |-> RegValue(ArgHome[v], m.at)]
      <3>1. ArgHome[v] \notin {"constant", "stack", "local"}
        BY <2>3, LocsAssumption
      <3>2. QED
        BY <1>4, <1>6, <2>3, <3>1 DEF IsArg, TrueValue
    <2>4. QED
      BY <2>1, <2>2, <2>3 DEF RegRow
  <1>10. RecordsTrue' /\ UNCHANGED <<v_context, v_pending, records>>
    BY <1>1 DEF TableInv, RecordsTrue, vVars
  <1>11. ContextInv'
    <2>1. Waiting
      BY <1>2 DEF Live
    <2>2. DOMAIN rows' = DOMAIN rows
      BY <1>1 DEF apply_reg_response
    <2>3. QED
      BY <1>1, <1>6, <1>10, <2>2 DEF TableInv, ContextInv
  <1>12. FreshIsTrue'
    <2>1. CoreTypeOK' /\ VTypeOK'
      BY DEF TypeOK, PluginTypeOK
    <2>2. planned'.at = current_pc'.at
      BY <1>1, <1>6
    <2>3. DOMAIN records' # {} => v_context' = current_pc'
      BY <1>11 DEF ContextInv
    <2>4. QED
      BY <1>1, <1>9, <1>10, <2>1, <2>2, <2>3, PublishTrue
  <1>13. QED
    BY <1>8, <1>9, <1>10, <1>11, <1>12 DEF TableInv

(* A register response for the locals. *)
LEMMA RegTakenForLocals ==
  ASSUME TypeOK, TypeOK', QueueInv, TableInv, UNCHANGED <<next_pc_seq, reportedAt>>,
         RegResponseForLocals
  PROVE  QueueInv' /\ TableInv'
  <1> DEFINE m == Head(toIda)
  <1>1. /\ toIda # <<>> /\ m.type = "reg_response" /\ toIda' = Tail(toIda)
        /\ v_apply_reg_response(m) /\ PublishRows /\ SendToWd(VMemRequests(m))
        /\ UNCHANGED <<idaUp, current_pc, pending_requests, rows, planned, v_context>>
    BY DEF RegResponseForLocals, Received, v_apply_reg_response, coreVars
  <1>2. Live(m) /\ v_context = current_pc
    BY <1>1, AcceptedIsLive DEF v_apply_reg_response, TableInv
  <1>3. ~IsUpdate(m)
    BY <1>1 DEF IsUpdate
  <1>4. m.at = current_pc.at
    BY <1>1, <1>2, <1>3, HeadIsTimely
  <1>5. m \in RegResponseMsg
    BY ReceivedTypes DEF TypeOK, RegResponseForLocals
  <1>6. VTypeOK
    BY DEF TypeOK, PluginTypeOK
  <1>7. planned.at = current_pc.at /\ Waiting
    BY <1>2 DEF TableInv, ContextInv, Live
  <1> HIDE DEF m
  <1>8. QueueInv'
    <2> DEFINE asked == SetToSeq(OnStack(m))
    <2>1. OnStack(m) \in SUBSET Lvars
      BY <1>6 DEF OnStack, Asked, VTypeOK
    <2>2. \A i \in DOMAIN asked : asked[i] \in Lvars
      BY <2>1, ListOfSet
    <2>3. \A i \in DOMAIN VMemRequests(m) : MadeNow(VMemRequests(m)[i])
      <3> SUFFICES ASSUME NEW i \in DOMAIN asked
                   PROVE  MadeNow([type |-> "mem_request", seq |-> v_context.seq,
                                   rid |-> VMemRid(asked[i]), loc |-> v_context.loc,
                                   addr |-> VStackAddr(m, asked[i])])
        BY DEF VMemRequests
      <3> HIDE DEF asked
      <3>1. QED
        BY <1>2, <1>4 DEF MadeNow, SlotOK, VMemRid, VStackAddr
    <2>4. VMemRequests(m) \in Seq(WdMsg)
      BY <1>5, <1>6, VStackTypes
    <2>5. \A i \in DOMAIN toWd' :
            \/ \E j \in DOMAIN toWd : toWd'[i] = toWd[j]
            \/ MadeNow(toWd'[i])
      BY <1>1, <2>3, <2>4, SentToWd
    <2>6. QED
      BY <1>1, <1>2, <1>3, <1>7, <2>5, ResponseTakenQueues DEF m
  <1>9. RowsTrue'
    BY <1>1 DEF TableInv, RowsTrue
  <1>10. \A v \in DOMAIN records : VRegRecord(m, v).home = records[v].home
    BY <1>6 DEF VRegRecord, FreshRecord, ErrorRecord, VTypeOK, Record
  <1>11. /\ records' = [v \in DOMAIN records |-> VRegRecord(m, v)]
         /\ v_pending' \subseteq v_pending
              \cup {[rid |-> VMemRid(v), addr |-> VStackAddr(m, v)] : v \in OnStack(m)}
    BY <1>1 DEF v_apply_reg_response
  <1>12. RecordsTrue'
    <2> SUFFICES ASSUME NEW v \in DOMAIN records
                 PROVE  /\ ~IsArg(v)
                        /\ VRegRecord(m, v).home \in {"none", Evidence[v_context.loc][v]}
                        /\ VRegRecord(m, v).status = "fresh" =>
                             VRegRecord(m, v).value =
                               TrueValue(Evidence[v_context.loc][v], v, v_context.at)
      BY <1>1, <1>11 DEF RecordsTrue
    <2>1. /\ ~IsArg(v) /\ records[v].home \in {"none", Evidence[v_context.loc][v]}
          /\ records[v].status = "fresh" =>
               records[v].value = TrueValue(Evidence[v_context.loc][v], v, v_context.at)
      BY DEF TableInv, RecordsTrue
    <2>2. ErrorRecord(records[v]).status # "fresh"
      BY <1>6 DEF ErrorRecord, VTypeOK, Record
    <2>3. CASE v \in InRegister(m)
               /\ VRegRecord(m, v) = FreshRecord(RegValue(records[v].home, m.at), records[v].home)
      <3>1. records[v].home \in Regs /\ records[v].home \notin {"none", "constant", "stack"}
        BY <1>5, <2>3, LocsAssumption DEF InRegister, RegResponseMsg
      <3>2. Evidence[v_context.loc][v] = records[v].home
        BY <2>1, <3>1
      <3>3. VRegRecord(m, v).value = TrueValue(Evidence[v_context.loc][v], v, v_context.at)
        BY <1>2, <1>4, <2>3, <3>1, <3>2 DEF TrueValue, FreshRecord
      <3>4. QED
        BY <1>10, <2>1, <3>3
    <2>4. CASE VRegRecord(m, v) \in {records[v], ErrorRecord(records[v])}
      BY <1>10, <2>1, <2>2, <2>4
    <2>5. QED
      BY <2>3, <2>4 DEF VRegRecord
  <1>13. ContextInv'
    <2>1. \A p \in v_pending' : p.rid[1] = "v-mem" =>
            p.rid[3] \in DOMAIN records /\ records[p.rid[3]].home = "stack"
      <3>1. \A v \in OnStack(m) : v \in DOMAIN records /\ records[v].home = "stack"
        BY DEF OnStack, Asked
      <3>2. \A p \in v_pending : p.rid[1] = "v-mem" =>
              p.rid[3] \in DOMAIN records /\ records[p.rid[3]].home = "stack"
        BY DEF TableInv, ContextInv
      <3>3. QED
        BY <1>11, <3>1, <3>2 DEF VMemRid
    <2>2. \A p \in v_pending' : p.rid[1] = "v-mem" =>
            p.rid[3] \in DOMAIN records' /\ records'[p.rid[3]].home = "stack"
      BY <1>10, <1>11, <2>1
    <2>3. QED
      BY <1>1, <1>2, <1>7, <2>2 DEF TableInv, ContextInv
  <1>14. FreshIsTrue'
    <2>1. CoreTypeOK' /\ VTypeOK'
      BY DEF TypeOK, PluginTypeOK
    <2>2. planned'.at = current_pc'.at /\ v_context' = current_pc'
      BY <1>1, <1>2, <1>7
    <2>3. QED
      BY <1>1, <1>9, <1>12, <2>1, <2>2, PublishTrue
  <1>15. QED
    BY <1>8, <1>9, <1>12, <1>13, <1>14 DEF TableInv

(* A memory response for an argument: the rows it fills are those named by   *)
(* its id, which with unique names is the one whose slot was read.           *)
LEMMA MemTakenForArgs ==
  ASSUME NamesUnique, TypeOK, TypeOK', QueueInv, TableInv, UNCHANGED <<next_pc_seq, reportedAt>>,
         MemResponseForArgs
  PROVE  QueueInv' /\ TableInv'
  <1> DEFINE m == Head(toIda)
  <1>1. /\ toIda # <<>> /\ m.type = "mem_response" /\ toIda' = Tail(toIda)
        /\ apply_mem_response(m) /\ PublishRows
        /\ UNCHANGED <<idaUp, toWd, vVars, current_pc, planned>>
    BY DEF MemResponseForArgs, Received, apply_mem_response
  <1>2. Live(m) /\ m.loc = current_pc.loc
    <2>1. m \in MemResponseMsg
      BY ReceivedTypes DEF TypeOK, MemResponseForArgs
    <2>2. Live(m) /\ m.loc \in {NoRuntimePc, current_pc.loc}
      BY <1>1, AcceptedIsLive DEF apply_mem_response, TableInv
    <2>3. QED
      BY <2>1, <2>2, LocsAssumption DEF MemResponseMsg
  <1>3. ~IsUpdate(m)
    BY <1>1 DEF IsUpdate
  <1>4. m.at = current_pc.at /\ SlotOK(m) /\ m.addr.sp = current_pc.at
    BY <1>1, <1>2, <1>3, HeadIsTimely
  <1>5. m.rid[1] = "mem"
    BY <1>1 DEF apply_mem_response, MemAccepted, Awaited
  <1>6. /\ planned = [func |-> FuncOf[current_pc.loc], at |-> current_pc.at]
        /\ DOMAIN rows = LvarsOf[planned.func] /\ Waiting
    BY <1>2 DEF TableInv, ContextInv, Live
  <1>7. CoreTypeOK
    BY DEF TypeOK, PluginTypeOK
  <1> HIDE DEF m
  <1>8. QueueInv'
    BY <1>1, <1>3, <1>6, ResponseTakenQueues DEF m
  <1>9. RowsTrue'
    <2> SUFFICES ASSUME NEW v \in DOMAIN rows, MemRow(m, v).status = "fresh"
                 PROVE  IsArg(v) /\ MemRow(m, v).value = TrueValue(ArgHome[v], v, planned.at)
      BY <1>1 DEF RowsTrue, apply_mem_response
    <2>1. rows[v].status = "fresh" =>
            IsArg(v) /\ rows[v].value = TrueValue(ArgHome[v], v, planned.at)
      BY DEF TableInv, RowsTrue
    <2>2. Failed(rows[v]).status # "fresh"
      BY <1>7 DEF Failed, CoreTypeOK, Row
    <2>3. CASE Name[v] = m.rid[3]
               /\ MemRow(m, v) = [status |-> "fresh", value |-> MemValue(m.addr, m.at)]
      <3>1. /\ m.addr.slot \in LvarsOf[planned.func] /\ ArgHome[m.addr.slot] = "stack"
            /\ Name[m.addr.slot] = m.rid[3]
        BY <1>2, <1>4, <1>5, <1>6 DEF SlotOK, StackArgs
      <3>2. m.addr.slot = v
        BY <1>6, <1>7, <2>3, <3>1 DEF NamesUnique, CoreTypeOK
      <3>3. QED
        BY <1>4, <1>6, <2>3, <3>1, <3>2 DEF IsArg, TrueValue, MemValue
    <2>4. QED
      BY <2>1, <2>2, <2>3 DEF MemRow
  <1>10. RecordsTrue' /\ UNCHANGED <<v_context, v_pending, records>>
    BY <1>1 DEF TableInv, RecordsTrue, vVars
  <1>11. ContextInv'
    <2>1. DOMAIN rows' = DOMAIN rows
      BY <1>1 DEF apply_mem_response
    <2>2. QED
      BY <1>1, <1>6, <1>10, <2>1 DEF TableInv, ContextInv
  <1>12. FreshIsTrue'
    <2>1. CoreTypeOK' /\ VTypeOK'
      BY DEF TypeOK, PluginTypeOK
    <2>2. planned'.at = current_pc'.at
      BY <1>1, <1>6
    <2>3. DOMAIN records' # {} => v_context' = current_pc'
      BY <1>11 DEF ContextInv
    <2>4. QED
      BY <1>1, <1>9, <1>10, <2>1, <2>2, <2>3, PublishTrue
  <1>13. QED
    BY <1>8, <1>9, <1>10, <1>11, <1>12 DEF TableInv

(* A memory response for a local. *)
LEMMA MemTakenForLocals ==
  ASSUME TypeOK, TypeOK', QueueInv, TableInv, UNCHANGED <<next_pc_seq, reportedAt>>,
         MemResponseForLocals
  PROVE  QueueInv' /\ TableInv'
  <1> DEFINE m == Head(toIda)
  <1>1. /\ toIda # <<>> /\ m.type = "mem_response" /\ toIda' = Tail(toIda)
        /\ v_apply_mem_response(m) /\ PublishRows
        /\ UNCHANGED <<idaUp, toWd, current_pc, pending_requests, rows, planned, v_context>>
    BY DEF MemResponseForLocals, Received, v_apply_mem_response, coreVars
  <1>2. Live(m) /\ v_context = current_pc
    BY <1>1, AcceptedIsLive DEF v_apply_mem_response, TableInv
  <1>3. ~IsUpdate(m)
    BY <1>1 DEF IsUpdate
  <1>4. m.at = current_pc.at /\ SlotOK(m) /\ m.addr.sp = current_pc.at
    BY <1>1, <1>2, <1>3, HeadIsTimely
  <1>5. PICK p \in v_pending : p.rid = m.rid /\ p.rid[1] = "v-mem"
    BY <1>1 DEF v_apply_mem_response, VMemAccepted, VAwaited
  <1>6. m.rid[3] \in DOMAIN records /\ records[m.rid[3]].home = "stack"
    BY <1>5 DEF TableInv, ContextInv
  <1>7. planned.at = current_pc.at /\ Waiting
    BY <1>2 DEF TableInv, ContextInv, Live
  <1>8. VTypeOK
    BY DEF TypeOK, PluginTypeOK
  <1> HIDE DEF m
  <1>9. QueueInv'
    BY <1>1, <1>3, <1>7, ResponseTakenQueues DEF m
  <1>10. RowsTrue'
    BY <1>1 DEF TableInv, RowsTrue
  <1>11. /\ records' = [v \in DOMAIN records |-> VMemRecord(m, v)]
         /\ v_pending' \subseteq v_pending
    BY <1>1 DEF v_apply_mem_response
  <1>12. \A v \in DOMAIN records : VMemRecord(m, v).home = records[v].home
    BY <1>8 DEF VMemRecord, FreshRecord, ErrorRecord, VTypeOK, Record
  <1>13. RecordsTrue'
    <2> SUFFICES ASSUME NEW v \in DOMAIN records
                 PROVE  /\ ~IsArg(v)
                        /\ VMemRecord(m, v).home \in {"none", Evidence[v_context.loc][v]}
                        /\ VMemRecord(m, v).status = "fresh" =>
                             VMemRecord(m, v).value =
                               TrueValue(Evidence[v_context.loc][v], v, v_context.at)
      BY <1>1, <1>11 DEF RecordsTrue
    <2>1. /\ ~IsArg(v) /\ records[v].home \in {"none", Evidence[v_context.loc][v]}
          /\ records[v].status = "fresh" =>
               records[v].value = TrueValue(Evidence[v_context.loc][v], v, v_context.at)
      BY DEF TableInv, RecordsTrue
    <2>2. ErrorRecord(records[v]).status # "fresh"
      BY <1>8 DEF ErrorRecord, VTypeOK, Record
    <2>3. CASE v \in ReadFor(m)
               /\ VMemRecord(m, v) = FreshRecord(MemValue(m.addr, m.at), records[v].home)
      <3>1. m.rid[3] = v
        BY <2>3 DEF ReadFor, VMemRid
      <3>2. Evidence[v_context.loc][v] = "stack"
        BY <1>6, <2>1, <3>1
      <3>3. m.addr.slot = v
        BY <1>4, <1>5, <3>1 DEF SlotOK
      <3>4. VMemRecord(m, v).value = TrueValue("stack", v, v_context.at)
        BY <1>2, <1>4, <2>3, <3>3 DEF TrueValue, FreshRecord, MemValue
      <3>5. QED
        BY <1>12, <2>1, <3>2, <3>4
    <2>4. CASE VMemRecord(m, v) \in {records[v], ErrorRecord(records[v])}
      BY <1>12, <2>1, <2>2, <2>4
    <2>5. QED
      BY <2>3, <2>4 DEF VMemRecord
  <1>14. ContextInv'
    <2>1. \A q \in v_pending' : q.rid[1] = "v-mem" =>
            q.rid[3] \in DOMAIN records' /\ records'[q.rid[3]].home = "stack"
      BY <1>11, <1>12 DEF TableInv, ContextInv
    <2>2. QED
      BY <1>1, <1>2, <1>7, <2>1 DEF TableInv, ContextInv
  <1>15. FreshIsTrue'
    <2>1. CoreTypeOK' /\ VTypeOK'
      BY DEF TypeOK, PluginTypeOK
    <2>2. planned'.at = current_pc'.at /\ v_context' = current_pc'
      BY <1>1, <1>2, <1>7
    <2>3. QED
      BY <1>1, <1>10, <1>13, <2>1, <2>2, PublishTrue
  <1>16. QED
    BY <1>9, <1>10, <1>13, <1>14, <1>15 DEF TableInv

(* The queue after a pc_update: the requests sent for the new context. *)
LEMMA UpdateHandledQueues ==
  ASSUME TypeOK, QueueInv, UNCHANGED <<next_pc_seq, reportedAt>>,
         MappingFailed \/ EnumerationFailed \/ PcUpdateHandled
  PROVE  QueueInv'
  <1> DEFINE m == Head(toIda)
             Asks(r) == IsRequest(r) => r.type = "reg_request" /\ r.seq = m.seq
  <1>1. Received("pc_update")
    BY DEF MappingFailed, EnumerationFailed, PcUpdateHandled
  <1>2. m \in PcUpdateMsg
    BY <1>1, ReceivedTypes DEF TypeOK
  <1>3. m.seq \in Nat /\ m.loc \in Locs
    BY <1>2 DEF PcUpdateMsg
  <1>4. current_pc'.seq = m.seq /\ current_pc'.at = m.at
    BY DEF MappingFailed, EnumerationFailed, PcUpdateHandled, start_pc_context, build_entry_plan
  <1>5. ASSUME NEW selected
        PROVE  /\ \A i \in DOMAIN <<Logged>> : Asks(<<Logged>>[i])
               /\ \A i \in DOMAIN EntryRequest(m.seq, m.loc) :
                    Asks(EntryRequest(m.seq, m.loc)[i])
               /\ \A i \in DOMAIN VRequest(m.seq, m.loc, selected) :
                    Asks(VRequest(m.seq, m.loc, selected)[i])
    BY DEF Logged, EntryRequest, VRequest, IsRequest
  <1> HIDE DEF m, Asks
  <1>6. ASSUME NEW s \in Seq(WdMsg), NEW t \in Seq(WdMsg),
               \A i \in DOMAIN s : Asks(s[i]), \A i \in DOMAIN t : Asks(t[i])
        PROVE  s \o t \in Seq(WdMsg) /\ \A i \in DOMAIN (s \o t) : Asks((s \o t)[i])
    <2> DEFINE st == s \o t
    <2>1. /\ st \in Seq(WdMsg)
          /\ \A i \in DOMAIN st : \/ i \in DOMAIN s /\ st[i] = s[i]
                                  \/ \E j \in DOMAIN t : st[i] = t[j]
      BY ConcatElements
    <2> HIDE DEF st
    <2>2. \A i \in DOMAIN st : Asks(st[i])
      BY <1>6, <2>1
    <2>3. QED
      BY <2>1, <2>2 DEF st
  <1>7. \E ms \in Seq(WdMsg) : SendToWd(ms) /\ \A i \in DOMAIN ms : Asks(ms[i])
    <2>1. /\ <<Logged>> \in Seq(WdMsg) /\ EntryRequest(m.seq, m.loc) \in Seq(WdMsg)
          /\ \A i \in DOMAIN <<Logged>> : Asks(<<Logged>>[i])
          /\ \A i \in DOMAIN EntryRequest(m.seq, m.loc) : Asks(EntryRequest(m.seq, m.loc)[i])
      BY <1>3, <1>5, RequestTypes
    <2> DEFINE plan == <<Logged>> \o EntryRequest(m.seq, m.loc)
    <2>2. plan \in Seq(WdMsg) /\ \A i \in DOMAIN plan : Asks(plan[i])
      BY <1>6, <2>1
    <2>3. CASE SendToWd(<<Logged>>)
      BY <2>1, <2>3
    <2>4. CASE SendToWd(plan)
      BY <2>2, <2>4
    <2>5. ASSUME NEW selected, SendToWd(plan \o VRequest(m.seq, m.loc, selected))
          PROVE  \E ms \in Seq(WdMsg) : SendToWd(ms) /\ \A i \in DOMAIN ms : Asks(ms[i])
      <3>1. /\ VRequest(m.seq, m.loc, selected) \in Seq(WdMsg)
            /\ \A i \in DOMAIN VRequest(m.seq, m.loc, selected) :
                 Asks(VRequest(m.seq, m.loc, selected)[i])
        BY <1>3, <1>5, RequestTypes
      <3> HIDE DEF plan
      <3>2. QED
        BY <1>6, <2>2, <2>5, <3>1
    <2>6. QED
      BY <2>3, <2>4, <2>5 DEF MappingFailed, EnumerationFailed, PcUpdateHandled, m
  <1>8. \A i \in DOMAIN toWd' : IsRequest(toWd'[i]) =>
          \/ \E j \in DOMAIN toWd : toWd'[i] = toWd[j]
          \/ idaUp /\ toWd'[i].type = "reg_request" /\ toWd'[i].seq = m.seq
    BY <1>7, SentToWd DEF Asks
  <1>9. QED
    BY <1>1, <1>4, <1>8, UpdateTakenQueues DEF m

(* Steps of the plugin. *)
LEMMA PluginKeepsInv ==
  ASSUME NamesUnique, TypeOK, TypeOK', QueueInv, TableInv,
         UNCHANGED <<next_pc_seq, reportedAt>>, PluginNext
  PROVE  QueueInv' /\ TableInv'
  <1>1. CASE MappingFailed \/ EnumerationFailed \/ PcUpdateHandled
    BY <1>1, UpdateHandledQueues, UpdateTakenTable
  <1>2. CASE RegResponseForArgs
    BY <1>2, RegTakenForArgs
  <1>3. CASE RegResponseForLocals
    BY <1>3, RegTakenForLocals
  <1>4. CASE MemResponseForArgs
    BY <1>4, MemTakenForArgs
  <1>5. CASE MemResponseForLocals
    BY <1>5, MemTakenForLocals
  <1>6. CASE ResponseIgnored
    <2>1. /\ toIda # <<>> /\ ~IsUpdate(Head(toIda)) /\ toIda' = Tail(toIda)
          /\ UNCHANGED <<idaUp, toWd, pluginVars>>
      BY <1>6 DEF ResponseIgnored, Received, IsUpdate
    <2>2. UNCHANGED <<current_pc, pending_requests, v_pending>>
      BY <2>1 DEF pluginVars, coreVars, vVars
    <2>3. Waiting' => Waiting
      BY <2>2 DEF Waiting
    <2>4. QueueInv'
      BY <2>1, <2>2, <2>3, ResponseTakenQueues
    <2>5. QED
      BY <2>1, <2>4, TableUnchanged
  <1>7. CASE PcUpdateIgnored
    <2>1. toIda # <<>> /\ IsUpdate(Head(toIda)) /\ ~Head(toIda).auto
      BY <1>7 DEF PcUpdateIgnored, Received, IsUpdate
    <2>2. Head(toIda) = toIda[1] /\ 1 \in DOMAIN toIda
      BY <2>1, TailElements DEF TypeOK, LinkTypeOK
    <2>3. QED
      BY <2>1, <2>2 DEF QueueInv, UpdateInv
  <1>8. CASE connect
    BY <1>8, CommandQueues, TableUnchanged DEF connect
  <1>9. CASE disconnect
    <2>1. /\ pending_requests' = {} /\ v_pending' = {} /\ records' = NoRecords
          /\ UNCHANGED <<rows, planned, view>>
      BY <1>9 DEF disconnect, core_disconnect, clear_runtime_state
    <2>2. DOMAIN records' = {}
      BY <2>1 DEF NoRecords
    <2>3. TableInv'
      BY <2>1, <2>2 DEF TableInv, ContextInv, Waiting, RowsTrue, RecordsTrue, FreshIsTrue,
                        ShownHome
    <2>4. QED
      BY <1>9, <2>3, CommandQueues
  <1>10. QED
    BY <1>1, <1>2, <1>3, <1>4, <1>5, <1>6, <1>7, <1>8, <1>9 DEF PluginNext, HandleMessage

-----------------------------------------------------------------------------
(* The inductive invariant *)

(* It holds initially: nothing is in transit, awaited or shown. *)
LEMMA FreshInit == Init => FreshInv
  <1> SUFFICES ASSUME Init PROVE FreshInv
    OBVIOUS
  <1>1. ReportInv
    BY DEF Init, LinkInit, WdInit, NoPump, ReportInv
  <1>2. DOMAIN toIda = {} /\ DOMAIN toWd = {}
    BY DEF Init, LinkInit
  <1>3. QueueInv
    BY <1>2 DEF Init, WdInit, PluginInit, CoreInit, NoPc, QueueInv, UpdateInv, RequestInv,
                OvertakenInv, AnswerInv
  <1>4. DOMAIN rows = {} /\ DOMAIN records = {} /\ DOMAIN view.rows = {}
    BY DEF Init, PluginInit, CoreInit, VInit, NoRecords
  <1>5. TableInv
    BY <1>4 DEF Init, PluginInit, CoreInit, VInit, TableInv, ContextInv, Waiting, RowsTrue,
                RecordsTrue, FreshIsTrue
  <1>6. QED
    BY <1>1, <1>3, <1>5 DEF FreshInv

(* Every step keeps it. *)
LEMMA FreshStep ==
  ASSUME Reported, NamesUnique
  PROVE  TypeOK /\ TypeOK' /\ FreshInv /\ [Next]_vars => FreshInv'
  <1> SUFFICES ASSUME TypeOK, TypeOK', FreshInv, [Next]_vars PROVE FreshInv'
    OBVIOUS
  <1> USE DEF FreshInv
  <1>1. CASE WdStep
    BY <1>1, WdKeepsInv, TableUnchanged DEF WdStep
  <1>2. CASE IdaStep
    <2>1. UNCHANGED <<instant, target, step, pump, next_pc_seq, reportedAt>> /\ PluginNext
      BY <1>2 DEF IdaStep, wdVars
    <2>2. UNCHANGED wdUp
      BY <2>1 DEF PluginNext, HandleMessage, PcUpdateIgnored, MappingFailed,
         EnumerationFailed, PcUpdateHandled, RegResponseForArgs, RegResponseForLocals,
         MemResponseForArgs, MemResponseForLocals, ResponseIgnored, Received, connect,
         disconnect
    <2>3. ReportInv'
      BY <2>1, <2>2 DEF ReportInv
    <2>4. QED
      BY <2>1, <2>3, PluginKeepsInv
  <1>3. CASE UNCHANGED vars
    <2>1. /\ UNCHANGED <<instant, target, step, pump, next_pc_seq, reportedAt, pluginVars>>
          /\ UNCHANGED <<toIda, toWd, wdUp, idaUp>>
      BY <1>3 DEF vars, linkVars, wdVars
    <2>2. ReportInv'
      BY <2>1 DEF ReportInv
    <2>3. QED
      BY <2>1, <2>2, QuietQueues, TableUnchanged
  <1>4. QED
    BY <1>1, <1>2, <1>3, NoMishap DEF Next, IdaLost

(***************************************************************************)
(* A value shown as fresh is the one its variable holds at the instant of   *)
(* the pc_update the table is for: for every database, any number of steps, *)
(* any interleaving of the extension's pump with the plugin's handlers, and *)
(* any reads that fail, provided that the debuggee moves only by !dvs_step  *)
(* (Reported) and that the variables of a function have distinct names.     *)
(* Neither handler compares anything with the debuggee: this is what the    *)
(* order of the messages gives (dayvar.c, DvsSendPcUpdateAndPump;           *)
(* dynvar_core.py, _take_pending_response).                                 *)
(***************************************************************************)
THEOREM Freshness ==
  ASSUME Reported, NamesUnique
  PROVE  Spec => []FreshIsTrue
  <1>1. Init => TypeOK /\ FreshInv
    BY InitTypes, FreshInit
  <1>2. (TypeOK /\ FreshInv) /\ [Next]_vars => (TypeOK /\ FreshInv)'
    BY NextTypes, FreshStep
  <1>3. TypeOK /\ FreshInv => FreshIsTrue
    BY DEF FreshInv, TableInv
  <1>4. QED
    BY <1>1, <1>2, <1>3, PTL DEF Spec

-----------------------------------------------------------------------------
(* Stale values were exact *)

(* What a variable holds at an instant is held at that instant. *)
LEMMA TrueIsHeld ==
  ASSUME NEW home, NEW v, NEW t \in Nat
  PROVE  Held(TrueValue(home, v, t), home, v, t)
  <1>1. CASE home = "constant"
    BY <1>1 DEF Held, TrueValue, ConstantValue
  <1>2. CASE home = "stack"
    BY <1>2 DEF Held, TrueValue, MemValue
  <1>3. CASE home \notin {"constant", "stack"}
    BY <1>3 DEF Held, TrueValue, RegValue
  <1>4. QED
    BY <1>1, <1>2, <1>3

(* The history keeps what it had or what is remembered now. *)
LEMMA Remembered ==
  ASSUME NEW fresh, NEW value, NEW seq, Remember(fresh, value, seq)
  PROVE  \A v \in DOMAIN history' :
           \/ v \in fresh /\ history'[v].value = value[v]
           \/ v \in DOMAIN history /\ history'[v] = history[v]
  <1> DEFINE all == [v \in DOMAIN history \cup fresh |->
                       IF v \in fresh THEN [value |-> value[v], seq |-> seq]
                       ELSE history[v]]
  <1>1. PICK kept \in SUBSET DOMAIN all : history' = [v \in kept |-> all[v]]
    BY DEF Remember
  <1>2. ASSUME NEW v \in DOMAIN history'
        PROVE  \/ v \in fresh /\ history'[v].value = value[v]
               \/ v \in DOMAIN history /\ history'[v] = history[v]
    <2>1. v \in DOMAIN history \cup fresh /\ history'[v] = all[v]
      BY <1>1, <1>2
    <2>2. CASE v \in fresh
      <3>1. history'[v] = [value |-> value[v], seq |-> seq]
        BY <2>1, <2>2
      <3>2. QED
        BY <2>2, <3>1
    <2>3. CASE v \notin fresh
      BY <2>1, <2>3
    <2>4. QED
      BY <2>2, <2>3
  <1>3. QED
    BY <1>2

(* What the history holds stays exact while the PC only moves on. *)
LEMMA HistoryStaysExact ==
  ASSUME TypeOK, TypeOK', HistoryExact, current_pc.at <= current_pc'.at,
         NEW fresh, NEW value, NEW seq, Remember(fresh, value, seq),
         \A v \in fresh : \E l \in Locs : Held(value[v], Evidence[l][v], v, current_pc'.at)
  PROVE  HistoryExact'
  <1>1. current_pc.at \in Nat /\ current_pc'.at \in Nat
    BY DEF TypeOK, PluginTypeOK, CoreTypeOK, PcContext
  <1>2. \A v \in DOMAIN history : history[v].value.at \in Nat
    BY DEF TypeOK, PluginTypeOK, VTypeOK, Value
  <1> SUFFICES ASSUME NEW v \in DOMAIN history'
               PROVE  \E l \in Locs : Held(history'[v].value, Evidence[l][v], v, current_pc'.at)
    BY DEF HistoryExact, Held
  <1>3. CASE v \in fresh /\ history'[v].value = value[v]
    BY <1>3
  <1>4. CASE v \in DOMAIN history /\ history'[v] = history[v]
    <2>1. PICK l \in Locs : Held(history[v].value, Evidence[l][v], v, current_pc.at)
      BY <1>4 DEF HistoryExact
    <2>2. Held(history[v].value, Evidence[l][v], v, current_pc'.at)
      BY <1>1, <1>2, <1>4, <2>1 DEF Held
    <2>3. QED
      BY <1>4, <2>2
  <1>5. QED
    BY <1>3, <1>4, Remembered

(* A published table shows as stale what was exact, when the rows and the    *)
(* records do.                                                               *)
LEMMA PublishStale ==
  ASSUME PublishRows, RowsExact', RecordsExact', planned'.at = current_pc'.at,
         DOMAIN records' # {} => v_context' = current_pc'
  PROVE  StaleWasExact'
  <1> DEFINE rs == Overlay(rows', records')
  <1>1. view'.rows = rs /\ view'.at = current_pc'.at /\ DOMAIN rs = DOMAIN rows'
    BY DEF PublishRows, Show, Overlay
  <1>2. ASSUME NEW v \in DOMAIN rows', rs[v].status = "stale"
        PROVE  /\ rs[v].value.at <= current_pc'.at
               /\ IF IsArg(v) THEN rs[v].value = TrueValue(ArgHome[v], v, rs[v].value.at)
                  ELSE \E l \in Locs :
                         rs[v].value = TrueValue(Evidence[l][v], v, rs[v].value.at)
    <2>1. CASE ~IsArg(v) /\ v \in DOMAIN records'
      <3>1. rs[v] = [status |-> records'[v].status, value |-> records'[v].value]
        BY <2>1 DEF Overlay
      <3>2. v_context' = current_pc'
        BY <2>1
      <3>3. PICK l \in Locs : Held(records'[v].value, Evidence[l][v], v, v_context'.at)
        BY <1>2, <2>1, <3>1 DEF RecordsExact, Held
      <3>4. QED
        BY <2>1, <3>1, <3>2, <3>3 DEF Held
    <2>2. CASE ~(~IsArg(v) /\ v \in DOMAIN records')
      <3>1. rs[v] = rows'[v]
        BY <2>2 DEF Overlay
      <3>2. IsArg(v) /\ Held(rows'[v].value, ArgHome[v], v, planned'.at)
        BY <1>2, <3>1 DEF RowsExact, Held
      <3>3. QED
        BY <3>1, <3>2 DEF Held
    <2>3. QED
      BY <2>1, <2>2
  <1> HIDE DEF rs
  <1>3. QED
    BY <1>1, <1>2 DEF StaleWasExact

(* With unique names the previous row that is found is the variable's own.   *)
LEMMA PriorIsOwn ==
  ASSUME NamesUnique, TypeOK, RowsExact, NEW f \in Funcs, NEW v \in LvarsOf[f],
         Prior(f, v) # NoValue
  PROVE  v \in DOMAIN rows /\ Prior(f, v) = rows[v].value
  <1> DEFINE same == {u \in DOMAIN rows : Name[u] = Name[v]}
  <1>1. planned.func = f /\ same # {} /\ Prior(f, v) = rows[CHOOSE u \in same : TRUE].value
    BY DEF Prior
  <1>2. (CHOOSE u \in same : TRUE) \in same
    BY <1>1
  <1>3. \A u \in same : u = v
    BY <1>1 DEF RowsExact, NamesUnique
  <1>4. QED
    BY <1>1, <1>2, <1>3

(* A pc_update: the rows of the same function and the history give stale     *)
(* values.                                                                   *)
LEMMA UpdateKeepsExact ==
  ASSUME NamesUnique, TypeOK, TypeOK', NotEarlierInv, StaleInv, RecordsTrue', UNCHANGED instant,
         MappingFailed \/ EnumerationFailed \/ PcUpdateHandled
  PROVE  StaleInv'
  <1> DEFINE m == Head(toIda)
             f == FuncOf[m.loc]
             c == [seq |-> m.seq, loc |-> m.loc, at |-> m.at]
  <1>1. Received("pc_update") /\ current_pc' = c
    BY DEF MappingFailed, EnumerationFailed, PcUpdateHandled, start_pc_context, build_entry_plan
  <1>2. current_pc'.at = m.at
    BY <1>1
  <1>3. m.at \in Nat /\ current_pc.at <= m.at
    BY <1>1, <1>2, OrderTaken DEF NotEarlierInv
  <1>4. /\ planned.at \in Nat /\ current_pc.at \in Nat /\ planned.at <= m.at
        /\ \A v \in DOMAIN rows : rows[v].value.at \in Nat
        /\ \A v \in DOMAIN history : history[v].value.at \in Nat
    BY <1>3 DEF TypeOK, PluginTypeOK, CoreTypeOK, PcContext, VTypeOK, Row, Value,
                NotEarlierInv, PlanInv
  <1>5. f \in Funcs /\ m.loc \in Locs
    BY <1>1, ReceivedTypes, LocsAssumption DEF TypeOK, PcUpdateMsg
  <1>6. \A v \in DOMAIN history :
          \E l \in Locs : Held(history[v].value, Evidence[l][v], v, m.at)
    BY <1>3, <1>4 DEF StaleInv, HistoryExact, Held
  <1>7. CASE MappingFailed \/ EnumerationFailed
    <2>1. records' = NoRecords /\ UNCHANGED <<rows, planned, history>>
      BY <1>7 DEF MappingFailed, EnumerationFailed, invalidate_pc
    <2>2. DOMAIN records' = {}
      BY <2>1 DEF NoRecords
    <2>3. RowsExact' /\ RecordsExact'
      BY <2>1, <2>2 DEF StaleInv, RowsExact, RecordsExact, Held
    <2>4. HistoryExact'
      BY <1>2, <1>6, <2>1 DEF HistoryExact
    <2>5. StaleWasExact'
      <3>1. CASE MappingFailed
        BY <3>1 DEF MappingFailed, StaleInv, StaleWasExact
      <3>2. CASE EnumerationFailed
        <4>1. view'.rows = [v \in {} |-> NoValue]
          BY <3>2 DEF EnumerationFailed, Show
        <4>2. QED
          BY <4>1 DEF StaleWasExact
      <3>3. QED
        BY <1>7, <3>1, <3>2
    <2>6. QED
      BY <2>3, <2>4, <2>5 DEF StaleInv
  <1>8. CASE PcUpdateHandled
    <2>1. /\ planned' = [func |-> f, at |-> m.at] /\ PublishRows
          /\ rows' = [v \in LvarsOf[f] |-> PlannedRow(f, m.loc, v)]
      BY <1>8 DEF PcUpdateHandled, build_entry_plan
    <2>2. planned'.at = m.at /\ planned'.func = f
      BY <2>1
    <2>3. RowsExact'
      <3>1. ASSUME NEW v \in LvarsOf[f]
            PROVE  LET r == PlannedRow(f, m.loc, v) IN
                   /\ r.status = "stale" => r.value # NoValue
                   /\ r.value # NoValue => IsArg(v) /\ Held(r.value, ArgHome[v], v, m.at)
        <4>1. CASE IsArg(v) /\ Prior(f, v) # NoValue
                   /\ PlannedRow(f, m.loc, v) = [status |-> "stale", value |-> Prior(f, v)]
          <5>1. v \in DOMAIN rows /\ Prior(f, v) = rows[v].value
            BY <1>5, <4>1, PriorIsOwn DEF StaleInv
          <5>2. Held(rows[v].value, ArgHome[v], v, planned.at)
            BY <4>1, <5>1 DEF StaleInv, RowsExact
          <5>3. Held(rows[v].value, ArgHome[v], v, m.at)
            BY <1>3, <1>4, <5>1, <5>2 DEF Held
          <5>4. QED
            BY <4>1, <5>1, <5>3
        <4>2. CASE PlannedRow(f, m.loc, v) = [status |-> "unavailable", value |-> NoValue]
          BY <4>2
        <4>3. QED
          BY <4>1, <4>2 DEF PlannedRow
      <3>2. QED
        BY <2>1, <2>2, <3>1 DEF RowsExact, Held
    <2>4. /\ v_context' = c /\ RecordsExact' /\ HistoryExact'
      <3>1. CASE \E selected \in SUBSET Locals(f) : begin_pc(m.seq, m.loc, m.at, selected)
        <4>1. PICK selected \in SUBSET Locals(f) : begin_pc(m.seq, m.loc, m.at, selected)
          BY <3>1
        <4> DEFINE constant == {v \in Locals(f) : HomeAt(m.loc, v, selected) = "constant"}
        <4>2. /\ v_context' = c
              /\ records' = [v \in Locals(f) |-> NewRecord(m.loc, v, selected)]
              /\ Remember(constant, [v \in constant |-> ConstantValue], m.seq)
          BY <4>1 DEF begin_pc, StartContext
        <4>3. \A v : NewRecord(m.loc, v, selected).status = "stale" =>
                /\ v \in DOMAIN history
                /\ NewRecord(m.loc, v, selected).value = history[v].value
          BY DEF NewRecord, FreshRecord, StaleOrNone, LastOf
        <4>4. RecordsExact'
          BY <1>6, <4>2, <4>3 DEF RecordsExact
        <4>5. \A v \in constant :
                \E l \in Locs : Held([u \in constant |-> ConstantValue][v], Evidence[l][v], v, m.at)
          <5> SUFFICES ASSUME NEW v \in constant
                       PROVE  Held(ConstantValue, Evidence[m.loc][v], v, m.at)
            BY <1>5
          <5>1. Evidence[m.loc][v] = "constant"
            BY DEF HomeAt
          <5>2. ConstantValue.at = 0
            BY DEF ConstantValue
          <5>3. QED
            BY <1>3, <5>1, <5>2 DEF Held, TrueValue
        <4>6. HistoryExact'
          BY <1>2, <1>3, <4>2, <4>5, HistoryStaysExact DEF StaleInv
        <4>7. QED
          BY <4>2, <4>4, <4>6
      <3>2. CASE begin_pc_unanalysed(m.seq, m.loc, m.at) \/ invalidate_pc(m.seq, m.loc, m.at)
        <4>1. /\ v_context' = c /\ UNCHANGED history
              /\ \/ records' = [v \in Locals(f) |-> NotAnalysed(v)]
                 \/ records' = NoRecords
          BY <3>2 DEF begin_pc_unanalysed, invalidate_pc, StartContext
        <4>2. \A v \in DOMAIN records' : records'[v].status # "stale"
          BY <4>1 DEF NotAnalysed, NoRecords
        <4>3. QED
          BY <1>2, <1>6, <4>1, <4>2 DEF RecordsExact, HistoryExact
      <3>3. QED
        BY <1>8, <3>1, <3>2 DEF PcUpdateHandled
    <2>5. StaleWasExact'
      BY <1>1, <1>2, <2>1, <2>2, <2>3, <2>4, PublishStale
    <2>6. QED
      BY <2>3, <2>4, <2>5 DEF StaleInv
  <1>9. QED
    BY <1>7, <1>8

(* A response for the arguments: a row that is filled is true, the others    *)
(* keep their value.                                                         *)
LEMMA ArgsKeepExact ==
  ASSUME TypeOK, TypeOK', TableInv, TableInv', StaleInv, NotEarlierInv,
         RegResponseForArgs \/ MemResponseForArgs
  PROVE  StaleInv'
  <1> DEFINE m == Head(toIda)
  <1>1. /\ UNCHANGED <<current_pc, planned, v_context, v_pending, records, history>>
        /\ PublishRows
        /\ \/ rows' = [v \in DOMAIN rows |-> RegRow(m, v)]
           \/ rows' = [v \in DOMAIN rows |-> MemRow(m, v)]
    BY DEF RegResponseForArgs, MemResponseForArgs, apply_reg_response, apply_mem_response, vVars
  <1>2. Waiting
    BY DEF RegResponseForArgs, MemResponseForArgs, apply_reg_response, apply_mem_response,
           RegAccepted, MemAccepted, Awaited, Waiting
  <1>3. planned.at = current_pc.at /\ planned.at \in Nat
    BY <1>2 DEF NotEarlierInv, PlanInv, TypeOK, PluginTypeOK, CoreTypeOK
  <1>4. ASSUME NEW v \in DOMAIN rows
        PROVE  \/ rows'[v].status = "fresh"
               \/ rows'[v].value = rows[v].value /\ rows'[v].status \in {rows[v].status, "error"}
    <2>1. /\ Failed(rows[v]).value = rows[v].value /\ Failed(rows[v]).status = "error"
      BY DEF Failed, TypeOK, PluginTypeOK, CoreTypeOK, Row
    <2> HIDE DEF m
    <2>2. rows'[v] = RegRow(m, v) \/ rows'[v] = MemRow(m, v)
      BY <1>1
    <2>3. QED
      BY <2>1, <2>2 DEF RegRow, MemRow
  <1>5. DOMAIN rows' = DOMAIN rows
    BY <1>1
  <1>6. RowsExact'
    <2> SUFFICES ASSUME NEW v \in DOMAIN rows
                 PROVE  /\ rows'[v].status = "stale" => rows'[v].value # NoValue
                        /\ rows'[v].value # NoValue =>
                             IsArg(v) /\ Held(rows'[v].value, ArgHome[v], v, planned.at)
      BY <1>1, <1>5 DEF StaleInv, RowsExact, Held
    <2>1. CASE rows'[v].status = "fresh"
      <3>1. IsArg(v) /\ rows'[v].value = TrueValue(ArgHome[v], v, planned.at)
        BY <1>1, <1>5, <2>1 DEF TableInv, RowsTrue
      <3>2. QED
        BY <1>3, <2>1, <3>1, TrueIsHeld
    <2>2. CASE rows'[v].value = rows[v].value /\ rows'[v].status \in {rows[v].status, "error"}
      BY <2>2 DEF StaleInv, RowsExact
    <2>3. QED
      BY <1>4, <2>1, <2>2
  <1>7. RecordsExact' /\ HistoryExact'
    BY <1>1 DEF StaleInv, RecordsExact, HistoryExact, Held
  <1>8. DOMAIN records' # {} => v_context' = current_pc'
    BY <1>1 DEF NotEarlierInv, PlanInv
  <1>9. StaleWasExact'
    BY <1>1, <1>3, <1>6, <1>7, <1>8, PublishStale
  <1>10. QED
    BY <1>6, <1>7, <1>9 DEF StaleInv

(* A response for the locals: a record that is filled is true, and its value *)
(* is what the history remembers.                                            *)
LEMMA LocalsKeepExact ==
  ASSUME TypeOK, TypeOK', TableInv, TableInv', StaleInv, NotEarlierInv,
         RegResponseForLocals \/ MemResponseForLocals
  PROVE  StaleInv'
  <1> DEFINE m == Head(toIda)
  <1>1. UNCHANGED <<current_pc, planned, rows, v_context>> /\ PublishRows
    BY DEF RegResponseForLocals, MemResponseForLocals, v_apply_reg_response,
           v_apply_mem_response, coreVars
  <1>2. v_pending # {}
    BY DEF RegResponseForLocals, MemResponseForLocals, v_apply_reg_response,
           v_apply_mem_response, VRegAccepted, VMemAccepted, VAwaited
  <1>3. planned.at = current_pc.at /\ v_context = current_pc
    BY <1>2 DEF NotEarlierInv, PlanInv, Waiting
  <1>4. current_pc.at \in Nat /\ current_pc.loc \in Locs
    BY DEF TypeOK, PluginTypeOK, CoreTypeOK, PcContext
  <1>5. \A v \in DOMAIN records' : records'[v].status = "fresh" =>
          Held(records'[v].value, Evidence[current_pc.loc][v], v, current_pc.at)
    BY <1>1, <1>3, <1>4, TrueIsHeld DEF TableInv, RecordsTrue
  <1>6. VTypeOK
    BY DEF TypeOK, PluginTypeOK
  <1>7. RecordsExact' /\ HistoryExact'
    <2>1. CASE RegResponseForLocals
      <3>1. /\ records' = [v \in DOMAIN records |-> VRegRecord(m, v)]
            /\ Remember(InRegister(m),
                        [v \in InRegister(m) |-> RegValue(records[v].home, m.at)],
                        v_context.seq)
        BY <2>1 DEF RegResponseForLocals, v_apply_reg_response
      <3> HIDE DEF m
      <3>2. \A v \in DOMAIN records : VRegRecord(m, v).status = "stale" =>
              VRegRecord(m, v) = records[v]
        BY <1>6 DEF VRegRecord, FreshRecord, ErrorRecord, VTypeOK, Record
      <3>3. RecordsExact'
        BY <1>1, <3>1, <3>2 DEF StaleInv, RecordsExact, Held
      <3>4. \A v \in InRegister(m) :
              /\ v \in DOMAIN records'
              /\ records'[v].status = "fresh"
              /\ records'[v].value = RegValue(records[v].home, m.at)
        BY <3>1 DEF VRegRecord, FreshRecord, InRegister, OnStack, Asked
      <3>5. \A v \in InRegister(m) :
              \E l \in Locs : Held([u \in InRegister(m) |-> RegValue(records[u].home, m.at)][v],
                                   Evidence[l][v], v, current_pc'.at)
        BY <1>1, <1>4, <1>5, <3>4
      <3>6. HistoryExact'
        BY <1>1, <1>4, <3>1, <3>5, HistoryStaysExact DEF StaleInv
      <3>7. QED
        BY <3>3, <3>6
    <2>2. CASE MemResponseForLocals
      <3>1. /\ records' = [v \in DOMAIN records |-> VMemRecord(m, v)]
            /\ IF m.ok
               THEN Remember(ReadFor(m), [v \in ReadFor(m) |-> MemValue(m.addr, m.at)],
                             v_context.seq)
               ELSE UNCHANGED history
        BY <2>2 DEF MemResponseForLocals, v_apply_mem_response
      <3> HIDE DEF m
      <3>2. \A v \in DOMAIN records : VMemRecord(m, v).status = "stale" =>
              VMemRecord(m, v) = records[v]
        BY <1>6 DEF VMemRecord, FreshRecord, ErrorRecord, VTypeOK, Record
      <3>3. RecordsExact'
        BY <1>1, <3>1, <3>2 DEF StaleInv, RecordsExact, Held
      <3>4. CASE m.ok
        <4>1. \A v \in ReadFor(m) :
                /\ v \in DOMAIN records'
                /\ records'[v].status = "fresh"
                /\ records'[v].value = MemValue(m.addr, m.at)
          BY <3>1, <3>4 DEF VMemRecord, FreshRecord, ReadFor
        <4>2. \A v \in ReadFor(m) :
                \E l \in Locs : Held([u \in ReadFor(m) |-> MemValue(m.addr, m.at)][v],
                                     Evidence[l][v], v, current_pc'.at)
          BY <1>1, <1>4, <1>5, <4>1
        <4>3. HistoryExact'
          BY <1>1, <1>4, <3>1, <3>4, <4>2, HistoryStaysExact DEF StaleInv
        <4>4. QED
          BY <3>3, <4>3
      <3>5. CASE ~m.ok
        BY <1>1, <3>1, <3>3, <3>5 DEF StaleInv, HistoryExact, Held
      <3>6. QED
        BY <3>4, <3>5
    <2>3. QED
      BY <2>1, <2>2
  <1>8. RowsExact'
    BY <1>1 DEF StaleInv, RowsExact, Held
  <1>9. StaleWasExact'
    BY <1>1, <1>3, <1>7, <1>8, PublishStale
  <1>10. QED
    BY <1>7, <1>8, <1>9 DEF StaleInv

LEMMA StaleStep ==
  ASSUME NamesUnique, TypeOK, TypeOK', FreshInv, FreshInv', NotEarlierInv, StaleInv, [Next]_vars
  PROVE  StaleInv'
  <1>1. TableInv /\ TableInv' /\ RecordsTrue'
    BY DEF FreshInv, TableInv
  <1>2. CASE UNCHANGED pluginVars
    BY <1>2 DEF pluginVars, coreVars, vVars, StaleInv, RowsExact, RecordsExact, HistoryExact,
                StaleWasExact, Held
  <1>3. CASE disconnect
    <2>1. records' = NoRecords /\ UNCHANGED <<current_pc, rows, planned, history, view>>
      BY <1>3 DEF disconnect, core_disconnect, clear_runtime_state
    <2>2. DOMAIN records' = {}
      BY <2>1 DEF NoRecords
    <2>3. QED
      BY <2>1, <2>2 DEF StaleInv, RowsExact, RecordsExact, HistoryExact, StaleWasExact, Held
  <1>4. CASE UNCHANGED wdVars /\ (MappingFailed \/ EnumerationFailed \/ PcUpdateHandled)
    BY <1>1, <1>4, UpdateKeepsExact DEF wdVars
  <1>5. CASE RegResponseForArgs \/ MemResponseForArgs
    BY <1>1, <1>5, ArgsKeepExact
  <1>6. CASE RegResponseForLocals \/ MemResponseForLocals
    BY <1>1, <1>6, LocalsKeepExact
  <1>7. QED
    BY <1>2, <1>3, <1>4, <1>5, <1>6 DEF Next, WdStep, IdaStep, IdaLost, PluginNext,
       HandleMessage, PcUpdateIgnored, ResponseIgnored, connect, ConnectionLost, vars

(***************************************************************************)
(* A value shown as stale is what its variable held at some instant before  *)
(* the PC it is shown for, in a place it really lived in: for every         *)
(* database, however often values are carried over by name from row to row  *)
(* (dynvar_core.py, build_entry_plan) or through the bounded history        *)
(* (v_variable_recovery.py, _new_record and _prune_history), under the      *)
(* premises of Freshness.                                                   *)
(***************************************************************************)
THEOREM Staleness ==
  ASSUME Reported, NamesUnique
  PROVE  Spec => []StaleWasExact
  <1> DEFINE I == TypeOK /\ FreshInv /\ NotEarlierInv /\ StaleInv
  <1>1. Init => I
    <2> SUFFICES ASSUME Init PROVE I
      OBVIOUS
    <2>1. DOMAIN rows = {} /\ DOMAIN records = {} /\ DOMAIN view.rows = {} /\ DOMAIN history = {}
      BY DEF Init, PluginInit, CoreInit, VInit, NoRecords
    <2>2. StaleInv
      BY <2>1 DEF StaleInv, RowsExact, RecordsExact, HistoryExact, StaleWasExact
    <2>3. QED
      BY <2>2, InitTypes, FreshInit, NotEarlierInit
  <1>2. I /\ [Next]_vars => I'
    BY NextTypes, FreshStep, NotEarlierStep, StaleStep
  <1>3. I => StaleWasExact
    BY DEF StaleInv
  <1>4. QED
    BY <1>1, <1>2, <1>3, PTL DEF Spec
=============================================================================
