-------------------------- MODULE LiveSyncTypeProofs --------------------------
(***************************************************************************)
(* Type correctness of LiveSync, and the facts about queues it rests on.    *)
(***************************************************************************)
EXTENDS LiveSyncInv, SequenceTheorems, FiniteSetTheorems, TLAPS

-----------------------------------------------------------------------------
(* Sequences: what the elements of a changed queue are. *)

(* Appending one element keeps the others in place. *)
LEMMA AppendElements ==
  ASSUME NEW S, NEW s \in Seq(S), NEW e \in S
  PROVE  /\ Append(s, e) \in Seq(S)
         /\ DOMAIN Append(s, e) = 1 .. Len(s) + 1
         /\ DOMAIN s = 1 .. Len(s)
         /\ \A i \in DOMAIN s : Append(s, e)[i] = s[i]
         /\ Append(s, e)[Len(s) + 1] = e
         /\ Len(s) \in Nat
  BY AppendProperties

(* Taking the head shifts the others by one. *)
LEMMA TailElements ==
  ASSUME NEW S, NEW s \in Seq(S), s # <<>>
  PROVE  /\ Tail(s) \in Seq(S)
         /\ Head(s) = s[1] /\ Head(s) \in S
         /\ DOMAIN s = 1 .. Len(s) /\ Len(s) \in Nat \ {0}
         /\ DOMAIN Tail(s) = 1 .. Len(s) - 1
         /\ \A i \in DOMAIN Tail(s) : Tail(s)[i] = s[i + 1]
  BY HeadTailProperties, EmptySeq

(* The elements of a concatenation are those of its two parts. *)
LEMMA ConcatElements ==
  ASSUME NEW S, NEW s \in Seq(S), NEW t \in Seq(S)
  PROVE  /\ s \o t \in Seq(S)
         /\ \A i \in DOMAIN (s \o t) :
              \/ i \in DOMAIN s /\ (s \o t)[i] = s[i]
              \/ \E j \in DOMAIN t : (s \o t)[i] = t[j]
         /\ \A i \in DOMAIN s : i \in DOMAIN (s \o t) /\ (s \o t)[i] = s[i]
  BY ConcatProperties

(* A prefix has the same elements in the same places. *)
LEMMA PrefixElements ==
  ASSUME NEW S, NEW s \in Seq(S), NEW k \in 0 .. Len(s)
  PROVE  /\ SubSeq(s, 1, k) \in Seq(S)
         /\ DOMAIN SubSeq(s, 1, k) = 1 .. k
         /\ DOMAIN s = 1 .. Len(s)
         /\ \A i \in 1 .. k : i \in DOMAIN s /\ SubSeq(s, 1, k)[i] = s[i]
  BY SubSeqProperties

(* A list of a finite set of variables has only those variables in it. *)
LEMMA ListOfSet ==
  ASSUME NEW S \in SUBSET Lvars
  PROVE  /\ SetToSeq(S) \in Seq(S)
         /\ \A i \in DOMAIN SetToSeq(S) : SetToSeq(S)[i] \in S
         /\ DOMAIN SetToSeq(S) = 1 .. Cardinality(S)
         /\ Cardinality(S) \in Nat
  <1>1. IsFiniteSet(S)
    BY LocsAssumption, FS_Subset
  <1>2. /\ Cardinality(S) \in Nat
        /\ ExistsBijection(1 .. Cardinality(S), S)
    BY <1>1, FS_CardinalityType, FS_NatBijection
  <1>3. PICK f : f \in Bijection(1 .. Cardinality(S), S)
    BY <1>2 DEF ExistsBijection
  <1>4. f \in [1 .. Cardinality(S) -> S] /\ IsInjective(f)
    BY <1>3 DEF Bijection, Injection, IsInjective
  <1>5. SetToSeq(S) \in [1 .. Cardinality(S) -> S]
    BY <1>4 DEF SetToSeq
  <1>6. QED
    BY <1>2, <1>5

-----------------------------------------------------------------------------
(* Type correctness *)

(* Sending to IDA keeps the two queues typed. *)
LEMMA SendToIdaTypes ==
  ASSUME LinkTypeOK, NEW m \in IdaMsg, NEW rest \in Seq(WdMsg), SendToIda(m, rest)
  PROVE  toIda' \in Seq(IdaMsg) /\ toWd' \in Seq(WdMsg)
  <1>1. Append(toIda, m) \in Seq(IdaMsg)
    BY AppendElements DEF LinkTypeOK
  <1>2. Logged \in WdMsg
    BY DEF Logged, LoggedMsg, WdMsg
  <1>3. Append(rest, Logged) \in Seq(WdMsg)
    BY <1>2, AppendElements
  <1>4. QED
    BY <1>1, <1>3 DEF SendToIda, LinkTypeOK

(* A prefix of a typed queue is typed, so a broken connection keeps types. *)
LEMMA DropTypes ==
  ASSUME LinkTypeOK
  PROVE  /\ DropWd => toIda' \in Seq(IdaMsg) /\ toWd' \in Seq(WdMsg) /\ wdUp' \in BOOLEAN
         /\ DropIda => toIda' \in Seq(IdaMsg) /\ idaUp' \in BOOLEAN
  <1>1. <<>> \in Seq(WdMsg)
    BY EmptySeq
  <1>2. \A k \in 0 .. Len(toIda) : SubSeq(toIda, 1, k) \in Seq(IdaMsg)
    BY PrefixElements DEF LinkTypeOK
  <1>3. QED
    BY <1>1, <1>2 DEF DropWd, DropIda

(* DvsSendPcUpdateAndPump, however it ends, keeps the link's types. *)
LEMMA PcUpdateTypes ==
  ASSUME TypeOK, NEW caller \in {"command", "step"},
         PcUpdateSent(caller) \/ PcUpdateNotSent \/ PcUpdateLost
  PROVE  /\ toIda' \in Seq(IdaMsg) /\ toWd' \in Seq(WdMsg) /\ wdUp' \in BOOLEAN
         /\ next_pc_seq' \in Nat \ {0} /\ reportedAt' \in Nat
         /\ pump' \in [left : Nat, caller : {"none", "command", "step"}]
  <1>1. CASE PcUpdateSent(caller)
    <2> DEFINE m == [type |-> "pc_update", seq |-> next_pc_seq, loc |-> loc,
                     auto |-> TRUE, at |-> instant]
    <2>1. m \in IdaMsg
      BY DEF TypeOK, WdTypeOK, IdaMsg, PcUpdateMsg
    <2>2. SendToIda(m, toWd)
      BY <1>1 DEF PcUpdateSent
    <2>3. toIda' \in Seq(IdaMsg) /\ toWd' \in Seq(WdMsg)
      BY <2>1, <2>2, SendToIdaTypes DEF TypeOK, LinkTypeOK
    <2>4. QED
      BY <1>1, <2>3, WinDbgAssumption DEF PcUpdateSent, TypeOK, WdTypeOK, LinkTypeOK
  <1>2. CASE PcUpdateNotSent
    BY <1>2 DEF PcUpdateNotSent, TypeOK, WdTypeOK, LinkTypeOK
  <1>3. CASE PcUpdateLost
    BY <1>3, DropTypes DEF PcUpdateLost, TypeOK, WdTypeOK
  <1>4. QED
    BY <1>1, <1>2, <1>3

(* Handling one received line keeps the link's types. *)
LEMMA IncomingTypes ==
  ASSUME TypeOK, toWd # <<>>, DvsHandleIncomingMessage(Head(toWd), Tail(toWd))
  PROVE  toIda' \in Seq(IdaMsg) /\ toWd' \in Seq(WdMsg)
  <1> DEFINE m == Head(toWd)
  <1>1. m \in WdMsg /\ Tail(toWd) \in Seq(WdMsg)
    BY TailElements DEF TypeOK, LinkTypeOK
  <1>2. CASE m.type = "logged" /\ toWd' = Tail(toWd) /\ UNCHANGED toIda
    BY <1>1, <1>2 DEF TypeOK, LinkTypeOK
  <1>3. CASE m.type = "reg_request" /\ DvsHandleRegRequest(m, Tail(toWd))
    <2>1. m \in RegRequestMsg
      BY <1>1, <1>3 DEF WdMsg, RegRequestMsg, MemRequestMsg, LoggedMsg
    <2>2. ASSUME NEW got \in SUBSET m.regs PROVE RegAnswer(m, got) \in IdaMsg
      BY <2>1, <2>2 DEF RegAnswer, RegRequestMsg, IdaMsg, RegResponseMsg, TypeOK, WdTypeOK
    <2>3. CASE \E got \in SUBSET m.regs : SendToIda(RegAnswer(m, got), Tail(toWd))
      BY <2>3, <2>2, <1>1, SendToIdaTypes DEF TypeOK
    <2>4. CASE toWd' = Tail(toWd) /\ UNCHANGED toIda
      BY <1>1, <2>4 DEF TypeOK, LinkTypeOK
    <2>5. QED
      BY <1>3, <2>3, <2>4 DEF DvsHandleRegRequest
  <1>4. CASE m.type = "mem_request" /\ DvsHandleMemRequest(m, Tail(toWd))
    <2>1. m \in MemRequestMsg
      BY <1>1, <1>4 DEF WdMsg, RegRequestMsg, MemRequestMsg, LoggedMsg
    <2>2. ASSUME NEW readable \in BOOLEAN PROVE MemAnswer(m, readable) \in IdaMsg
      BY <2>1, <2>2 DEF MemAnswer, MemRequestMsg, IdaMsg, MemResponseMsg, TypeOK, WdTypeOK
    <2>3. \E readable \in BOOLEAN : SendToIda(MemAnswer(m, readable), Tail(toWd))
      BY <1>4 DEF DvsHandleMemRequest
    <2>4. QED
      BY <2>3, <2>2, <1>1, SendToIdaTypes DEF TypeOK
  <1>5. QED
    BY <1>2, <1>3, <1>4 DEF DvsHandleIncomingMessage

StepType == [pending : BOOLEAN, in_progress : BOOLEAN, remaining : Nat]

(* The globals of a step sequence keep their types, begun, ended or going on. *)
LEMMA StepTypes ==
  /\ NoStep \in StepType
  /\ \A s \in StepType :
       /\ [s EXCEPT !.in_progress = FALSE] \in StepType
       /\ s.remaining > 0 => [s EXCEPT !.in_progress = TRUE, !.remaining = @ - 1] \in StepType
       /\ s.remaining > 0 /\ DvsInitiateNextPendingStep(s) =>
            step' \in StepType /\ target' \in {"stopped", "running"}
  <1>1. NoStep \in StepType
    BY DEF NoStep, StepType
  <1>2. ASSUME NEW s \in StepType
        PROVE  [s EXCEPT !.in_progress = FALSE] \in StepType
    BY DEF StepType
  <1>3. ASSUME NEW s \in StepType, s.remaining > 0
        PROVE  [s EXCEPT !.in_progress = TRUE, !.remaining = @ - 1] \in StepType
    <2>1. s.remaining - 1 \in Nat
      BY <1>3 DEF StepType
    <2>2. ASSUME NEW n \in Nat
          PROVE  [s EXCEPT !.in_progress = TRUE, !.remaining = n] \in StepType
      BY <1>3 DEF StepType
    <2>3. QED
      BY <2>1, <2>2
  <1>4. QED
    BY <1>1, <1>2, <1>3 DEF DvsInitiateNextPendingStep, DvsClearPendingStep

(* Every step of the extension keeps its types and the link's. *)
LEMMA WdTypes ==
  ASSUME TypeOK, WdNext
  PROVE  LinkTypeOK' /\ WdTypeOK'
  <1> USE DEF TypeOK, LinkTypeOK, WdTypeOK
  <1>0. <<>> \in Seq(WdMsg) /\ <<Logged>> \in Seq(WdMsg)
    BY EmptySeq DEF Logged, LoggedMsg, WdMsg
  <1>a. NoStep \in StepType /\ step \in StepType
    BY StepTypes DEF StepType
  <1>b. step' \in StepType =>
          step' \in [pending : BOOLEAN, in_progress : BOOLEAN, remaining : Nat]
    BY DEF StepType
  <1>1. CASE dvs_connect
    BY <1>0, <1>1 DEF dvs_connect, DvsSocketDisconnect, wdVars
  <1>2. CASE dvs_disconnect
    BY <1>0, <1>a, <1>b, <1>2 DEF dvs_disconnect, DvsClearPendingStep, DvsSocketDisconnect
  <1>3. CASE Reload
    <2>1. loads' \in Nat /\ next_pc_seq' \in Nat \ {0}
      BY <1>3 DEF Reload
    <2>2. QED
      BY <1>0, <1>a, <1>b, <1>3, <2>1 DEF Reload, DvsClearPendingStep, DvsSocketDisconnect
  <1>4. CASE dvs_pc
    <2>1. /\ toIda' \in Seq(IdaMsg) /\ toWd' \in Seq(WdMsg) /\ wdUp' \in BOOLEAN
          /\ next_pc_seq' \in Nat \ {0} /\ reportedAt' \in Nat
          /\ pump' \in [left : Nat, caller : {"none", "command", "step"}]
      BY <1>4, PcUpdateTypes DEF dvs_pc
    <2>2. blind' \in Nat
      BY <1>4 DEF dvs_pc, PcUpdateSent
    <2>3. QED
      BY <1>4, <2>1, <2>2 DEF dvs_pc
  <1>5. CASE \E n \in 1 .. PumpMax : dvs_poll(n)
    BY <1>5, WinDbgAssumption DEF dvs_poll, linkVars
  <1>6. CASE \E n \in 1 .. MaxCount : dvs_step(n)
    <2>1. PICK n \in 1 .. MaxCount : dvs_step(n)
      BY <1>6
    <2>2. [pending |-> TRUE, in_progress |-> FALSE, remaining |-> n] \in StepType
      BY WinDbgAssumption DEF StepType
    <2>a. [pending |-> TRUE, in_progress |-> FALSE, remaining |-> n].remaining > 0
      BY WinDbgAssumption
    <2>3. step' \in StepType /\ target' \in {"stopped", "running"}
      BY <2>1, <2>2, <2>a, StepTypes DEF dvs_step
    <2>4. QED
      BY <1>b, <2>1, <2>3 DEF dvs_step, linkVars
  <1>7. CASE PumpReceive
    <2>1. toIda' \in Seq(IdaMsg) /\ toWd' \in Seq(WdMsg)
      BY <1>7, IncomingTypes DEF PumpReceive
    <2>2. pump' \in [left : Nat, caller : {"none", "command", "step"}]
      <3>1. pump.left - 1 \in Nat
        BY <1>7 DEF PumpReceive
      <3>2. ASSUME NEW n \in Nat
            PROVE  [pump EXCEPT !.left = n]
                      \in [left : Nat, caller : {"none", "command", "step"}]
        OBVIOUS
      <3>3. QED
        BY <1>7, <3>1, <3>2 DEF PumpReceive
    <2>3. QED
      BY <1>7, <2>1, <2>2 DEF PumpReceive
  <1>8. CASE PumpLost
    BY <1>8, DropTypes DEF PumpLost
  <1>9. CASE PumpReturn
    <2>1. step' \in StepType /\ target' \in {"stopped", "running", "notify"}
      BY <1>9, <1>a, StepTypes DEF PumpReturn, DvsClearPendingStep
    <2>2. QED
      BY <1>9, <1>b, <2>1 DEF PumpReturn, NoPump, linkVars
  <1>10. CASE DvsHandlePostStepAccessible
    <2>1. \/ PcUpdateSent("step") \/ PcUpdateNotSent \/ PcUpdateLost
          \/ UNCHANGED <<next_pc_seq, pump, reportedAt, toIda, toWd, wdUp>>
      BY <1>10 DEF DvsHandlePostStepAccessible
    <2>2. /\ toIda' \in Seq(IdaMsg) /\ toWd' \in Seq(WdMsg) /\ wdUp' \in BOOLEAN
          /\ next_pc_seq' \in Nat \ {0} /\ reportedAt' \in Nat
          /\ pump' \in [left : Nat, caller : {"none", "command", "step"}]
      BY <2>1, PcUpdateTypes
    <2>3. step' \in StepType
      BY <1>10, <1>a, StepTypes DEF DvsHandlePostStepAccessible, DvsClearPendingStep
    <2>4. blind' \in Nat
      BY <1>10 DEF DvsHandlePostStepAccessible, PcUpdateSent
    <2>5. QED
      BY <1>10, <1>b, <2>2, <2>3, <2>4 DEF DvsHandlePostStepAccessible
  <1>11. CASE TargetStops
    BY <1>11 DEF TargetStops, linkVars
  <1>12. CASE NotifyInactive
    BY <1>12, <1>a, <1>b DEF NotifyInactive, DvsClearPendingStep, linkVars
  <1>13. CASE NativeGo
    BY <1>13 DEF NativeGo, linkVars
  <1>14. QED
    BY <1>1, <1>2, <1>3, <1>4, <1>5, <1>6, <1>7, <1>8, <1>9, <1>10, <1>11,
       <1>12, <1>13 DEF WdNext, WdCommand, WdPump

(* The helpers of DayVarCore keep rows, pending requests and messages typed. *)
LEMMA PlannedRowTypes ==
  ASSUME CoreTypeOK, NEW f \in Funcs, NEW l \in Locs, NEW v \in Lvars
  PROVE  PlannedRow(f, l, v) \in Row
  <1>1. NoValue \in Value
    BY DEF NoValue, Value
  <1>2. Prior(f, v) \in Value
    <2> DEFINE same == {u \in DOMAIN rows : Name[u] = Name[v]}
    <2>1. same # {} => (CHOOSE u \in same : TRUE) \in same
      OBVIOUS
    <2>2. \A u \in DOMAIN rows : rows[u].value \in Value
      BY DEF CoreTypeOK, Row
    <2>3. QED
      BY <1>1, <2>1, <2>2 DEF Prior
  <1>3. QED
    BY <1>1, <1>2 DEF PlannedRow, Row, Statuses

LEMMA RegRowTypes ==
  ASSUME CoreTypeOK, NEW m \in RegResponseMsg, NEW v \in DOMAIN rows
  PROVE  RegRow(m, v) \in Row
  <1>1. v \in Lvars /\ rows[v] \in Row
    BY DEF CoreTypeOK
  <1>2. Failed(rows[v]) \in Row
    BY <1>1 DEF Failed, Row, Statuses
  <1>3. ArgHome[v] \in Regs => RegValue(ArgHome[v], m.at) \in Value
    BY LocsAssumption DEF RegValue, Value, RegResponseMsg
  <1>4. QED
    BY <1>1, <1>2, <1>3 DEF RegRow, Row, Statuses

LEMMA MemRowTypes ==
  ASSUME CoreTypeOK, NEW m \in MemResponseMsg, NEW v \in DOMAIN rows
  PROVE  MemRow(m, v) \in Row /\ MemValue(m.addr, m.at) \in Value
  <1>1. v \in Lvars /\ rows[v] \in Row
    BY DEF CoreTypeOK
  <1>2. Failed(rows[v]) \in Row
    BY <1>1 DEF Failed, Row, Statuses
  <1>3. MemValue(m.addr, m.at) \in Value
    BY DEF MemValue, Value, MemResponseMsg, Addr
  <1>4. QED
    BY <1>1, <1>2, <1>3 DEF MemRow, Row, Statuses

(* The stack arguments' requests and pending entries. *)
LEMMA StackTypes ==
  ASSUME CoreTypeOK, NEW m \in RegResponseMsg
  PROVE  /\ StackEntries(m) \subseteq PendingRequest
         /\ MemRequests(m) \in Seq(WdMsg)
  <1> DEFINE args == SetToSeq(StackArgs(planned.func))
  <1>1. StackArgs(planned.func) \in SUBSET Lvars
    BY LvarsAssumption DEF StackArgs, CoreTypeOK
  <1>2. /\ \A i \in DOMAIN args : args[i] \in Lvars
        /\ DOMAIN args = 1 .. Cardinality(StackArgs(planned.func))
        /\ Cardinality(StackArgs(planned.func)) \in Nat
    BY <1>1, ListOfSet
  <1>3. ASSUME NEW v \in Lvars
        PROVE  StackRid(v) \in Rid /\ StackAddr(m, v) \in Addr
    BY <1>3, LocsAssumption, LvarsAssumption
       DEF StackRid, StackAddr, Rid, RidKinds, Labels, Addr, CoreTypeOK, PcContext,
           RegResponseMsg
  <1>4. StackEntries(m) \subseteq PendingRequest
    BY <1>2, <1>3 DEF StackEntries, PendingRequest
  <1>5. \A i \in DOMAIN args : StackRequests(m)[i] \in WdMsg
    BY <1>2, <1>3 DEF StackRequests, WdMsg, MemRequestMsg, CoreTypeOK, PcContext
  <1>6. StackRequests(m) \in Seq(WdMsg)
    <2>1. StackRequests(m) \in [1 .. Cardinality(StackArgs(planned.func)) -> WdMsg]
      BY <1>2, <1>5 DEF StackRequests
    <2>2. QED
      BY <1>2, <2>1
  <1>7. QED
    BY <1>4, <1>6, EmptySeq DEF MemRequests

(* The helpers of VRecovery keep records, history and messages typed. *)
LEMMA HistoryTypes ==
  ASSUME VTypeOK, NEW v
  PROVE  LastOf(v) \in Value
  <1>1. NoValue \in Value
    BY DEF NoValue, Value
  <1>2. v \in DOMAIN history => history[v].value \in Value
    BY DEF VTypeOK
  <1>3. QED
    BY <1>1, <1>2 DEF LastOf

LEMMA RememberTypes ==
  ASSUME VTypeOK, NEW fresh \in SUBSET Lvars, NEW value, NEW seq \in Nat,
         \A v \in fresh : value[v] \in Value,
         Remember(fresh, value, seq)
  PROVE  /\ DOMAIN history' \subseteq Lvars
         /\ history' \in [DOMAIN history' -> [value : Value, seq : Nat]]
  <1> DEFINE all == [v \in DOMAIN history \cup fresh |->
                       IF v \in fresh THEN [value |-> value[v], seq |-> seq]
                       ELSE history[v]]
  <1>1. DOMAIN all \subseteq Lvars
    BY DEF VTypeOK
  <1>2. \A v \in DOMAIN all : all[v] \in [value : Value, seq : Nat]
    BY DEF VTypeOK
  <1>3. PICK kept \in SUBSET DOMAIN all : history' = [v \in kept |-> all[v]]
    BY DEF Remember
  <1> HIDE DEF all
  <1>4. QED
    BY <1>1, <1>2, <1>3

LEMMA NewRecordTypes ==
  ASSUME VTypeOK, NEW l \in Locs, NEW v \in Lvars, NEW selected
  PROVE  NewRecord(l, v, selected) \in Record /\ NotAnalysed(v) \in Record
  <1>1. /\ NoValue \in Value /\ ConstantValue \in Value /\ LastOf(v) \in Value
    BY HistoryTypes DEF NoValue, ConstantValue, Value
  <1>2. HomeAt(l, v, selected) \in Homes \cup {"none", "constant"}
    BY LvarsAssumption DEF HomeAt
  <1>3. QED
    BY <1>1, <1>2 DEF NewRecord, NotAnalysed, StaleOrNone, FreshRecord, Record, Statuses

LEMMA VRegRecordTypes ==
  ASSUME VTypeOK, NEW m \in RegResponseMsg, NEW v \in DOMAIN records
  PROVE  /\ VRegRecord(m, v) \in Record
         /\ v \in InRegister(m) => RegValue(records[v].home, m.at) \in Value
  <1>1. records[v] \in Record
    BY DEF VTypeOK
  <1>2. v \in InRegister(m) => RegValue(records[v].home, m.at) \in Value
    BY DEF InRegister, RegResponseMsg, RegValue, Value
  <1>3. NoValue \in Value
    BY DEF NoValue, Value
  <1>4. ErrorRecord(records[v]) \in Record
    BY <1>1, <1>3 DEF ErrorRecord, Record, Statuses
  <1>5. QED
    BY <1>1, <1>2, <1>4 DEF VRegRecord, FreshRecord, Record, Statuses

LEMMA VMemRecordTypes ==
  ASSUME VTypeOK, NEW m \in MemResponseMsg, NEW v \in DOMAIN records
  PROVE  VMemRecord(m, v) \in Record /\ MemValue(m.addr, m.at) \in Value
  <1>1. records[v] \in Record
    BY DEF VTypeOK
  <1>2. MemValue(m.addr, m.at) \in Value
    BY DEF MemValue, Value, MemResponseMsg, Addr
  <1>3. NoValue \in Value
    BY DEF NoValue, Value
  <1>4. ErrorRecord(records[v]) \in Record
    BY <1>1, <1>3 DEF ErrorRecord, Record, Statuses
  <1>5. QED
    BY <1>1, <1>2, <1>4 DEF VMemRecord, FreshRecord, Record, Statuses

(* The stack locals' requests and pending entries. *)
LEMMA VStackTypes ==
  ASSUME VTypeOK, NEW m \in RegResponseMsg
  PROVE  /\ \A v \in OnStack(m) : [rid |-> VMemRid(v), addr |-> VStackAddr(m, v)]
                                     \in [rid : Rid, addr : Addr]
         /\ VMemRequests(m) \in Seq(WdMsg)
  <1> DEFINE asked == SetToSeq(OnStack(m))
  <1>1. OnStack(m) \in SUBSET Lvars
    BY DEF OnStack, Asked, VTypeOK
  <1>2. /\ \A i \in DOMAIN asked : asked[i] \in Lvars
        /\ DOMAIN asked = 1 .. Cardinality(OnStack(m))
        /\ Cardinality(OnStack(m)) \in Nat
    BY <1>1, ListOfSet
  <1>3. ASSUME NEW v \in Lvars
        PROVE  VMemRid(v) \in Rid /\ VStackAddr(m, v) \in Addr
    BY <1>3 DEF VMemRid, VStackAddr, Rid, RidKinds, Labels, Addr, VTypeOK, RegResponseMsg
  <1>4. \A i \in DOMAIN asked : VMemRequests(m)[i] \in WdMsg
    BY <1>2, <1>3 DEF VMemRequests, WdMsg, MemRequestMsg, VTypeOK
  <1>5. VMemRequests(m) \in [1 .. Cardinality(OnStack(m)) -> WdMsg]
    BY <1>2, <1>4 DEF VMemRequests
  <1>6. QED
    BY <1>1, <1>2, <1>3, <1>5

LEMMA RidTypes ==
  ASSUME NEW seq \in Nat
  PROVE  EntryRid(seq) \in Rid /\ VRegRid(seq) \in Rid /\ NoAddr \in Addr
  BY DEF EntryRid, VRegRid, Rid, RidKinds, Labels, NoAddr, Addr

(* The register requests sent for a new PC. *)
LEMMA RequestTypes ==
  ASSUME NEW seq \in Nat, NEW l \in Locs, NEW selected
  PROVE  /\ <<Logged>> \in Seq(WdMsg)
         /\ EntryRequest(seq, l) \in Seq(WdMsg)
         /\ VRequest(seq, l, selected) \in Seq(WdMsg)
  <1>1. EntryRid(seq) \in Rid /\ VRegRid(seq) \in Rid
    BY RidTypes
  <1>2. \A home \in Homes : Needs(home) \in Regs
    BY LocsAssumption DEF Needs, Homes
  <1>3. EntryRegs(FuncOf[l]) \subseteq Regs
    <2>1. \A v \in RegArgs(FuncOf[l]) \cup StackArgs(FuncOf[l]) : ArgHome[v] \in Homes
      BY LocsAssumption, LvarsAssumption DEF RegArgs, StackArgs, Homes
    <2>2. QED
      BY <1>2, <2>1 DEF EntryRegs
  <1>4. VRegs(l, selected) \subseteq Regs
    BY <1>2 DEF VRegs, Runtime
  <1>5. Logged \in WdMsg
    BY DEF Logged, LoggedMsg, WdMsg
  <1>6. [type |-> "reg_request", seq |-> seq, rid |-> EntryRid(seq), loc |-> l,
         regs |-> EntryRegs(FuncOf[l])] \in WdMsg
    BY <1>1, <1>3 DEF WdMsg, RegRequestMsg
  <1>7. [type |-> "reg_request", seq |-> seq, rid |-> VRegRid(seq), loc |-> l,
         regs |-> VRegs(l, selected)] \in WdMsg
    BY <1>1, <1>4 DEF WdMsg, RegRequestMsg
  <1>8. \A m \in WdMsg : <<m>> \in Seq(WdMsg)
    OBVIOUS
  <1>9. QED
    BY <1>1, <1>5, <1>6, <1>7, <1>8, EmptySeq DEF EntryRequest, VRequest

(* Taking a message off the queue, and sending to the extension. *)
LEMMA ReceivedTypes ==
  ASSUME LinkTypeOK, NEW type, Received(type)
  PROVE  /\ toIda' \in Seq(IdaMsg) /\ wdUp' \in BOOLEAN /\ idaUp' \in BOOLEAN
         /\ type = "pc_update" => Head(toIda) \in PcUpdateMsg
         /\ type = "reg_response" => Head(toIda) \in RegResponseMsg
         /\ type = "mem_response" => Head(toIda) \in MemResponseMsg
  <1>1. Head(toIda) \in IdaMsg /\ Tail(toIda) \in Seq(IdaMsg)
    BY TailElements DEF LinkTypeOK, Received
  <1>2. QED
    BY <1>1 DEF Received, LinkTypeOK, IdaMsg, PcUpdateMsg, RegResponseMsg, MemResponseMsg

LEMMA SendToWdTypes ==
  ASSUME LinkTypeOK, NEW ms \in Seq(WdMsg), SendToWd(ms)
  PROVE  toWd' \in Seq(WdMsg)
  <1>1. toWd \o ms \in Seq(WdMsg)
    BY ConcatElements DEF LinkTypeOK
  <1>2. QED
    BY <1>1 DEF SendToWd, LinkTypeOK

ViewTypeOK ==
  /\ DOMAIN view.rows \subseteq Lvars
  /\ view \in [rows : [DOMAIN view.rows -> Row], seq : Nat, loc : Locs, at : Nat]

(* A published table is typed when the rows and the records are. *)
LEMMA PublishTypes ==
  ASSUME CoreTypeOK', VTypeOK', PublishRows
  PROVE  ViewTypeOK'
  <1> DEFINE rs == Overlay(rows', records')
  <1>1. DOMAIN rs = DOMAIN rows' /\ DOMAIN rows' \subseteq Lvars
    BY DEF Overlay, CoreTypeOK
  <1>2. \A v \in DOMAIN rs : rs[v] \in Row
    BY DEF Overlay, CoreTypeOK, VTypeOK, Row, Record
  <1>3. rs \in [DOMAIN rs -> Row]
    BY <1>1, <1>2 DEF Overlay
  <1>4. current_pc' \in PcContext
    BY DEF CoreTypeOK
  <1>5. view' = [rows |-> rs, seq |-> current_pc'.seq, loc |-> current_pc'.loc,
                 at |-> current_pc'.at]
    BY DEF PublishRows, Show
  <1> HIDE DEF rs
  <1>6. QED
    BY <1>1, <1>3, <1>4, <1>5 DEF ViewTypeOK, PcContext

(* A pc_update, however it ends, keeps every type. *)
LEMMA PcUpdateHandlerTypes ==
  ASSUME TypeOK, MappingFailed \/ EnumerationFailed \/ PcUpdateHandled
  PROVE  LinkTypeOK' /\ PluginTypeOK'
  <1> DEFINE m == Head(toIda)
             f == FuncOf[m.loc]
  <1>1. Received("pc_update")
    BY DEF MappingFailed, EnumerationFailed, PcUpdateHandled
  <1>2. /\ toIda' \in Seq(IdaMsg) /\ wdUp' \in BOOLEAN /\ idaUp' \in BOOLEAN
        /\ m \in PcUpdateMsg
    BY <1>1, ReceivedTypes DEF TypeOK
  <1>3. m.seq \in Nat /\ m.loc \in Locs /\ m.at \in Nat /\ f \in Funcs
    BY <1>2, LocsAssumption DEF PcUpdateMsg
  <1>4. [seq |-> m.seq, loc |-> m.loc, at |-> m.at] \in PcContext
    BY <1>3 DEF PcContext
  <1> HIDE DEF m
  <1>5. CASE MappingFailed \/ EnumerationFailed
    <2>1. /\ current_pc' = [seq |-> m.seq, loc |-> m.loc, at |-> m.at]
          /\ pending_requests' = {} /\ UNCHANGED <<rows, planned>>
          /\ v_context' = [seq |-> m.seq, loc |-> m.loc, at |-> m.at]
          /\ v_pending' = {} /\ records' = NoRecords /\ UNCHANGED history
          /\ SendToWd(<<Logged>>)
      BY <1>5 DEF MappingFailed, EnumerationFailed, start_pc_context, invalidate_pc,
                  StartContext, m
    <2>2. CoreTypeOK'
      BY <1>4, <2>1 DEF CoreTypeOK, TypeOK, PluginTypeOK
    <2>3. VTypeOK'
      BY <1>4, <2>1 DEF VTypeOK, TypeOK, PluginTypeOK, NoRecords, PcContext
    <2>4. ViewTypeOK'
      <3>1. CASE MappingFailed
        BY <3>1 DEF MappingFailed, ViewTypeOK, TypeOK, PluginTypeOK
      <3>2. CASE EnumerationFailed
        <4>1. view' = [rows |-> [v \in {} |-> NoValue], seq |-> m.seq, loc |-> m.loc,
                       at |-> m.at]
          BY <2>1, <3>2 DEF EnumerationFailed, Show
        <4>2. QED
          BY <1>3, <4>1 DEF ViewTypeOK
      <3>3. QED
        BY <1>5, <3>1, <3>2
    <2>5. toWd' \in Seq(WdMsg)
      BY <1>3, <2>1, RequestTypes, SendToWdTypes DEF TypeOK
    <2>6. QED
      BY <1>2, <2>2, <2>3, <2>4, <2>5 DEF LinkTypeOK, PluginTypeOK, ViewTypeOK
  <1>6. CASE PcUpdateHandled
    <2>1. build_entry_plan(m.seq, m.loc, m.at) /\ PublishRows
      BY <1>6 DEF PcUpdateHandled, m
    <2>2. LvarsOf[f] \subseteq Lvars
      BY <1>3, LvarsAssumption
    <2>3. CoreTypeOK'
      <3>1. rows' \in [LvarsOf[f] -> Row]
        <4>1. \A v \in LvarsOf[f] : PlannedRow(f, m.loc, v) \in Row
          BY <1>3, <2>2, PlannedRowTypes DEF TypeOK, PluginTypeOK
        <4>2. QED
          BY <2>1, <4>1 DEF build_entry_plan
      <3>2. pending_requests' \in SUBSET PendingRequest
        BY <1>3, <2>1, RidTypes DEF build_entry_plan, PendingRequest
      <3>3. QED
        BY <1>3, <1>4, <2>1, <2>2, <3>1, <3>2 DEF build_entry_plan, CoreTypeOK
    <2>4. VTypeOK' /\ toWd' \in Seq(WdMsg)
      <3>1. Locals(f) \subseteq Lvars
        BY <2>2 DEF Locals
      <3>2. CASE \E selected \in SUBSET Locals(f) :
                   /\ begin_pc(m.seq, m.loc, m.at, selected)
                   /\ SendToWd(<<Logged>> \o EntryRequest(m.seq, m.loc)
                                          \o VRequest(m.seq, m.loc, selected))
        <4>1. PICK selected \in SUBSET Locals(f) :
                   /\ begin_pc(m.seq, m.loc, m.at, selected)
                   /\ SendToWd(<<Logged>> \o EntryRequest(m.seq, m.loc)
                                          \o VRequest(m.seq, m.loc, selected))
          BY <3>2
        <4> DEFINE constant == {v \in Locals(f) : HomeAt(m.loc, v, selected) = "constant"}
        <4>2. /\ v_context' = [seq |-> m.seq, loc |-> m.loc, at |-> m.at]
              /\ records' = [v \in Locals(f) |-> NewRecord(m.loc, v, selected)]
              /\ v_pending' \in {{}, {[rid |-> VRegRid(m.seq), addr |-> NoAddr]}}
              /\ Remember(constant, [v \in constant |-> ConstantValue], m.seq)
          BY <4>1 DEF begin_pc, StartContext
        <4>3. records' \in [Locals(f) -> Record]
          <5>1. \A v \in Locals(f) : NewRecord(m.loc, v, selected) \in Record
            BY <1>3, <3>1, NewRecordTypes DEF TypeOK, PluginTypeOK
          <5>2. QED
            BY <4>2, <5>1
        <4>4. v_pending' \in SUBSET [rid : Rid, addr : Addr]
          BY <1>3, <4>2, RidTypes
        <4>5. /\ DOMAIN history' \subseteq Lvars
              /\ history' \in [DOMAIN history' -> [value : Value, seq : Nat]]
          <5>1. ConstantValue \in Value
            BY DEF ConstantValue, Value
          <5>2. constant \in SUBSET Lvars
            BY <3>1
          <5>3. \A v \in constant : [u \in constant |-> ConstantValue][v] \in Value
            BY <5>1
          <5>4. QED
            BY <1>3, <4>2, <5>2, <5>3, RememberTypes DEF TypeOK, PluginTypeOK
        <4>6. VTypeOK'
          BY <1>4, <3>1, <4>2, <4>3, <4>4, <4>5 DEF VTypeOK, PcContext
        <4>7. <<Logged>> \o EntryRequest(m.seq, m.loc) \o VRequest(m.seq, m.loc, selected)
                \in Seq(WdMsg)
          BY <1>3, RequestTypes, ConcatElements
        <4>8. QED
          BY <4>1, <4>6, <4>7, SendToWdTypes DEF TypeOK
      <3>3. CASE /\ \/ begin_pc_unanalysed(m.seq, m.loc, m.at)
                    \/ invalidate_pc(m.seq, m.loc, m.at)
                 /\ SendToWd(<<Logged>> \o EntryRequest(m.seq, m.loc))
        <4>1. <<Logged>> \o EntryRequest(m.seq, m.loc) \in Seq(WdMsg)
          BY <1>3, RequestTypes, ConcatElements
        <4>2. toWd' \in Seq(WdMsg)
          BY <3>3, <4>1, SendToWdTypes DEF TypeOK
        <4>3. /\ v_context' = [seq |-> m.seq, loc |-> m.loc, at |-> m.at]
              /\ v_pending' = {} /\ UNCHANGED history
              /\ \/ records' = NoRecords
                 \/ records' = [v \in Locals(f) |-> NotAnalysed(v)]
          BY <3>3 DEF begin_pc_unanalysed, invalidate_pc, StartContext
        <4>4. \A v \in Locals(f) : NotAnalysed(v) \in Record
          BY <1>3, <3>1, NewRecordTypes DEF TypeOK, PluginTypeOK
        <4>5. DOMAIN records' \subseteq Lvars /\ records' \in [DOMAIN records' -> Record]
          BY <3>1, <4>3, <4>4 DEF NoRecords
        <4>6. QED
          BY <1>4, <4>2, <4>3, <4>5 DEF VTypeOK, TypeOK, PluginTypeOK, PcContext
      <3>4. QED
        BY <1>6, <3>2, <3>3 DEF PcUpdateHandled, m
    <2>5. ViewTypeOK'
      BY <2>1, <2>3, <2>4, PublishTypes
    <2>6. QED
      BY <1>2, <2>3, <2>4, <2>5 DEF LinkTypeOK, PluginTypeOK, ViewTypeOK
  <1>7. QED
    BY <1>5, <1>6

(* A register response that is accepted keeps every type. *)
LEMMA RegResponseTypes ==
  ASSUME TypeOK, RegResponseForArgs \/ RegResponseForLocals
  PROVE  LinkTypeOK' /\ PluginTypeOK'
  <1> DEFINE m == Head(toIda)
  <1>1. Received("reg_response")
    BY DEF RegResponseForArgs, RegResponseForLocals
  <1>2. /\ toIda' \in Seq(IdaMsg) /\ wdUp' \in BOOLEAN /\ idaUp' \in BOOLEAN
        /\ m \in RegResponseMsg
    BY <1>1, ReceivedTypes DEF TypeOK
  <1>3. CoreTypeOK /\ VTypeOK /\ LinkTypeOK
    BY DEF TypeOK, PluginTypeOK
  <1> HIDE DEF m
  <1>4. CASE RegResponseForArgs
    <2>1. apply_reg_response(m) /\ UNCHANGED vVars /\ PublishRows /\ SendToWd(MemRequests(m))
      BY <1>4 DEF RegResponseForArgs, m
    <2>2. CoreTypeOK'
      <3>1. rows' \in [DOMAIN rows -> Row]
        <4>1. \A v \in DOMAIN rows : RegRow(m, v) \in Row
          BY <1>2, <1>3, RegRowTypes
        <4>2. QED
          BY <2>1, <4>1 DEF apply_reg_response
      <3>2. pending_requests' \in SUBSET PendingRequest
        <4>1. StackEntries(m) \subseteq PendingRequest
          BY <1>2, <1>3, StackTypes
        <4>2. QED
          BY <2>1, <4>1, <1>3 DEF apply_reg_response, CoreTypeOK
      <3>3. QED
        BY <1>3, <2>1, <3>1, <3>2 DEF apply_reg_response, CoreTypeOK
    <2>3. VTypeOK'
      BY <1>3, <2>1 DEF VTypeOK, vVars
    <2>4. toWd' \in Seq(WdMsg)
      BY <1>2, <1>3, <2>1, StackTypes, SendToWdTypes
    <2>5. ViewTypeOK'
      BY <2>1, <2>2, <2>3, PublishTypes
    <2>6. QED
      BY <1>2, <2>2, <2>3, <2>4, <2>5 DEF LinkTypeOK, PluginTypeOK, ViewTypeOK
  <1>5. CASE RegResponseForLocals
    <2>1. /\ v_apply_reg_response(m) /\ UNCHANGED coreVars /\ PublishRows
          /\ SendToWd(VMemRequests(m))
      BY <1>5 DEF RegResponseForLocals, m
    <2>2. CoreTypeOK'
      BY <1>3, <2>1 DEF CoreTypeOK, coreVars
    <2>3. VTypeOK'
      <3>1. records' \in [DOMAIN records -> Record]
        <4>1. \A v \in DOMAIN records : VRegRecord(m, v) \in Record
          BY <1>2, <1>3, VRegRecordTypes
        <4>2. QED
          BY <2>1, <4>1 DEF v_apply_reg_response
      <3>2. v_pending' \in SUBSET [rid : Rid, addr : Addr]
        <4>1. \A v \in OnStack(m) : [rid |-> VMemRid(v), addr |-> VStackAddr(m, v)]
                                     \in [rid : Rid, addr : Addr]
          BY <1>2, <1>3, VStackTypes
        <4>2. QED
          BY <2>1, <4>1, <1>3 DEF v_apply_reg_response, VTypeOK
      <3>3. /\ DOMAIN history' \subseteq Lvars
            /\ history' \in [DOMAIN history' -> [value : Value, seq : Nat]]
        <4>1. InRegister(m) \in SUBSET Lvars /\ InRegister(m) \subseteq DOMAIN records
          BY <1>3 DEF InRegister, Asked, VTypeOK
        <4>2. \A v \in InRegister(m) :
                [u \in InRegister(m) |-> RegValue(records[u].home, m.at)][v] \in Value
          BY <1>2, <1>3, <4>1, VRegRecordTypes
        <4>3. v_context.seq \in Nat
          BY <1>3 DEF VTypeOK
        <4>4. Remember(InRegister(m),
                [u \in InRegister(m) |-> RegValue(records[u].home, m.at)], v_context.seq)
          BY <2>1 DEF v_apply_reg_response
        <4>5. QED
          BY <1>3, <4>1, <4>2, <4>3, <4>4, RememberTypes
      <3>4. QED
        BY <1>3, <2>1, <3>1, <3>2, <3>3 DEF v_apply_reg_response, VTypeOK
    <2>4. toWd' \in Seq(WdMsg)
      BY <1>2, <1>3, <2>1, VStackTypes, SendToWdTypes
    <2>5. ViewTypeOK'
      BY <2>1, <2>2, <2>3, PublishTypes
    <2>6. QED
      BY <1>2, <2>2, <2>3, <2>4, <2>5 DEF LinkTypeOK, PluginTypeOK, ViewTypeOK
  <1>6. QED
    BY <1>4, <1>5

(* A memory response that is accepted keeps every type. *)
LEMMA MemResponseTypes ==
  ASSUME TypeOK, MemResponseForArgs \/ MemResponseForLocals
  PROVE  LinkTypeOK' /\ PluginTypeOK'
  <1> DEFINE m == Head(toIda)
  <1>1. Received("mem_response") /\ UNCHANGED toWd
    BY DEF MemResponseForArgs, MemResponseForLocals
  <1>2. /\ toIda' \in Seq(IdaMsg) /\ wdUp' \in BOOLEAN /\ idaUp' \in BOOLEAN
        /\ m \in MemResponseMsg
    BY <1>1, ReceivedTypes DEF TypeOK
  <1>3. CoreTypeOK /\ VTypeOK /\ LinkTypeOK
    BY DEF TypeOK, PluginTypeOK
  <1> HIDE DEF m
  <1>4. LinkTypeOK'
    BY <1>1, <1>2, <1>3 DEF LinkTypeOK
  <1>5. CASE MemResponseForArgs
    <2>1. apply_mem_response(m) /\ UNCHANGED vVars /\ PublishRows
      BY <1>5 DEF MemResponseForArgs, m
    <2>2. CoreTypeOK'
      <3>1. \A v \in DOMAIN rows : MemRow(m, v) \in Row
        BY <1>2, <1>3, MemRowTypes
      <3>2. QED
        BY <1>3, <2>1, <3>1 DEF apply_mem_response, CoreTypeOK
    <2>3. VTypeOK'
      BY <1>3, <2>1 DEF VTypeOK, vVars
    <2>4. QED
      BY <1>4, <2>1, <2>2, <2>3, PublishTypes DEF PluginTypeOK, ViewTypeOK
  <1>6. CASE MemResponseForLocals
    <2>1. v_apply_mem_response(m) /\ UNCHANGED coreVars /\ PublishRows
      BY <1>6 DEF MemResponseForLocals, m
    <2>2. CoreTypeOK'
      BY <1>3, <2>1 DEF CoreTypeOK, coreVars
    <2>3. VTypeOK'
      <3>1. \A v \in DOMAIN records : VMemRecord(m, v) \in Record
        BY <1>2, <1>3, VMemRecordTypes
      <3>2. records' \in [DOMAIN records -> Record]
        BY <2>1, <3>1 DEF v_apply_mem_response
      <3>3. /\ DOMAIN history' \subseteq Lvars
            /\ history' \in [DOMAIN history' -> [value : Value, seq : Nat]]
        <4>1. CASE ~m.ok
          BY <1>3, <2>1, <4>1 DEF v_apply_mem_response, VTypeOK
        <4>2. CASE m.ok
          <5>1. ReadFor(m) \in SUBSET Lvars /\ ReadFor(m) \subseteq DOMAIN records
            BY <1>3 DEF ReadFor, VTypeOK
          <5>2. \A v \in ReadFor(m) :
                  [u \in ReadFor(m) |-> MemValue(m.addr, m.at)][v] \in Value
            BY <1>2, <1>3, <5>1, VMemRecordTypes
          <5>3. v_context.seq \in Nat
            BY <1>3 DEF VTypeOK
          <5>4. Remember(ReadFor(m), [u \in ReadFor(m) |-> MemValue(m.addr, m.at)],
                         v_context.seq)
            BY <2>1, <4>2 DEF v_apply_mem_response
          <5>5. QED
            BY <1>3, <5>1, <5>2, <5>3, <5>4, RememberTypes
        <4>3. QED
          BY <4>1, <4>2
      <3>4. QED
        BY <1>3, <2>1, <3>2, <3>3 DEF v_apply_mem_response, VTypeOK
    <2>4. QED
      BY <1>4, <2>1, <2>2, <2>3, PublishTypes DEF PluginTypeOK, ViewTypeOK
  <1>7. QED
    BY <1>5, <1>6

(* Every step of the plugin keeps its types and the link's. *)
LEMMA PluginTypes ==
  ASSUME TypeOK, PluginNext \/ ConnectionLost
  PROVE  LinkTypeOK' /\ PluginTypeOK'
  <1>1. CASE MappingFailed \/ EnumerationFailed \/ PcUpdateHandled
    BY <1>1, PcUpdateHandlerTypes
  <1>2. CASE RegResponseForArgs \/ RegResponseForLocals
    BY <1>2, RegResponseTypes
  <1>3. CASE MemResponseForArgs \/ MemResponseForLocals
    BY <1>3, MemResponseTypes
  <1>4. CASE PcUpdateIgnored \/ ResponseIgnored
    <2>1. UNCHANGED <<toWd, pluginVars>> /\ \E t : Received(t)
      BY <1>4 DEF PcUpdateIgnored, ResponseIgnored
    <2>2. toIda' \in Seq(IdaMsg) /\ wdUp' \in BOOLEAN /\ idaUp' \in BOOLEAN
      BY <2>1, ReceivedTypes DEF TypeOK
    <2>3. QED
      BY <2>1, <2>2 DEF TypeOK, LinkTypeOK, PluginTypeOK, CoreTypeOK, VTypeOK,
                        pluginVars, coreVars, vVars
  <1>5. CASE connect
    BY <1>5 DEF connect, TypeOK, LinkTypeOK, PluginTypeOK, CoreTypeOK, VTypeOK,
                pluginVars, coreVars, vVars
  <1>6. CASE disconnect
    <2>1. toIda' \in Seq(IdaMsg) /\ idaUp' \in BOOLEAN
      BY <1>6, DropTypes DEF disconnect, TypeOK
    <2>2. CoreTypeOK'
      BY <1>6 DEF disconnect, core_disconnect, TypeOK, PluginTypeOK, CoreTypeOK
    <2>3. NoLoc \in Locs
      BY LocsAssumption DEF NoLoc
    <2>4. VTypeOK'
      BY <1>6, <2>3 DEF disconnect, clear_runtime_state, NoVContext, NoRecords, TypeOK,
                  PluginTypeOK, VTypeOK
    <2>5. QED
      BY <1>6, <2>1, <2>2, <2>4 DEF disconnect, TypeOK, LinkTypeOK, PluginTypeOK
  <1>7. CASE ConnectionLost
    <2>1. toIda' \in Seq(IdaMsg) /\ idaUp' \in BOOLEAN
      BY <1>7, DropTypes DEF ConnectionLost, TypeOK
    <2>2. QED
      BY <1>7, <2>1 DEF ConnectionLost, TypeOK, LinkTypeOK, PluginTypeOK, CoreTypeOK,
                        VTypeOK, pluginVars, coreVars, vVars
  <1>8. QED
    BY <1>1, <1>2, <1>3, <1>4, <1>5, <1>6, <1>7 DEF PluginNext, HandleMessage

(* The initial state is typed. *)
LEMMA InitTypes == Init => TypeOK
  <1> SUFFICES ASSUME Init PROVE TypeOK
    OBVIOUS
  <1>1. NoLoc \in Locs /\ FuncOf[NoLoc] \in Funcs
    BY LocsAssumption DEF NoLoc
  <1>2. LinkTypeOK
    BY EmptySeq DEF Init, LinkInit, LinkTypeOK
  <1>3. WdTypeOK
    BY DEF Init, WdInit, WdTypeOK, NoStep, NoPump
  <1>4. CoreTypeOK
    BY <1>1 DEF Init, PluginInit, CoreInit, CoreTypeOK, NoPc, PcContext
  <1>5. VTypeOK
    BY <1>1 DEF Init, PluginInit, VInit, VTypeOK, NoVContext, NoRecords
  <1>6. ViewTypeOK
    BY <1>1 DEF Init, PluginInit, CoreInit, ViewTypeOK
  <1>7. QED
    BY <1>2, <1>3, <1>4, <1>5, <1>6 DEF TypeOK, PluginTypeOK, ViewTypeOK

(* Every step of the loop is typed. *)
LEMMA NextTypes == TypeOK /\ [Next]_vars => TypeOK'
  <1> SUFFICES ASSUME TypeOK, [Next]_vars PROVE TypeOK'
    OBVIOUS
  <1>1. CASE WdStep
    <2>1. LinkTypeOK' /\ WdTypeOK'
      BY <1>1, WdTypes DEF WdStep
    <2>2. PluginTypeOK'
      BY <1>1 DEF WdStep, TypeOK, PluginTypeOK, CoreTypeOK, VTypeOK, pluginVars,
                  coreVars, vVars
    <2>3. QED
      BY <2>1, <2>2 DEF TypeOK
  <1>2. CASE IdaStep \/ IdaLost
    <2>1. LinkTypeOK' /\ PluginTypeOK'
      BY <1>2, PluginTypes DEF IdaStep, IdaLost
    <2>2. WdTypeOK'
      BY <1>2 DEF IdaStep, IdaLost, TypeOK, WdTypeOK, wdVars
    <2>3. QED
      BY <2>1, <2>2 DEF TypeOK
  <1>3. CASE UNCHANGED vars
    BY <1>3 DEF vars, linkVars, wdVars, pluginVars, coreVars, vVars, TypeOK, LinkTypeOK,
                WdTypeOK, PluginTypeOK, CoreTypeOK, VTypeOK
  <1>4. QED
    BY <1>1, <1>2, <1>3 DEF Next

(***************************************************************************)
(* Type correctness: in every reachable state, whatever mishaps are         *)
(* allowed, the queues hold well-formed messages, and the globals of        *)
(* dayvar.c and the fields of DayVarCore, VVariableRecovery and the table   *)
(* have their types.                                                        *)
(***************************************************************************)
THEOREM TypeCorrectness == Spec => []TypeOK
  BY InitTypes, NextTypes, PTL DEF Spec
=============================================================================
