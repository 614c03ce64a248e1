--------------------------- MODULE PluginEnvProofs ---------------------------
(***************************************************************************)
(* What the plugin guarantees whatever its peer sends: proofs about         *)
(* PluginEnv for every database and every set of messages of the protocol.  *)
(***************************************************************************)
EXTENDS PluginEnv, FiniteSetTheorems, SequenceTheorems, TLAPS

-----------------------------------------------------------------------------
(* Finite sets *)

(* The entries that a finite set of things leads to are finitely many. *)
LEMMA FiniteImage ==
  ASSUME NEW D, IsFiniteSet(D), NEW f, DOMAIN f = D, NEW T, T = {f[i] : i \in D}
  PROVE  IsFiniteSet(T)
  <1> DEFINE g == [i \in D |-> f[i]]
  <1>1. g \in Surjection(D, T)
    BY DEF Surjection
  <1> HIDE DEF g
  <1>2. QED
    BY <1>1, FS_Surjection

(* A finite set from which something is taken is smaller. *)
LEMMA TakenIsFewer ==
  ASSUME NEW S, IsFiniteSet(S), NEW T, T \subseteq S, T # S
  PROVE  Cardinality(T) < Cardinality(S)
  <1>1. T \in SUBSET S
    OBVIOUS
  <1>2. /\ IsFiniteSet(T) /\ Cardinality(T) <= Cardinality(S)
        /\ Cardinality(S) = Cardinality(T) => S = T
    BY <1>1, FS_Subset
  <1>3. Cardinality(S) \in Nat /\ Cardinality(T) \in Nat
    BY <1>2, FS_CardinalityType
  <1>4. QED
    BY <1>2, <1>3

(* The memory reads of stack arguments are finitely many. *)
LEMMA StackEntriesFinite ==
  ASSUME PendingInv, NEW m
  PROVE  /\ IsFiniteSet(StackEntries(m))
         /\ \A p \in StackEntries(m) : p.rid[1] = "mem"
  <1> DEFINE S == StackArgs(planned.func)
             args == SetToSeq(S)
             D == {k \in DOMAIN args : \A j \in DOMAIN args : Name[args[j]] = Name[args[k]] => j <= k}
             f == [i \in D |-> [rid |-> StackRid(args[i]), addr |-> StackAddr(m, args[i])]]
  <1>1. S \in SUBSET Lvars
    BY LvarsAssumption DEF StackArgs, PendingInv
  <1>2. IsFiniteSet(S)
    BY <1>1, LocsAssumption, FS_Subset
  <1>3. Cardinality(S) \in Nat /\ ExistsBijection(1 .. Cardinality(S), S)
    BY <1>2, FS_CardinalityType
  <1>4. PICK g : g \in Bijection(1 .. Cardinality(S), S)
    BY <1>3 DEF ExistsBijection
  <1>5. g \in [1 .. Cardinality(S) -> S] /\ IsInjective(g)
    BY <1>4 DEF Bijection, Injection, IsInjective
  <1>6. args \in [1 .. Cardinality(S) -> S]
    BY <1>5 DEF SetToSeq
  <1> HIDE DEF args
  <1>7. D \in SUBSET (1 .. Cardinality(S)) /\ IsFiniteSet(1 .. Cardinality(S))
    BY <1>3, <1>6, FS_Interval
  <1>8. IsFiniteSet(D)
    BY <1>7, FS_Subset
  <1>9. StackEntries(m) = {[rid |-> StackRid(args[i]), addr |-> StackAddr(m, args[i])] : i \in D}
    BY DEF StackEntries, args
  <1> HIDE DEF D
  <1>10. DOMAIN f = D /\ StackEntries(m) = {f[i] : i \in D}
    BY <1>9
  <1>11. \A p \in StackEntries(m) : p.rid[1] = "mem"
    BY <1>9 DEF StackRid
  <1> HIDE DEF f
  <1>12. QED
    BY <1>8, <1>10, <1>11, FiniteImage

(* So are those of locals. *)
LEMMA LocalReadsFinite ==
  ASSUME RecordInv, NEW m
  PROVE  IsFiniteSet({[rid |-> VMemRid(v), addr |-> VStackAddr(m, v)] : v \in OnStack(m)})
  <1> DEFINE f == [v \in OnStack(m) |-> [rid |-> VMemRid(v), addr |-> VStackAddr(m, v)]]
             T == {[rid |-> VMemRid(v), addr |-> VStackAddr(m, v)] : v \in OnStack(m)}
  <1>1. OnStack(m) \in SUBSET Lvars
    BY DEF OnStack, Asked, RecordInv
  <1>2. IsFiniteSet(OnStack(m))
    BY <1>1, LocsAssumption, FS_Subset
  <1>3. DOMAIN f = OnStack(m) /\ T = {f[v] : v \in OnStack(m)}
    OBVIOUS
  <1> HIDE DEF f, T
  <1>4. IsFiniteSet(T)
    BY <1>2, <1>3, FiniteImage
  <1>5. QED
    BY <1>4 DEF T

-----------------------------------------------------------------------------
(* The queue *)

(* Any message the peer can send. *)
LEMMA MessageForms ==
  ASSUME NEW m \in EnvMsgs
  PROVE  /\ m.at = 1
         /\ m.type = "pc_update" => m.loc \in Locs
         /\ m.type = "reg_response" => m.regs \subseteq Regs
  <1>1. ASSUME m \in [type : {"pc_update"}, seq : EnvSeqs, loc : Locs, auto : BOOLEAN, at : {1}]
        PROVE  m.at = 1 /\ m.type = "pc_update" /\ m.loc \in Locs
    BY <1>1
  <1>2. ASSUME NEW n \in EnvSeqs,
               m \in [type : {"reg_response"}, seq : {n}, rid : EnvRids(n), loc : PcOf,
                      ok : BOOLEAN, regs : EnvRegs, at : {1}]
        PROVE  m.at = 1 /\ m.type = "reg_response" /\ m.regs \subseteq Regs
    BY <1>2, EnvAssumption
  <1>3. ASSUME NEW n \in EnvSeqs,
               m \in [type : {"mem_response"}, seq : {n}, rid : EnvRids(n), loc : PcOf,
                      ok : BOOLEAN, addr : AddrOf, at : {1}]
        PROVE  m.at = 1 /\ m.type = "mem_response"
    BY <1>3
  <1>4. \/ m.at = 1 /\ m.type = "pc_update" /\ m.loc \in Locs
        \/ m.at = 1 /\ m.type = "reg_response" /\ m.regs \subseteq Regs
        \/ m.at = 1 /\ m.type = "mem_response"
    BY <1>1, <1>2, <1>3 DEF EnvMsgs
  <1>5. QED
    BY <1>4

(* The queue holds such messages, whatever is taken from it or lost. *)
LEMMA QueueStep ==
  ASSUME toIda \in Seq(EnvMsgs), [EnvNext]_envVars
  PROVE  toIda' \in Seq(EnvMsgs)
  <1>1. CASE UNCHANGED toIda
    BY <1>1
  <1>2. CASE EnvSend
    BY <1>2 DEF EnvSend
  <1>3. CASE HandleMessage
    <2>1. toIda # <<>> /\ toIda' = Tail(toIda)
      BY <1>3 DEF HandleMessage, PcUpdateIgnored, MappingFailed, EnumerationFailed,
         PcUpdateHandled, RegResponseForArgs, RegResponseForLocals, MemResponseForArgs,
         MemResponseForLocals, ResponseIgnored, Received
    <2>2. QED
      BY <2>1, HeadTailProperties
  <1>4. CASE DropIda
    <2>1. PICK k \in 0 .. Len(toIda) : toIda' = SubSeq(toIda, 1, k)
      BY <1>4 DEF DropIda
    <2>2. QED
      BY <2>1, SubSeqProperties
  <1>5. QED
    BY <1>1, <1>2, <1>3, <1>4 DEF EnvNext, PluginNext, connect, disconnect, envVars, linkVars

LEMMA HeadForms ==
  ASSUME toIda \in Seq(EnvMsgs), toIda # <<>>
  PROVE  /\ Head(toIda).at = 1
         /\ Head(toIda).type = "pc_update" => Head(toIda).loc \in Locs
         /\ Head(toIda).type = "reg_response" => Head(toIda).regs \subseteq Regs
  <1>1. Head(toIda) \in EnvMsgs
    BY HeadTailProperties
  <1>2. QED
    BY <1>1, MessageForms

-----------------------------------------------------------------------------
(* Handlers *)

\* A record with its four fields.
Whole(r) == r = [status |-> r.status, value |-> r.value, last |-> r.last, home |-> r.home]

(* A failed read keeps the last value and the home. *)
LEMMA ErrorOfWhole ==
  ASSUME NEW r, Whole(r)
  PROVE  /\ Whole(ErrorRecord(r))
         /\ ErrorRecord(r).status = "error" /\ ErrorRecord(r).home = r.home
  <1>1. PICK s, x, l, h : r = [status |-> s, value |-> x, last |-> l, home |-> h]
    BY Zenon DEF Whole
  <1>2. ErrorRecord(r) = [status |-> "error", value |-> NoValue, last |-> l, home |-> h]
    <2>1. r \in [status : {s}, value : {x}, last : {l}, home : {h}]
      BY <1>1
    <2> DEFINE e == [r EXCEPT !.status = "error"]
    <2>2. e = [status |-> "error", value |-> x, last |-> l, home |-> h]
      BY <1>1, <2>1
    <2>3. ErrorRecord(r) = [e EXCEPT !.value = NoValue]
      BY Zenon DEF ErrorRecord
    <2> HIDE DEF e
    <2>4. e \in [status : {"error"}, value : {x}, last : {l}, home : {h}]
      BY <2>2
    <2>5. QED
      BY <2>2, <2>3, <2>4
  <1>3. QED
    BY <1>1, <1>2 DEF Whole

(* A pc_update starts anew: nothing is fresh but constants. *)
LEMMA UpdateKeepsEnvInv ==
  ASSUME EnvInv, MappingFailed \/ EnumerationFailed \/ PcUpdateHandled
  PROVE  PendingInv' /\ RecordInv' /\ LocalsFromTheirHome'
  <1> DEFINE m == Head(toIda)
             f == FuncOf[m.loc]
             c == [seq |-> m.seq, loc |-> m.loc, at |-> m.at]
  <1>1. toIda # <<>> /\ m.type = "pc_update"
    BY DEF MappingFailed, EnumerationFailed, PcUpdateHandled, Received
  <1>2. m.loc \in Locs
    BY <1>1, HeadForms DEF EnvInv
  <1>3. f \in Funcs /\ LvarsOf[f] \subseteq Lvars
    BY <1>2, LocsAssumption, LvarsAssumption
  <1>4. Locals(f) \subseteq Lvars
    BY <1>3 DEF Locals
  <1>5. IsFiniteSet({}) /\ \A x : IsFiniteSet({x})
    BY FS_EmptySet, FS_Singleton
  <1>6. CASE MappingFailed \/ EnumerationFailed
    <2>1. /\ pending_requests' = {} /\ v_pending' = {} /\ records' = NoRecords
          /\ UNCHANGED planned
      BY <1>6 DEF MappingFailed, EnumerationFailed, start_pc_context, invalidate_pc
    <2>2. DOMAIN records' = {}
      BY <2>1 DEF NoRecords
    <2>3. QED
      BY <1>5, <2>1, <2>2 DEF EnvInv, PendingInv, RecordInv, LocalsFromTheirHome
  <1>7. CASE PcUpdateHandled
    <2>1. /\ planned' = [func |-> f, at |-> m.at]
          /\ pending_requests' \in {{}, {[rid |-> EntryRid(m.seq), addr |-> NoAddr]}}
      BY <1>7 DEF PcUpdateHandled, build_entry_plan
    <2>2. /\ v_context' = c
          /\ v_pending' \in {{}, {[rid |-> VRegRid(m.seq), addr |-> NoAddr]}}
          /\ \/ \E selected : records' = [v \in Locals(f) |-> NewRecord(m.loc, v, selected)]
             \/ records' = [v \in Locals(f) |-> NotAnalysed(v)]
             \/ records' = NoRecords
      BY <1>7 DEF PcUpdateHandled, begin_pc, begin_pc_unanalysed, invalidate_pc, StartContext
    <2>3. PendingInv'
      <3>1. IsFiniteSet(pending_requests') /\ IsFiniteSet(v_pending')
        BY <1>5, <2>1, <2>2
      <3>2. \A p \in pending_requests' : p.rid[1] \in {"reg", "mem"}
        BY <2>1 DEF EntryRid
      <3>3. \A p \in v_pending' : p.rid[1] \in {"v-reg", "v-mem"}
        BY <2>2 DEF VRegRid
      <3>4. QED
        BY <1>3, <2>1, <3>1, <3>2, <3>3 DEF PendingInv
    <2>4. DOMAIN records' \subseteq Lvars
      BY <1>4, <2>2 DEF NoRecords
    <2>5. ASSUME NEW v \in DOMAIN records'
          PROVE  /\ Whole(records'[v])
                 /\ records'[v].home \in {"none", Evidence[m.loc][v]}
                 /\ records'[v].status = "fresh" =>
                      /\ records'[v].home = Evidence[m.loc][v]
                      /\ OfHome(records'[v].home, v, records'[v].value)
      <3>1. ASSUME NEW selected, records'[v] = NewRecord(m.loc, v, selected)
            PROVE  /\ Whole(records'[v])
                   /\ records'[v].home \in {"none", Evidence[m.loc][v]}
                   /\ records'[v].status = "fresh" =>
                        /\ records'[v].home = Evidence[m.loc][v]
                        /\ OfHome(records'[v].home, v, records'[v].value)
        <4>1. CASE HomeAt(m.loc, v, selected) = "constant"
          <5>1. Evidence[m.loc][v] = "constant"
            BY <4>1 DEF HomeAt
          <5>2. QED
            BY <3>1, <4>1, <5>1 DEF NewRecord, FreshRecord, TrueValue, OfHome, Whole
        <4>2. CASE HomeAt(m.loc, v, selected) # "constant"
          BY <3>1, <4>2 DEF NewRecord, StaleOrNone, HomeAt, Whole
        <4>3. QED
          BY <4>1, <4>2
      <3>2. CASE records'[v] = NotAnalysed(v)
        BY <3>2 DEF NotAnalysed, Whole
      <3>3. CASE records' = NoRecords
        BY <2>5, <3>3 DEF NoRecords
      <3>4. QED
        BY <2>2, <2>5, <3>1, <3>2, <3>3
    <2>6. \A p \in v_pending' : p.rid[1] # "v-mem"
      BY <2>2 DEF VRegRid
    <2>7. v_context'.loc = m.loc
      BY <2>2
    <2>8. RecordInv'
      BY <2>4, <2>5, <2>6, <2>7 DEF RecordInv, Whole
    <2>9. LocalsFromTheirHome'
      BY <2>5, <2>7 DEF LocalsFromTheirHome
    <2>10. QED
      BY <2>3, <2>8, <2>9
  <1>8. QED
    BY <1>6, <1>7

(* A response for the arguments leaves the records alone; it takes an entry  *)
(* of its own kind out.                                                      *)
LEMMA ArgsKeepEnvInv ==
  ASSUME EnvInv, RegResponseForArgs \/ MemResponseForArgs
  PROVE  PendingInv' /\ RecordInv' /\ LocalsFromTheirHome' /\ UsesUpRequest
  <1> DEFINE m == Head(toIda)
  <1>1. UNCHANGED <<v_context, v_pending, records, planned>>
    BY DEF RegResponseForArgs, MemResponseForArgs, apply_reg_response, apply_mem_response, vVars
  <1>2. RecordInv' /\ LocalsFromTheirHome'
    BY <1>1 DEF EnvInv, RecordInv, LocalsFromTheirHome
  <1>3. /\ IsFiniteSet(pending_requests) /\ IsFiniteSet(v_pending)
        /\ \A p \in pending_requests : p.rid[1] \in {"reg", "mem"}
        /\ \A p \in v_pending : p.rid[1] \in {"v-reg", "v-mem"}
    BY DEF EnvInv, PendingInv
  <1>4. IsFiniteSet(AwaitedRegs) /\ IsFiniteSet(AwaitedMems)
    <2>1. IsFiniteSet(pending_requests \cup v_pending)
      BY <1>3, FS_Union
    <2>2. AwaitedRegs \in SUBSET (pending_requests \cup v_pending)
          /\ AwaitedMems \in SUBSET (pending_requests \cup v_pending)
      BY DEF AwaitedRegs, AwaitedMems
    <2>3. QED
      BY <2>1, <2>2, FS_Subset
  <1> HIDE DEF m
  <1>5. CASE RegResponseForArgs
    <2>1. /\ RegAccepted(m)
          /\ pending_requests' = (pending_requests \ Awaited(m, "reg"))
               \cup (IF m.ok /\ "rsp" \in m.regs THEN StackEntries(m) ELSE {})
      BY <1>5 DEF RegResponseForArgs, apply_reg_response, m
    <2>2. IsFiniteSet(StackEntries(m)) /\ \A p \in StackEntries(m) : p.rid[1] = "mem"
      BY StackEntriesFinite DEF EnvInv
    <2>3. PICK p \in pending_requests : p.rid[1] = "reg" /\ p \in Awaited(m, "reg")
      BY <2>1 DEF RegAccepted, Awaited
    <2>4. PendingInv'
      <3>1. pending_requests' \in SUBSET (pending_requests \cup StackEntries(m))
        BY <2>1
      <3>2. IsFiniteSet(pending_requests \cup StackEntries(m))
        BY <1>3, <2>2, FS_Union
      <3>3. IsFiniteSet(pending_requests')
        BY <3>1, <3>2, FS_Subset
      <3>4. QED
        BY <1>1, <1>3, <2>2, <3>1, <3>3 DEF EnvInv, PendingInv
    <2>5. AwaitedRegs' \subseteq AwaitedRegs /\ p \in AwaitedRegs /\ p \notin AwaitedRegs'
      BY <1>1, <1>3, <2>1, <2>2, <2>3 DEF AwaitedRegs
    <2>6. Cardinality(AwaitedRegs') < Cardinality(AwaitedRegs)
      BY <1>4, <2>5, TakenIsFewer
    <2>7. QED
      BY <1>2, <2>4, <2>6 DEF UsesUpRequest
  <1>6. CASE MemResponseForArgs
    <2>1. /\ MemAccepted(m)
          /\ pending_requests' = pending_requests \ Awaited(m, "mem")
      BY <1>6 DEF MemResponseForArgs, apply_mem_response, m
    <2>2. PICK p \in pending_requests : p.rid[1] = "mem" /\ p \in Awaited(m, "mem")
      BY <2>1 DEF MemAccepted, Awaited
    <2>3. PendingInv'
      <3>1. pending_requests' \in SUBSET pending_requests
        BY <2>1
      <3>2. IsFiniteSet(pending_requests')
        BY <1>3, <3>1, FS_Subset
      <3>3. QED
        BY <1>1, <1>3, <3>1, <3>2 DEF EnvInv, PendingInv
    <2>4. /\ AwaitedRegs' = AwaitedRegs
          /\ AwaitedMems' \subseteq AwaitedMems /\ p \in AwaitedMems /\ p \notin AwaitedMems'
      BY <1>1, <1>3, <2>1, <2>2 DEF AwaitedRegs, AwaitedMems, Awaited
    <2>5. Cardinality(AwaitedMems') < Cardinality(AwaitedMems)
      BY <1>4, <2>4, TakenIsFewer
    <2>6. QED
      BY <1>2, <2>3, <2>4, <2>5 DEF UsesUpRequest
  <1>7. QED
    BY <1>5, <1>6

(* A response for the locals: registers are the proved ones, and a memory    *)
(* answer that states an address, only from the one that was asked for.      *)
LEMMA LocalsKeepEnvInv ==
  ASSUME EnvInv, RegResponseForLocals \/ MemResponseForLocals
  PROVE  PendingInv' /\ RecordInv' /\ LocalsFromTheirHome' /\ UsesUpRequest
  <1> DEFINE m == Head(toIda)
  <1>1. UNCHANGED <<v_context, pending_requests, planned>>
    BY DEF RegResponseForLocals, MemResponseForLocals, v_apply_reg_response,
           v_apply_mem_response, coreVars
  <1>2. /\ m.at = 1
        /\ m.type = "reg_response" => m.regs \subseteq Regs
    BY HeadForms DEF EnvInv, RegResponseForLocals, MemResponseForLocals, Received
  <1>3. /\ IsFiniteSet(pending_requests) /\ IsFiniteSet(v_pending)
        /\ \A p \in pending_requests : p.rid[1] \in {"reg", "mem"}
        /\ \A p \in v_pending : p.rid[1] \in {"v-reg", "v-mem"}
    BY DEF EnvInv, PendingInv
  <1>4. IsFiniteSet(AwaitedRegs) /\ IsFiniteSet(AwaitedMems)
    <2>1. IsFiniteSet(pending_requests \cup v_pending)
      BY <1>3, FS_Union
    <2>2. AwaitedRegs \in SUBSET (pending_requests \cup v_pending)
          /\ AwaitedMems \in SUBSET (pending_requests \cup v_pending)
      BY DEF AwaitedRegs, AwaitedMems
    <2>3. QED
      BY <2>1, <2>2, FS_Subset
  <1>5. \A v \in DOMAIN records :
          /\ Whole(records[v])
          /\ records[v].home \in {"none", Evidence[v_context.loc][v]}
          /\ records[v].status = "fresh" =>
               /\ records[v].home = Evidence[v_context.loc][v]
               /\ OfHome(records[v].home, v, records[v].value)
    BY DEF EnvInv, RecordInv, LocalsFromTheirHome, Whole
  <1>6. ASSUME NEW v \in DOMAIN records
        PROVE  /\ Whole(ErrorRecord(records[v]))
               /\ ErrorRecord(records[v]).status = "error"
               /\ ErrorRecord(records[v]).home = records[v].home
    BY <1>5, ErrorOfWhole
  <1> HIDE DEF m
  <1>7. CASE RegResponseForLocals
    <2> DEFINE Reads == {[rid |-> VMemRid(v), addr |-> VStackAddr(m, v)] : v \in OnStack(m)}
    <2>1. /\ VRegAccepted(m) /\ m.type = "reg_response"
          /\ records' = [v \in DOMAIN records |-> VRegRecord(m, v)]
          /\ v_pending' = (v_pending \ VAwaited(m, "v-reg")) \cup Reads
      BY <1>7 DEF RegResponseForLocals, Received, v_apply_reg_response, m
    <2>2. IsFiniteSet(Reads)
      BY LocalReadsFinite DEF EnvInv
    <2>3. \A q \in Reads : \E v \in OnStack(m) :
            q.rid[1] = "v-mem" /\ q.rid[3] = v /\ q.addr = [sp |-> 1, slot |-> v]
      BY <1>2 DEF VMemRid, VStackAddr
    <2> HIDE DEF Reads
    <2>4. PICK p \in v_pending : p.rid[1] = "v-reg" /\ p \in VAwaited(m, "v-reg")
      BY <2>1 DEF VRegAccepted, VAwaited
    <2>5. PendingInv'
      <3>1. v_pending' \in SUBSET (v_pending \cup Reads)
        BY <2>1
      <3>2. IsFiniteSet(v_pending \cup Reads)
        BY <1>3, <2>2, FS_Union
      <3>3. IsFiniteSet(v_pending')
        BY <3>1, <3>2, FS_Subset
      <3>4. \A q \in v_pending' : q.rid[1] \in {"v-reg", "v-mem"}
        BY <1>3, <2>3, <3>1
      <3>5. QED
        BY <1>1, <1>3, <3>3, <3>4 DEF EnvInv, PendingInv
    <2>6. AwaitedRegs' \subseteq AwaitedRegs /\ p \in AwaitedRegs /\ p \notin AwaitedRegs'
      <3>1. \A q \in Reads : q.rid[1] = "v-mem"
        BY <2>3
      <3>2. QED
        BY <1>1, <1>3, <2>1, <2>4, <3>1 DEF AwaitedRegs
    <2>7. UsesUpRequest
      BY <1>4, <2>6, TakenIsFewer DEF UsesUpRequest
    <2>8. ASSUME NEW v \in DOMAIN records
          PROVE  /\ Whole(VRegRecord(m, v))
                 /\ VRegRecord(m, v).home = records[v].home
                 /\ VRegRecord(m, v).status = "fresh" =>
                      /\ VRegRecord(m, v).home = Evidence[v_context.loc][v]
                      /\ OfHome(VRegRecord(m, v).home, v, VRegRecord(m, v).value)
      <3>1. CASE v \in InRegister(m)
                 /\ VRegRecord(m, v) = FreshRecord(RegValue(records[v].home, m.at), records[v].home)
        <4>1. records[v].home \in Regs /\ records[v].home \notin {"none", "constant", "stack"}
          BY <1>2, <2>1, <3>1, LocsAssumption DEF InRegister
        <4>2. records[v].home = Evidence[v_context.loc][v]
          BY <1>5, <4>1
        <4>3. OfHome(records[v].home, v, RegValue(records[v].home, m.at))
          BY <1>2, <4>1 DEF TrueValue, OfHome
        <4>4. QED
          BY <3>1, <4>2, <4>3 DEF FreshRecord, Whole
      <3>2. CASE VRegRecord(m, v) = ErrorRecord(records[v])
        BY <1>6, <3>2
      <3>3. CASE VRegRecord(m, v) = records[v]
        BY <1>5, <3>3
      <3>4. QED
        BY <3>1, <3>2, <3>3 DEF VRegRecord
    <2>9. RecordInv'
      <3>1. \A q \in v_pending' : q.rid[1] = "v-mem" =>
              /\ q.rid[3] \in DOMAIN records /\ records[q.rid[3]].home = "stack"
              /\ q.addr = [sp |-> 1, slot |-> q.rid[3]]
        <4>1. \A v \in OnStack(m) : v \in DOMAIN records /\ records[v].home = "stack"
          BY DEF OnStack, Asked
        <4>2. QED
          BY <2>1, <2>3, <4>1 DEF EnvInv, RecordInv
      <3>2. \A v \in DOMAIN records' :
              /\ v \in DOMAIN records /\ Whole(records'[v])
              /\ records'[v].home = records[v].home
        BY <2>1, <2>8
      <3>3. DOMAIN records' = DOMAIN records
        BY <2>1
      <3>4. QED
        BY <1>1, <1>5, <3>1, <3>2, <3>3 DEF EnvInv, RecordInv, Whole
    <2>10. LocalsFromTheirHome'
      BY <1>1, <2>1, <2>8 DEF LocalsFromTheirHome
    <2>11. QED
      BY <2>5, <2>7, <2>9, <2>10
  <1>8. CASE MemResponseForLocals
    <2>1. /\ VMemAccepted(m)
          /\ records' = [v \in DOMAIN records |-> VMemRecord(m, v)]
          /\ v_pending' = v_pending \ VAwaited(m, "v-mem")
      BY <1>8 DEF MemResponseForLocals, v_apply_mem_response, m
    <2>2. PICK p \in v_pending : /\ p.rid[1] = "v-mem" /\ p \in VAwaited(m, "v-mem")
                                 /\ p.rid = m.rid /\ m.addr \in {NoAddr, p.addr}
      BY <2>1 DEF VMemAccepted, VAwaited
    <2>3. PendingInv'
      <3>1. v_pending' \in SUBSET v_pending
        BY <2>1
      <3>2. IsFiniteSet(v_pending')
        BY <1>3, <3>1, FS_Subset
      <3>3. QED
        BY <1>1, <1>3, <3>1, <3>2 DEF EnvInv, PendingInv
    <2>4. /\ AwaitedRegs' = AwaitedRegs
          /\ AwaitedMems' \subseteq AwaitedMems /\ p \in AwaitedMems /\ p \notin AwaitedMems'
      BY <1>1, <1>3, <2>1, <2>2 DEF AwaitedRegs, AwaitedMems, VAwaited
    <2>5. UsesUpRequest
      BY <1>4, <2>4, TakenIsFewer DEF UsesUpRequest
    <2>6. /\ m.rid[3] \in DOMAIN records /\ records[m.rid[3]].home = "stack"
          /\ m.addr \in {NoAddr, [sp |-> 1, slot |-> m.rid[3]]}
      BY <2>2 DEF EnvInv, RecordInv
    <2>7. ASSUME NEW v \in DOMAIN records
          PROVE  /\ Whole(VMemRecord(m, v))
                 /\ VMemRecord(m, v).home = records[v].home
                 /\ VMemRecord(m, v).status = "fresh" =>
                      /\ VMemRecord(m, v).home = Evidence[v_context.loc][v]
                      /\ OfHome(VMemRecord(m, v).home, v, VMemRecord(m, v).value)
      <3>1. CASE v \in ReadFor(m)
                 /\ VMemRecord(m, v) = FreshRecord(MemValue(m.addr, m.at), records[v].home)
        <4>1. m.rid[3] = v
          BY <3>1 DEF ReadFor, VMemRid
        <4>2. records[v].home = "stack" /\ Evidence[v_context.loc][v] = "stack"
          BY <1>5, <2>6, <4>1
        <4>3. OfHome("stack", v, MemValue(m.addr, m.at))
          BY <1>2, <2>6, <4>1 DEF TrueValue, OfHome
        <4>4. QED
          BY <3>1, <4>2, <4>3 DEF FreshRecord, Whole
      <3>2. CASE VMemRecord(m, v) = ErrorRecord(records[v])
        BY <1>6, <3>2
      <3>3. CASE VMemRecord(m, v) = records[v]
        BY <1>5, <3>3
      <3>4. QED
        BY <3>1, <3>2, <3>3 DEF VMemRecord
    <2>8. RecordInv'
      <3>1. \A v \in DOMAIN records' :
              /\ v \in DOMAIN records /\ Whole(records'[v])
              /\ records'[v].home = records[v].home
        BY <2>1, <2>7
      <3>2. DOMAIN records' = DOMAIN records /\ v_pending' \subseteq v_pending
        BY <2>1
      <3>3. QED
        BY <1>1, <1>5, <3>1, <3>2 DEF EnvInv, RecordInv, Whole
    <2>9. LocalsFromTheirHome'
      BY <1>1, <2>1, <2>7 DEF LocalsFromTheirHome
    <2>10. QED
      BY <2>3, <2>5, <2>8, <2>9
  <1>9. QED
    BY <1>7, <1>8

-----------------------------------------------------------------------------
(* The two properties *)

LEMMA EnvInvInit == EnvInit => EnvInv
  <1> SUFFICES ASSUME EnvInit PROVE EnvInv
    OBVIOUS
  <1>1. /\ toIda = <<>> /\ pending_requests = {} /\ v_pending = {}
        /\ DOMAIN records = {} /\ planned.func = FuncOf[NoLoc]
    BY DEF EnvInit, PluginInit, CoreInit, VInit, NoRecords
  <1>2. NoLoc \in Locs
    BY LocsAssumption DEF NoLoc
  <1>3. FuncOf[NoLoc] \in Funcs
    BY <1>2, LocsAssumption
  <1>4. QED
    BY <1>1, <1>3, FS_EmptySet DEF EnvInv, PendingInv, RecordInv, LocalsFromTheirHome

LEMMA EnvInvStep == EnvInv /\ [EnvNext]_envVars => EnvInv' /\ [UsesUpRequest]_envVars
  <1> SUFFICES ASSUME EnvInv, [EnvNext]_envVars PROVE EnvInv' /\ UsesUpRequest
    OBVIOUS
  <1>0. toIda' \in Seq(EnvMsgs)
    BY QueueStep DEF EnvInv
  <1>1. CASE UNCHANGED pluginVars
    <2>1. UNCHANGED <<pending_requests, planned, v_context, v_pending, records, view>>
      BY <1>1 DEF pluginVars, coreVars, vVars
    <2>2. QED
      BY <1>0, <2>1 DEF EnvInv, PendingInv, RecordInv, LocalsFromTheirHome, UsesUpRequest
  <1>2. CASE MappingFailed \/ EnumerationFailed \/ PcUpdateHandled
    <2>1. UsesUpRequest
      BY <1>2 DEF MappingFailed, EnumerationFailed, PcUpdateHandled, Received, UsesUpRequest
    <2>2. QED
      BY <1>0, <1>2, <2>1, UpdateKeepsEnvInv DEF EnvInv
  <1>3. CASE RegResponseForArgs \/ MemResponseForArgs
    BY <1>0, <1>3, ArgsKeepEnvInv DEF EnvInv
  <1>4. CASE RegResponseForLocals \/ MemResponseForLocals
    BY <1>0, <1>4, LocalsKeepEnvInv DEF EnvInv
  <1>5. CASE disconnect
    <2>1. /\ pending_requests' = {} /\ v_pending' = {} /\ records' = NoRecords
          /\ UNCHANGED <<planned, view>>
      BY <1>5 DEF disconnect, core_disconnect, clear_runtime_state
    <2>2. DOMAIN records' = {}
      BY <2>1 DEF NoRecords
    <2>3. QED
      BY <1>0, <2>1, <2>2, FS_EmptySet DEF EnvInv, PendingInv, RecordInv, LocalsFromTheirHome,
         UsesUpRequest
  <1>6. QED
    BY <1>1, <1>2, <1>3, <1>4, <1>5 DEF EnvNext, EnvSend, PluginNext, HandleMessage,
       PcUpdateIgnored, ResponseIgnored, connect, envVars

(***************************************************************************)
(* Whatever the peer answers, and however often, a local is shown as fresh  *)
(* only for the place proved for it at the current PC: with its register,   *)
(* with its own stack slot at the address asked for, or with bytes whose    *)
(* address the peer left out, which the code takes on trust; never with     *)
(* what was said to be read elsewhere (v_variable_recovery.py,              *)
(* apply_reg_response and apply_mem_response).                              *)
(***************************************************************************)
THEOREM LocalsAreTheirOwn == EnvSpec => []LocalsFromTheirHome
  <1>1. EnvInv => LocalsFromTheirHome
    BY DEF EnvInv
  <1>2. QED
    BY <1>1, EnvInvInit, EnvInvStep, PTL DEF EnvSpec

(***************************************************************************)
(* Whatever the peer answers, a change of the table under one PC takes out  *)
(* an awaited request, and only a register answer adds memory requests; so  *)
(* a repeated or unasked answer changes nothing, and the changes under one  *)
(* PC are finitely many (dynvar_core.py, _take_pending_response;            *)
(* v_variable_recovery.py, _take_pending).                                  *)
(***************************************************************************)
THEOREM AnswersAreUsedOnce == EnvSpec => AnswersUseUpRequests
  <1>1. QED
    BY EnvInvInit, EnvInvStep, PTL DEF EnvSpec, AnswersUseUpRequests
=============================================================================
