------------------------------ MODULE VRecovery ------------------------------
(***************************************************************************)
(* The runtime half of VVariableRecovery                                    *)
(* (ida_plugin/v_variable_recovery.py): the records of the locals of the    *)
(* current function, the requests awaited for them, and the history of the  *)
(* last exact value of each local.  What the static analysis proves of a    *)
(* local at a program counter is the constant Evidence: a register, "stack",*)
(* "constant", or "none".                                                   *)
(***************************************************************************)
EXTENDS LiveTypes

CONSTANT MaxHistory   \* max_history (256 in the code)

ASSUME HistoryAssumption == MaxHistory \in Nat \ {0}

VARIABLES
  v_context,  \* _pc_seq and _runtime_pc; at is history
  v_pending,  \* _pending
  records,    \* _records and _evidence
  history     \* _history: last exact value and its pc_seq, per local

vVars == <<v_context, v_pending, records, history>>

Record == [status : Statuses, value : Value, last : Value,
           home : Homes \cup {"none", "constant"}]

\* _pc_seq is None.
NoVContext == [seq |-> 0, loc |-> NoLoc, at |-> 0]

NoRecords == [v \in {} |-> NoValue]

VInit ==
  /\ v_context = NoVContext
  /\ v_pending = {}
  /\ records = NoRecords
  /\ history = [v \in {} |-> NoValue]

VTypeOK ==
  /\ v_context \in [seq : Nat, loc : Locs, at : Nat]
  /\ v_pending \in SUBSET [rid : Rid, addr : Addr]
  /\ DOMAIN records \subseteq Lvars
  /\ records \in [DOMAIN records -> Record]
  /\ DOMAIN history \subseteq Lvars
  /\ history \in [DOMAIN history -> [value : Value, seq : Nat]]

-----------------------------------------------------------------------------
(* Contexts *)

\* _start_context, and begin_pc's view of it.
StartContext(seq, l, at) == v_context' = [seq |-> seq, loc |-> l, at |-> at]

invalidate_pc(seq, l, at) ==
  /\ StartContext(seq, l, at)
  /\ v_pending' = {}
  /\ records' = NoRecords
  /\ UNCHANGED history

clear_runtime_state ==
  /\ v_context' = NoVContext
  /\ v_pending' = {}
  /\ records' = NoRecords
  /\ UNCHANGED history

-----------------------------------------------------------------------------
(* History *)

LastOf(v) == IF v \in DOMAIN history THEN history[v].value ELSE NoValue

\* _mark_fresh for the locals of fresh, then _prune_history: the entries with
\* the lowest pc_seq go until at most MaxHistory remain.  (Among equals the
\* dictionary's order decides: any choice.)
Remember(fresh, value, seq) ==
  LET all == [v \in DOMAIN history \cup fresh |->
                IF v \in fresh THEN [value |-> value[v], seq |-> seq]
                ELSE history[v]]
      room == IF Cardinality(DOMAIN all) <= MaxHistory
              THEN Cardinality(DOMAIN all) ELSE MaxHistory
  IN  \E kept \in SUBSET DOMAIN all :
        /\ Cardinality(kept) = room
        /\ \A v \in kept, u \in DOMAIN all \ kept : all[u].seq <= all[v].seq
        /\ history' = [v \in kept |-> all[v]]

-----------------------------------------------------------------------------
(* begin_pc *)

Locals(f) == {v \in LvarsOf[f] : ~IsArg(v)}

\* Locals outside the analysis budget are deferred: nothing is proved of them.
HomeAt(l, v, selected) == IF v \in selected THEN Evidence[l][v] ELSE "none"

\* _set_waiting, _set_unavailable: the last exact value is shown as stale.
StaleOrNone(v, home) ==
  [status |-> IF LastOf(v) # NoValue THEN "stale" ELSE "unavailable",
   value |-> LastOf(v), last |-> LastOf(v), home |-> home]

\* preserve_stale = False: the analysis as a whole failed.
NotAnalysed(v) ==
  [status |-> "unavailable", value |-> NoValue, last |-> LastOf(v), home |-> "none"]

FreshRecord(value, home) ==
  [status |-> "fresh", value |-> value, last |-> value, home |-> home]

NewRecord(l, v, selected) ==
  LET home == HomeAt(l, v, selected)
  IN  IF home = "constant" THEN FreshRecord(ConstantValue, home)
      ELSE StaleOrNone(v, home)

\* Locals that need the debuggee, and the registers asked for.
Runtime(l, selected) ==
  {v \in Locals(FuncOf[l]) : HomeAt(l, v, selected) \in Homes}
VRegs(l, selected) == {Needs(HomeAt(l, v, selected)) : v \in Runtime(l, selected)}

VRegRid(seq) == <<"v-reg", seq, "runtime">>

VRequest(seq, l, selected) ==
  IF Runtime(l, selected) # {}
  THEN <<[type |-> "reg_request", seq |-> seq, rid |-> VRegRid(seq), loc |-> l,
          regs |-> VRegs(l, selected)]>>
  ELSE <<>>

begin_pc(seq, l, at, selected) ==
  LET locals == Locals(FuncOf[l])
      constant == {v \in locals : HomeAt(l, v, selected) = "constant"}
  IN  /\ StartContext(seq, l, at)
      /\ records' = [v \in locals |-> NewRecord(l, v, selected)]
      /\ v_pending' = IF Runtime(l, selected) # {}
                      THEN {[rid |-> VRegRid(seq), addr |-> NoAddr]} ELSE {}
      /\ Remember(constant, [v \in constant |-> ConstantValue], seq)

\* begin_pc when the analysis raises or reports a failure.
begin_pc_unanalysed(seq, l, at) ==
  /\ StartContext(seq, l, at)
  /\ records' = [v \in Locals(FuncOf[l]) |-> NotAnalysed(v)]
  /\ v_pending' = {}
  /\ UNCHANGED history

-----------------------------------------------------------------------------
(* Responses *)

\* _take_pending: runtime_pc is compared only when the response has one.
VAwaited(m, kind) ==
  {p \in v_pending :
     /\ v_context.seq # 0
     /\ m.seq = v_context.seq
     /\ m.loc \in {NoRuntimePc, v_context.loc}
     /\ p.rid = m.rid
     /\ p.rid[1] = kind}

VRegAccepted(m) == VAwaited(m, "v-reg") # {}

\* _set_error
ErrorRecord(r) == [r EXCEPT !.status = "error", !.value = NoValue]

\* The request's locals: those with a register or stack home.
Asked == {v \in DOMAIN records : records[v].home \in Homes}
InRegister(m) == {v \in Asked : records[v].home # "stack" /\ m.ok /\ records[v].home \in m.regs}
OnStack(m) == {v \in Asked : records[v].home = "stack" /\ m.ok /\ "rsp" \in m.regs}

VStackAddr(m, v) == [sp |-> m.at, slot |-> v]
VMemRid(v) == <<"v-mem", v_context.seq, v>>

VMemRequests(m) ==
  LET asked == SetToSeq(OnStack(m))
  IN  [i \in DOMAIN asked |->
         [type |-> "mem_request", seq |-> v_context.seq, rid |-> VMemRid(asked[i]),
          loc |-> v_context.loc, addr |-> VStackAddr(m, asked[i])]]

VRegRecord(m, v) ==
  IF v \notin Asked \/ v \in OnStack(m) THEN records[v]
  ELSE IF v \in InRegister(m)
  THEN FreshRecord(RegValue(records[v].home, m.at), records[v].home)
  ELSE ErrorRecord(records[v])

v_apply_reg_response(m) ==
  /\ VRegAccepted(m)
  /\ records' = [v \in DOMAIN records |-> VRegRecord(m, v)]
  /\ v_pending' = (v_pending \ VAwaited(m, "v-reg"))
       \cup {[rid |-> VMemRid(v), addr |-> VStackAddr(m, v)] : v \in OnStack(m)}
  /\ Remember(InRegister(m),
              [v \in InRegister(m) |-> RegValue(records[v].home, m.at)], v_context.seq)
  /\ UNCHANGED v_context

\* Mutant: the address is not compared.
Mut_AnyAddress(m) == VAwaited(m, "v-mem") # {}

\* A response that states another address is refused, and the request stays
\* awaited; one that states none is accepted.  (So with the size, which the
\* abstraction of values leaves out: bytes of another length do not decode, and
\* count as a failed read.)
VMemAccepted(m) ==
  \E p \in VAwaited(m, "v-mem") : m.addr \in {NoAddr, p.addr}

\* The local a v-mem request is for.
ReadFor(m) == {v \in DOMAIN records : m.rid = VMemRid(v)}

VMemRecord(m, v) ==
  IF v \notin ReadFor(m) THEN records[v]
  ELSE IF m.ok THEN FreshRecord(MemValue(m.addr, m.at), records[v].home)
  ELSE ErrorRecord(records[v])

v_apply_mem_response(m) ==
  /\ VMemAccepted(m)
  /\ records' = [v \in DOMAIN records |-> VMemRecord(m, v)]
  /\ v_pending' = v_pending \ VAwaited(m, "v-mem")
  /\ IF m.ok
     THEN Remember(ReadFor(m), [v \in ReadFor(m) |-> MemValue(m.addr, m.at)], v_context.seq)
     ELSE UNCHANGED history
  /\ UNCHANGED v_context

\* overlay_rows: argument rows as they are, locals from their records.
Overlay(rs, recs) ==
  [v \in DOMAIN rs |->
     IF ~IsArg(v) /\ v \in DOMAIN recs
     THEN [status |-> recs[v].status, value |-> recs[v].value]
     ELSE rs[v]]
=============================================================================
