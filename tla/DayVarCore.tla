------------------------------ MODULE DayVarCore ------------------------------
(***************************************************************************)
(* DayVarCore (ida_plugin/dynvar_core.py): the plugin's current PC context, *)
(* the requests it is waiting for, and the rows of the variables of the     *)
(* current function.  It fills the rows of arguments; rows of locals are    *)
(* left to VRecovery and overlaid when the table is published.              *)
(***************************************************************************)
EXTENDS LiveTypes

VARIABLES
  current_pc,       \* pc_seq and runtime_pc; at is history: the instant reported
  pending_requests, \* dictionary of request ids, as a set of entries
  rows,             \* one row per variable of the function last enumerated
  planned           \* that function, and history: the instant it was planned for

coreVars == <<current_pc, pending_requests, rows, planned>>

PcContext == [seq : Nat, loc : Locs, at : Nat]
PendingRequest == [rid : Rid, addr : Addr]

\* current_pc is None: WinDbg numbers its updates from 1.
NoPc == [seq |-> 0, loc |-> NoLoc, at |-> 0]

CoreInit ==
  /\ current_pc = NoPc
  /\ pending_requests = {}
  /\ planned = [func |-> FuncOf[NoLoc], at |-> 0]
  /\ rows = [v \in {} |-> NoValue]

CoreTypeOK ==
  /\ current_pc \in PcContext
  /\ pending_requests \in SUBSET PendingRequest
  /\ planned \in [func : Funcs, at : Nat]
  /\ DOMAIN rows \subseteq Lvars
  /\ rows \in [DOMAIN rows -> Row]

\* Mutant: requests of the previous context stay awaited.
Mut_PendingKept(seq, l, at) ==
  /\ current_pc' = [seq |-> seq, loc |-> l, at |-> at]
  /\ UNCHANGED pending_requests

\* A context begins: whatever was awaited for the previous one is forgotten.
start_pc_context(seq, l, at) ==
  /\ current_pc' = [seq |-> seq, loc |-> l, at |-> at]
  /\ pending_requests' = {}

-----------------------------------------------------------------------------
(* build_entry_plan *)

RegArgs(f) == {v \in LvarsOf[f] : ArgHome[v] \in Regs}
StackArgs(f) == {v \in LvarsOf[f] : ArgHome[v] = "stack"}

\* The registers asked for at the entry of f: rsp only if it has stack arguments.
EntryRegs(f) == {Needs(ArgHome[v]) : v \in RegArgs(f) \cup StackArgs(f)}

\* Mutant: previous rows are found by name alone.
Mut_PriorByName(f, v) ==
  LET same == {u \in DOMAIN rows : Name[u] = Name[v]}
  IN  IF same # {} THEN rows[CHOOSE u \in same : TRUE].value ELSE NoValue

\* previous_rows is keyed by function and name: of several rows with one name
\* one is found (the last listed; the order of the rows is not modelled).
Prior(f, v) ==
  LET same == {u \in DOMAIN rows : Name[u] = Name[v]}
  IN  IF planned.func = f /\ same # {}
      THEN rows[CHOOSE u \in same : TRUE].value
      ELSE NoValue

\* Mutant: away from the entry an argument keeps the status it had.
Mut_PlannedUnchanged(f, l, v) ==
  IF IsArg(v) /\ Place[l] # "entry" /\ v \in DOMAIN rows THEN rows[v]
  ELSE [status |-> "unavailable", value |-> NoValue]

\* Locals are unavailable here.  At the function entry every argument waits
\* for its read; elsewhere its last value, if it has one, is shown as stale.
PlannedRow(f, l, v) ==
  LET prior == Prior(f, v)
  IN  IF IsArg(v) /\ Place[l] # "entry" /\ prior # NoValue
      THEN [status |-> "stale", value |-> prior]
      ELSE [status |-> "unavailable", value |-> NoValue]

EntryRid(seq) == <<"reg", seq, "entry">>

EntryAsks(l) == Place[l] = "entry" /\ EntryRegs(FuncOf[l]) # {}

\* Mutant: an update with the current pc_seq keeps the rows.
Mut_SameSeqKeepsRows(seq, l, at) ==
  /\ current_pc' = [seq |-> seq, loc |-> l, at |-> at]
  /\ rows' = IF seq = current_pc.seq THEN rows
             ELSE [v \in LvarsOf[FuncOf[l]] |-> PlannedRow(FuncOf[l], l, v)]
  /\ planned' = [func |-> FuncOf[l], at |-> at]
  /\ pending_requests' = IF EntryAsks(l)
                         THEN {[rid |-> EntryRid(seq), addr |-> NoAddr]}
                         ELSE {}

build_entry_plan(seq, l, at) ==
  /\ current_pc' = [seq |-> seq, loc |-> l, at |-> at]
  /\ rows' = [v \in LvarsOf[FuncOf[l]] |-> PlannedRow(FuncOf[l], l, v)]
  /\ planned' = [func |-> FuncOf[l], at |-> at]
  /\ pending_requests' = IF EntryAsks(l)
                         THEN {[rid |-> EntryRid(seq), addr |-> NoAddr]}
                         ELSE {}

\* The register request of the plan: one message or none.
EntryRequest(seq, l) ==
  IF EntryAsks(l)
  THEN <<[type |-> "reg_request", seq |-> seq, rid |-> EntryRid(seq), loc |-> l,
          regs |-> EntryRegs(FuncOf[l])]>>
  ELSE <<>>

-----------------------------------------------------------------------------
(* Responses *)

\* _take_pending_response: the response is for the current sequence number
\* and, if it names a PC, the current one, and a request of that kind and id
\* is awaited.
Awaited(m, kind) ==
  {p \in pending_requests :
     /\ m.seq = current_pc.seq
     /\ m.loc \in {NoRuntimePc, current_pc.loc}
     /\ p.rid = m.rid
     /\ p.rid[1] = kind}

Failed(row) == [row EXCEPT !.status = "error"]

\* _build_stack_mem_requests: one entry per stack argument, under its name.
StackAddr(m, v) == [sp |-> m.at, slot |-> v]
StackRid(v) == <<"mem", current_pc.seq, Name[v]>>

StackEntries(m) ==
  LET args == SetToSeq(StackArgs(planned.func))
      Survives(i) == \A j \in DOMAIN args : Name[args[j]] = Name[args[i]] => j <= i
  IN  {[rid |-> StackRid(args[i]), addr |-> StackAddr(m, args[i])] :
         i \in {k \in DOMAIN args : Survives(k)}}

StackRequests(m) ==
  LET args == SetToSeq(StackArgs(planned.func))
  IN  [i \in DOMAIN args |->
         [type |-> "mem_request", seq |-> current_pc.seq, rid |-> StackRid(args[i]),
          loc |-> current_pc.loc, addr |-> StackAddr(m, args[i])]]

RegAccepted(m) == Awaited(m, "reg") # {}

\* The memory requests an accepted register response leads to.
MemRequests(m) == IF m.ok /\ "rsp" \in m.regs THEN StackRequests(m) ELSE <<>>

\* A failed response marks the rows named like a register argument and leaves
\* the stack arguments waiting; otherwise each row gets its register's value,
\* and without rsp the stack arguments fail.
RegRow(m, v) ==
  IF ~m.ok
  THEN IF \E u \in RegArgs(planned.func) : Name[u] = Name[v]
       THEN Failed(rows[v]) ELSE rows[v]
  ELSE IF ArgHome[v] \in Regs
       THEN IF ArgHome[v] \in m.regs
            THEN [status |-> "fresh", value |-> RegValue(ArgHome[v], m.at)]
            ELSE Failed(rows[v])
       ELSE IF ArgHome[v] = "stack" /\ "rsp" \notin m.regs
            THEN Failed(rows[v]) ELSE rows[v]

apply_reg_response(m) ==
  /\ RegAccepted(m)
  /\ rows' = [v \in DOMAIN rows |-> RegRow(m, v)]
  /\ pending_requests' =
       (pending_requests \ Awaited(m, "reg"))
          \cup (IF m.ok /\ "rsp" \in m.regs THEN StackEntries(m) ELSE {})
  /\ UNCHANGED <<current_pc, planned>>

\* Every row with the awaited name is filled, whatever address was read.
MemRow(m, v) ==
  IF Name[v] # m.rid[3] THEN rows[v]
  ELSE IF m.ok THEN [status |-> "fresh", value |-> MemValue(m.addr, m.at)]
  ELSE Failed(rows[v])

MemAccepted(m) == Awaited(m, "mem") # {}

\* Mutant: the request stays awaited.
Mut_MemStaysAwaited(m) ==
  /\ MemAccepted(m)
  /\ rows' = [v \in DOMAIN rows |-> MemRow(m, v)]
  /\ UNCHANGED <<pending_requests, current_pc, planned>>

apply_mem_response(m) ==
  /\ MemAccepted(m)
  /\ rows' = [v \in DOMAIN rows |-> MemRow(m, v)]
  /\ pending_requests' = pending_requests \ Awaited(m, "mem")
  /\ UNCHANGED <<current_pc, planned>>

\* DayVarController.disconnect: only the pending requests are dropped.
core_disconnect ==
  /\ pending_requests' = {}
  /\ UNCHANGED <<current_pc, rows, planned>>
=============================================================================
