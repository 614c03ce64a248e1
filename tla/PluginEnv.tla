------------------------------ MODULE PluginEnv ------------------------------
(***************************************************************************)
(* The plugin against any peer: instead of the extension, an environment    *)
(* that may send every message of the protocol at any time, so that answers *)
(* are duplicated, belong to an earlier PC, name a request that was never   *)
(* made, carry another address than the one asked for, or leave out the     *)
(* address or the PC.  No extension is registered (wdUp is FALSE), so the   *)
(* plugin's own requests go nowhere.                                        *)
(***************************************************************************)
EXTENDS DayVarPlugin

CONSTANTS
  EnvSeqs,     \* pc_seq values the environment uses
  EnvLocs,     \* the program counters its answers are for
  EnvAddrs,    \* the addresses it says it has read
  EnvRegs      \* the sets of registers it answers with

ASSUME EnvAssumption ==
  /\ EnvSeqs \subseteq Nat \ {0}
  /\ EnvLocs \subseteq Locs
  /\ EnvAddrs \subseteq Addr
  /\ EnvRegs \subseteq SUBSET Regs

\* The ids a request made under that pc_seq can have.
EnvRids(seq) ==
  {<<"reg", seq, "entry">>, <<"v-reg", seq, "runtime">>}
  \cup ({"mem"} \X {seq} \X {Name[v] : v \in Lvars}) \cup ({"v-mem"} \X {seq} \X Lvars)

\* A response may leave out its runtime_pc, and a mem_response its address.
PcOf == EnvLocs \cup {NoRuntimePc}
AddrOf == EnvAddrs \cup {NoAddr}

EnvMsgs ==
  [type : {"pc_update"}, seq : EnvSeqs, loc : Locs, auto : BOOLEAN, at : {1}]
  \cup (UNION {[type : {"reg_response"}, seq : {n}, rid : EnvRids(n), loc : PcOf,
                ok : BOOLEAN, regs : EnvRegs, at : {1}] : n \in EnvSeqs})
  \cup (UNION {[type : {"mem_response"}, seq : {n}, rid : EnvRids(n), loc : PcOf,
                ok : BOOLEAN, addr : AddrOf, at : {1}] : n \in EnvSeqs})

EnvInit ==
  /\ toIda = <<>> /\ toWd = <<>> /\ wdUp = FALSE /\ idaUp = FALSE
  /\ PluginInit

EnvSend ==
  /\ idaUp
  /\ toIda = <<>>
  /\ \E m \in EnvMsgs : toIda' = <<m>>
  /\ UNCHANGED <<toWd, wdUp, idaUp, pluginVars>>

EnvNext == EnvSend \/ PluginNext

envVars == <<linkVars, pluginVars>>

EnvSpec == EnvInit /\ [][EnvNext]_envVars

-----------------------------------------------------------------------------
\* The entries awaited for registers, and those awaited for memory.
AwaitedRegs == {p \in pending_requests \cup v_pending : p.rid[1] \in {"reg", "v-reg"}}
AwaitedMems == {p \in pending_requests \cup v_pending : p.rid[1] \in {"mem", "v-mem"}}

\* A step that changes the table, other than by a pc_update, takes a request out.
UsesUpRequest ==
  view' # view /\ Head(toIda).type # "pc_update" =>
    \/ Cardinality(AwaitedRegs') < Cardinality(AwaitedRegs)
    \/ AwaitedRegs' = AwaitedRegs /\ Cardinality(AwaitedMems') < Cardinality(AwaitedMems)

(***************************************************************************)
(* Under one PC every change of the table uses up a request that was        *)
(* awaited, and only the answer to a register request adds memory requests: *)
(* an answer that is repeated, late or not asked for changes nothing        *)
(* (_take_pending_response and _take_pending take the entry out).           *)
(***************************************************************************)
AnswersUseUpRequests == [][UsesUpRequest]_envVars

\* The value is of that home of v, or memory from a place that is not stated.
OfHome(home, v, value) ==
  \/ value = TrueValue(home, v, 1)
  \/ home = "stack" /\ value = MemValue(NoAddr, 1)

(***************************************************************************)
(* A local is shown as fresh only for the place proved for it at the        *)
(* current PC, whatever the peer answers: with its register, or with bytes  *)
(* of its own slot at the address computed from the rsp of the accepted     *)
(* register response.  apply_mem_response refuses another address and goes  *)
(* on waiting; only bytes whose address the peer leaves out may be of       *)
(* another place.                                                           *)
(***************************************************************************)
LocalsFromTheirHome ==
  \A v \in DOMAIN records :
    records[v].status = "fresh" =>
      /\ records[v].home = Evidence[v_context.loc][v]
      /\ OfHome(records[v].home, v, records[v].value)

(***************************************************************************)
(* What docs/03_variable_model.md and ida_plugin/README.md say: memory      *)
(* replies must match the planned address, so a local on the stack is fresh *)
(* only with bytes read there.  The code also takes a reply without one     *)
(* (v_variable_recovery.py, apply_mem_response).                            *)
(***************************************************************************)
RepliesMatchAddress ==
  \A v \in DOMAIN records :
    records[v].status = "fresh" /\ records[v].home = "stack" =>
      records[v].value = TrueValue("stack", v, 1)

-----------------------------------------------------------------------------
(* The inductive invariants behind the two properties.                      *)

(* The two dictionaries of awaited requests are finite and keep to their    *)
(* own kinds of ids, so that taking an entry out of one leaves one fewer.   *)
PendingInv ==
  /\ IsFiniteSet(pending_requests) /\ IsFiniteSet(v_pending)
  /\ \A p \in pending_requests : p.rid[1] \in {"reg", "mem"}
  /\ \A p \in v_pending : p.rid[1] \in {"v-reg", "v-mem"}
  /\ planned.func \in Funcs

(* The records are of the context's function, each with the place proved    *)
(* for it there or none, and an awaited memory read is for the own slot of  *)
(* a local on the stack.                                                    *)
RecordInv ==
  /\ DOMAIN records \subseteq Lvars
  /\ \A v \in DOMAIN records :
       LET r == records[v] IN
       /\ r = [status |-> r.status, value |-> r.value, last |-> r.last, home |-> r.home]
       /\ r.home \in {"none", Evidence[v_context.loc][v]}
  /\ \A p \in v_pending : p.rid[1] = "v-mem" =>
       /\ p.rid[3] \in DOMAIN records /\ records[p.rid[3]].home = "stack"
       /\ p.addr = [sp |-> 1, slot |-> p.rid[3]]

EnvInv == toIda \in Seq(EnvMsgs) /\ PendingInv /\ RecordInv /\ LocalsFromTheirHome
=============================================================================
