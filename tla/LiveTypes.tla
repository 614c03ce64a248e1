------------------------------ MODULE LiveTypes ------------------------------
(***************************************************************************)
(* The data that the WinDbg extension and the IDA plugin exchange, reduced  *)
(* to what decides whether a displayed value is right.                      *)
(*                                                                          *)
(* The debuggee is a sequence of instants 0, 1, 2, ...: it is stopped at    *)
(* one instant and moves to the next one each time it runs.  A value read   *)
(* from it is not a number but a note of where and when it was read:        *)
(*   src - the register, or the stack slot named by the variable it is for; *)
(*   sp  - for a stack slot, the instant at which the rsp that the address  *)
(*         was computed from had been read;                                 *)
(*   at  - the instant at which the debugger read it.                       *)
(* Register and memory contents, widths, formatting and address arithmetic  *)
(* are abstracted by that note: two reads are told apart exactly when they  *)
(* differ in place or in time.                                              *)
(***************************************************************************)
EXTENDS Naturals, Sequences, FiniteSets, SequencesExt

CONSTANTS
  Locs,       \* runtime program counters
  Funcs,      \* functions of the open database
  Lvars,      \* Hex-Rays local variables (and arguments) of all functions
  Regs,       \* names of general purpose registers, "rsp" among them
  Place,      \* Place[l]: how IDA sees the program counter l
  FuncOf,     \* FuncOf[l]: the function that contains l
  LvarsOf,    \* LvarsOf[f]: the variables Hex-Rays enumerates for f
  ArgHome,    \* ArgHome[v]: a register, "stack", or "local" (not an argument)
  Name,       \* Name[v]: the displayed name, not necessarily unique
  Evidence    \* Evidence[l][v]: what static recovery proves of local v at l

(***************************************************************************)
(* Place: "foreign" cannot be mapped into the database, "opaque" maps but   *)
(* Hex-Rays cannot enumerate variables there, "entry" is the first address  *)
(* of its function, "body" any other address.                               *)
(***************************************************************************)
Places == {"foreign", "opaque", "entry", "body"}

\* Registers whose read gives a value; rsp only serves to find stack slots.
Homes == (Regs \ {"rsp"}) \cup {"stack"}

\* A response's runtime_pc when the field is missing or empty.
NoRuntimePc == ""

ASSUME LocsAssumption ==
  /\ "rsp" \in Regs /\ {"stack", "local", "none", "constant"} \cap Regs = {}
  /\ IsFiniteSet(Lvars) /\ {"none", "constant"} \cap Lvars = {}
  /\ Locs # {} /\ NoRuntimePc \notin Locs /\ Place \in [Locs -> Places]
  /\ FuncOf \in [Locs -> Funcs]

ASSUME LvarsAssumption ==
  /\ LvarsOf \in [Funcs -> SUBSET Lvars]
  /\ ArgHome \in [Lvars -> Homes \cup {"local"}]
  /\ Evidence \in [Locs -> [Lvars -> Homes \cup {"none", "constant"}]]

\* Stands for None where a location or a function is expected.
NoLoc == CHOOSE l \in Locs : TRUE

IsArg(v) == ArgHome[v] # "local"

\* The register a read of that home needs: itself, or rsp for a stack slot.
Needs(home) == IF home = "stack" THEN "rsp" ELSE home

-----------------------------------------------------------------------------
(* Values and rows *)

Value == [src : Regs \cup Lvars \cup {"none", "constant"}, sp : Nat, at : Nat]
NoValue == [src |-> "none", sp |-> 0, at |-> 0]

RegValue(r, t) == [src |-> r, sp |-> 0, at |-> t]
MemValue(addr, t) == [src |-> addr.slot, sp |-> addr.sp, at |-> t]
ConstantValue == [src |-> "constant", sp |-> 0, at |-> 0]

\* What variable v, living in home, holds at instant t.
TrueValue(home, v, t) ==
  CASE home = "constant" -> ConstantValue
    [] home = "stack" -> MemValue([sp |-> t, slot |-> v], t)
    [] OTHER -> RegValue(home, t)

Statuses == {"unavailable", "fresh", "stale", "error"}
Row == [status : Statuses, value : Value]

\* A stack address: the slot of a variable, relative to the rsp of an instant.
\* NoAddr is no address: none is awaited, or an answer does not say where its
\* bytes were read.
Addr == [sp : Nat, slot : Lvars \cup {"none"}]
NoAddr == [sp |-> 0, slot |-> "none"]

-----------------------------------------------------------------------------
(* Messages.  A request id is the triple that its text is built from:       *)
(*   reg-<seq>-entry, mem-<seq>-<name>, v-reg-<seq>-runtime, v-mem-<seq>-<v> *)

RidKinds == {"reg", "mem", "v-reg", "v-mem"}
Labels == {"entry", "runtime"} \cup Lvars \cup {Name[v] : v \in Lvars}
Rid == RidKinds \X Nat \X Labels

PcUpdateMsg == [type : {"pc_update"}, seq : Nat, loc : Locs, auto : BOOLEAN,
                at : Nat]
RegResponseMsg == [type : {"reg_response"}, seq : Nat, rid : Rid, loc : Locs,
                   ok : BOOLEAN, regs : SUBSET Regs, at : Nat]
MemResponseMsg == [type : {"mem_response"}, seq : Nat, rid : Rid, loc : Locs,
                   ok : BOOLEAN, addr : Addr, at : Nat]
RegRequestMsg == [type : {"reg_request"}, seq : Nat, rid : Rid, loc : Locs,
                  regs : SUBSET Regs]
MemRequestMsg == [type : {"mem_request"}, seq : Nat, rid : Rid, loc : Locs,
                  addr : Addr]
\* hello_ack, ida_pc_mapped and broker errors: the extension only logs them.
LoggedMsg == [type : {"logged"}]
Logged == [type |-> "logged"]

IdaMsg == PcUpdateMsg \cup RegResponseMsg \cup MemResponseMsg
WdMsg == RegRequestMsg \cup MemRequestMsg \cup LoggedMsg
=============================================================================
