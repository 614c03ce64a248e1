--------------------------- MODULE StaticRecovery ---------------------------
(***************************************************************************)
(* The static half of the recovery of locals                                *)
(* (ida_plugin/v_variable_recovery.py, analyze_v_variable_candidates): for  *)
(* one local and the PC the debugger stopped at, three searches over the    *)
(* control-flow graph decide whether the local's home may be read and       *)
(* reported as its exact value.  LiveSync takes the answer as its constant  *)
(* Evidence; here the answer is computed, and then judged by an execution   *)
(* of the function that walks the graph from its entry.                     *)
(*                                                                          *)
(* A function is a graph of blocks of instructions, and an instruction is   *)
(* what the analysis knows of it.  One instruction stands for a native      *)
(* instruction and the microcode at its address, so that a position has the *)
(* same index in both graphs; a microinstruction without an address has no  *)
(* native counterpart and the native search does not see it.  The native    *)
(* graph is the microcode graph without Hex-Rays's empty entry block.       *)
(* A place <<b, i>> of block b is the point after its first i instructions. *)
(***************************************************************************)
EXTENDS Naturals, Sequences, FiniteSets

CONSTANTS
  Blocks,     \* the blocks of the microcode graph
  Entry,      \* Hex-Rays's entry block: no instructions, no predecessors
  Codes,      \* codes[b] is the sequence of instructions of block b
  Graphs,     \* the edges, as the successor and the predecessor lists of blocks
  Points,     \* the places the debugger stops at
  Locals      \* the locals asked about

(***************************************************************************)
(* whole, overlap, use - _CfgInstructionFact: defines the whole local, part *)
(*            of it or storage it shares, reads it;                         *)
(* located  - it has an address;                                            *)
(* writes   - the byte ranges <<offset, size>> it writes in the home's      *)
(*            register or frame, if known holds (_register_writes,          *)
(*            _native_stack_writes: otherwise it may write anything);       *)
(* call     - is_call;                                                      *)
(* const    - what the definition moves: "micro", a constant in the         *)
(*            microcode only; "native", an immediate of the instruction     *)
(*            too; "disputed", such a one that the ctree contradicts;       *)
(*            "none".                                                       *)
(***************************************************************************)
Instruction ==
  [whole : BOOLEAN, overlap : BOOLEAN, use : BOOLEAN, located : BOOLEAN,
   writes : SUBSET (Nat \X Nat), known : BOOLEAN, call : BOOLEAN,
   const : {"none", "micro", "native", "disputed"}]

(***************************************************************************)
(* usable - the APIs are there, the function is x64, the local has a        *)
(*          supported width and is not scattered, shared or taken by        *)
(*          reference;                                                      *)
(* storage - "register" when _register_spec_from_lvar names the register,   *)
(*          "unnamed" when it cannot though the local is in one, "stack"    *)
(*          when the frame offset is known and not aliasable, "frame" when  *)
(*          it is not, "none";                                              *)
(* home   - the byte range <<offset, size>> of the local in it.             *)
(***************************************************************************)
Local ==
  [usable : BOOLEAN, storage : {"register", "unnamed", "stack", "frame", "none"},
   home : Nat \X Nat]

Graph == [succs : [Blocks -> SUBSET Blocks], preds : [Blocks -> SUBSET Blocks]]

Places == Blocks \X Nat

ASSUME ProgramAssumption ==
  /\ IsFiniteSet(Blocks)
  /\ Entry \in Blocks
  /\ Codes \subseteq [Blocks -> Seq(Instruction)]
  /\ Graphs \subseteq Graph
  /\ Points \subseteq (Blocks \ {Entry}) \X Nat
  /\ Locals \subseteq Local
  /\ \A c \in Codes :
       /\ c[Entry] = <<>>
       /\ \A p \in Points : p[2] < Len(c[p[1]])
       /\ \A b \in Blocks : \A i \in 1..Len(c[b]) :
            ~c[b][i].located =>
              c[b][i].writes = {} /\ c[b][i].known /\ ~c[b][i].call
  /\ \A g \in Graphs :
       g.preds[Entry] = {} /\ \A b \in Blocks : Entry \notin g.succs[b]

VARIABLES
  prog,       \* the code, graph, stop and local analysed; never changes
  phase,      \* "start", "reaching", "uses", "storage" or "done"
  pending,    \* states of the running search still to be visited
  back,       \* visited states of _find_reaching_definitions,
  fwd,        \* of _find_future_uses,
  native,     \* and of _validate_register_storage_cfg
  exhausted,  \* the running search gave up on its budget
  answer,     \* the kind of evidence, or the reason there is none
  selected,   \* the definition the evidence is based on
  at,         \* execution: the place it has come to,
  last,       \* the last instruction that changed the local,
  good,       \* the bytes of the home that hold the local's value, and
  watch       \* the local since the stop: "idle", "armed" or "used"

analysisVars == <<phase, pending, back, fwd, native, exhausted, answer, selected>>
execVars == <<at, last, good, watch>>
vars == <<prog, analysisVars, execVars>>

None == <<Entry, 0>>

Program == [code : Codes, graph : Graphs, cur : Points, local : Locals]

Insn(b, i) == prog.code[b][i]
Defines(n) == n.whole \/ n.overlap

Init ==
  /\ prog \in Program
  /\ phase = "start" /\ answer = "none" /\ selected = None
  /\ pending = {} /\ back = {} /\ fwd = {} /\ native = {}
  /\ exhausted = FALSE
  /\ at = <<Entry, 0>> /\ last = None /\ good = {} /\ watch = "idle"

-----------------------------------------------------------------------------
(***************************************************************************)
(* What the three searches share: a worklist of places, a visited set, a    *)
(* budget, and the test for a cycle among the visited places.               *)
(***************************************************************************)
\* Mutant: one visit per block.
BudgetPerBlock == Cardinality(Blocks)

Budget ==
  LET scaled == Cardinality(Blocks) * 4 + 4 IN IF scaled < 64 THEN 64 ELSE scaled

End(b) == <<b, Len(prog.code[b])>>

\* Kahn's algorithm leaves nodes over exactly when each of them has an edge
\* from another one left over.
_graph_has_cycle(edges) ==
  \E left \in (SUBSET DOMAIN edges) \ {{}} : \A n \in left : \E m \in left : n \in edges[m]

\* Mutant: a place already visited is put on the list again.
VisitAgain(visited, s, next) ==
  /\ visited' = visited \cup {s}
  /\ pending' = (pending \ {s}) \cup next
  /\ UNCHANGED exhausted

\* One turn of a search's loop: s is taken off the list, the list is left
\* there when the budget is spent, and otherwise grows by the next places.
Visit(visited, s, next) ==
  IF Cardinality(visited) >= Budget
    THEN /\ exhausted' = TRUE /\ pending' = {}
         /\ UNCHANGED visited
    ELSE /\ visited' = visited \cup {s}
         /\ pending' = (pending \ {s}) \cup (next \ (visited \cup {s}))
         /\ UNCHANGED exhausted

-----------------------------------------------------------------------------
(***************************************************************************)
(* _find_reaching_definitions: backward from the stop to the nearest        *)
(* definition on every path.                                                *)
(***************************************************************************)
\* The scan of state s stops at the nearest definition before its limit.
Nearest(s) ==
  {i \in 1..s[2] : /\ Defines(Insn(s[1], i))
                   /\ \A j \in (i + 1)..s[2] : ~Defines(Insn(s[1], j))}

Before(s) ==
  IF Nearest(s) = {} THEN {End(b) : b \in prog.graph.preds[s[1]]} ELSE {}

Definitions == UNION {{<<s[1], i>> : i \in {k \in Nearest(s) : Insn(s[1], k).whole}} : s \in back}
OverlappingDefinition == \E s \in back : \E i \in Nearest(s) : Insn(s[1], i).overlap
UnresolvedPath == \E s \in back : Nearest(s) = {} /\ prog.graph.preds[s[1]] = {}

ReachingLoop == _graph_has_cycle([s \in back |-> Before(s)])

ReachingRejection ==
  IF OverlappingDefinition THEN "ambiguous"
  ELSE IF Definitions = {} THEN "no_definition"
  ELSE IF \A d \in Definitions : Definitions # {d} THEN "ambiguous"
  ELSE IF UnresolvedPath THEN "no_definition"
  ELSE IF ReachingLoop \/ exhausted THEN "ambiguous"
  ELSE "accepted"

(***************************************************************************)
(* _find_future_uses: forward from the stop to the first use or             *)
(* redefinition on every path.  A use without an address is only noted.     *)
(***************************************************************************)
Settles(n) == (n.use /\ n.located) \/ Defines(n)

Ahead(s) == (s[2] + 1)..Len(prog.code[s[1]])

\* The instructions the scan of state s looks at: up to the first that settles.
Scanned(s) ==
  {i \in Ahead(s) : \A j \in (s[2] + 1)..(i - 1) : ~Settles(Insn(s[1], j))}

After(s) ==
  IF \E i \in Ahead(s) : Settles(Insn(s[1], i)) THEN {}
  ELSE {<<b, 0>> : b \in prog.graph.succs[s[1]]}

HasUse ==
  \E s \in fwd : \E i \in Scanned(s) : Insn(s[1], i).use /\ Insn(s[1], i).located
UnresolvedUse ==
  \E s \in fwd : \E i \in Scanned(s) : Insn(s[1], i).use /\ ~Insn(s[1], i).located

FutureLoop == _graph_has_cycle([s \in fwd |-> After(s)])

\* Mutant: a use without an address does not count.
LocatedUsesOnly ==
  IF HasUse THEN "accepted"
  ELSE IF FutureLoop \/ exhausted THEN "unproven"
  ELSE "not_live"

FutureUseRejection ==
  IF HasUse THEN "accepted"
  ELSE IF UnresolvedUse \/ FutureLoop \/ exhausted THEN "unproven"
  ELSE "not_live"

(***************************************************************************)
(* _validate_register_storage_cfg: backward over the native graph from the  *)
(* stop to the selected definition, past nothing that may write the home.   *)
(***************************************************************************)
Covers(w, h) == w[1] <= h[1] /\ w[1] + w[2] >= h[1] + h[2]
Overlaps(w, h) == w[1] < h[1] + h[2] /\ h[1] < w[1] + w[2]

\* A 32-bit write of a general register zeroes its upper half.
RegisterWrite(w) == IF w = <<0, 4>> THEN <<0, 8>> ELSE w
RegisterWrites(n) == {RegisterWrite(w) : w \in n.writes}

\* Mutant: a call is an instruction like any other.
ClobbersExplicitly(n) == \E w \in RegisterWrites(n) : Overlaps(w, prog.local.home)

Clobbers(n) == n.call \/ \E w \in RegisterWrites(n) : Overlaps(w, prog.local.home)

NativeStop(b, i) ==
  LET n == Insn(b, i)
  IN  n.located /\ (<<b, i>> = selected \/ ~n.known \/ Clobbers(n))

NativeNearest(s) ==
  {i \in 1..s[2] : NativeStop(s[1], i) /\ \A j \in (i + 1)..s[2] : ~NativeStop(s[1], j)}

NativePreds(b) == prog.graph.preds[b] \ {Entry}
NativeEmpty(b) == \A i \in 1..Len(prog.code[b]) : ~Insn(b, i).located
NativeBefore(s) ==
  IF NativeNearest(s) = {} /\ ~NativeEmpty(s[1])
    THEN {End(b) : b \in NativePreds(s[1])} ELSE {}

DefinitionHolds(n) ==
  n.known /\ \E w \in RegisterWrites(n) : Covers(w, prog.local.home)

StopSites == UNION {{<<s[1], i>> : i \in NativeNearest(s)} : s \in native}
Clobbered ==
  \E d \in StopSites :
    LET n == Insn(d[1], d[2])
    IN  IF d = selected THEN ~DefinitionHolds(n) ELSE n.known /\ Clobbers(n)
UnresolvedNative ==
  \/ \E d \in StopSites : d # selected /\ ~Insn(d[1], d[2]).known
  \/ \E s \in native :
       NativeEmpty(s[1]) \/ (NativeNearest(s) = {} /\ NativePreds(s[1]) = {})

StorageLoop == _graph_has_cycle([s \in native |-> NativeBefore(s)])

StorageValidation ==
  IF Clobbered THEN "clobbered"
  ELSE IF StorageLoop \/ exhausted THEN "unproven"
  ELSE IF UnresolvedNative \/ selected \notin StopSites THEN "unresolved"
  ELSE "register"

(***************************************************************************)
(* _stack_definition_remains_valid: one straight line from the definition   *)
(* to the stop, in the block of the stop, and of no more than the 4096      *)
(* instructions the code looks at.                                          *)
(***************************************************************************)
StackDefinitionRemainsValid ==
  LET b == prog.cur[1]
      line == {i \in selected[2]..prog.cur[2] : Insn(b, i).located}
  IN  /\ selected[1] = b /\ selected[2] <= prog.cur[2]
      /\ \A i \in line : Insn(b, i).known
      /\ \E w \in Insn(b, selected[2]).writes : Covers(w, prog.local.home)
      /\ \A i \in line \ {selected[2]} :
           \A w \in Insn(b, i).writes : ~Overlaps(w, prog.local.home)

-----------------------------------------------------------------------------
(***************************************************************************)
(* analyze_v_variable_candidates and _analyze_one_lvar: the searches one    *)
(* after the other, each able to reject the local.                          *)
(***************************************************************************)
\* Mutant: no evidence is recorded.
FinishUnrecorded(kind) == phase' = "done" /\ UNCHANGED answer

Finish(kind) == phase' = "done" /\ answer' = kind

\* Mutant: only the predecessor lists are checked against the successor lists.
PredsAreReciprocal == \A b, c \in Blocks : b \in prog.graph.preds[c] => c \in prog.graph.succs[b]

\* _validate_cfg_reciprocity
Reciprocal ==
  \A b, c \in Blocks : c \in prog.graph.succs[b] <=> b \in prog.graph.preds[c]

Start ==
  /\ phase = "start"
  /\ IF ~prog.local.usable \/ ~Reciprocal
       THEN Finish("refused") /\ UNCHANGED pending
     ELSE IF ~Insn(prog.cur[1], prog.cur[2] + 1).located
       THEN Finish("unresolved") /\ UNCHANGED pending
     ELSE /\ phase' = "reaching" /\ pending' = {prog.cur}
          /\ UNCHANGED answer
  /\ UNCHANGED <<prog, back, fwd, native, exhausted, selected, execVars>>

VisitReaching ==
  /\ phase = "reaching"
  /\ \E s \in pending : Visit(back, s, Before(s))
  /\ UNCHANGED <<prog, phase, fwd, native, answer, selected, execVars>>

\* The selected definition needs an address before the liveness is looked at.
SelectDefinition ==
  /\ phase = "reaching" /\ pending = {}
  /\ exhausted' = FALSE
  /\ IF ReachingRejection # "accepted"
       THEN /\ Finish(ReachingRejection)
            /\ UNCHANGED <<pending, selected>>
       ELSE \E d \in Definitions :
              IF ~Insn(d[1], d[2]).located
                THEN Finish("no_definition") /\ UNCHANGED <<pending, selected>>
                ELSE /\ selected' = d
                     /\ phase' = "uses" /\ pending' = {prog.cur}
                     /\ UNCHANGED answer
  /\ UNCHANGED <<prog, back, fwd, native, execVars>>

VisitUses ==
  /\ phase = "uses"
  /\ \E s \in pending : Visit(fwd, s, After(s))
  /\ UNCHANGED <<prog, phase, back, native, answer, selected, execVars>>

\* A constant is preferred when the instruction itself has the immediate, or
\* when there is no register to read.
PreferConstant ==
  LET c == Insn(selected[1], selected[2]).const
  IN  c \in {"native", "disputed"} \/ (c = "micro" /\ prog.local.storage # "register")

ChooseSource ==
  /\ phase = "uses" /\ pending = {}
  /\ exhausted' = FALSE
  /\ IF FutureUseRejection # "accepted"
       THEN Finish(FutureUseRejection) /\ UNCHANGED pending
     ELSE IF PreferConstant
       THEN /\ UNCHANGED pending
            /\ Finish(IF Insn(selected[1], selected[2]).const = "disputed"
                        THEN "no_definition" ELSE "constant")
     ELSE IF prog.local.storage = "register"
       THEN \/ /\ phase' = "storage" /\ pending' = {prog.cur}
               /\ UNCHANGED answer
            \/ Finish("unresolved") /\ UNCHANGED pending  \* there is no native graph
     ELSE /\ UNCHANGED pending
          /\ Finish(CASE prog.local.storage = "unnamed" -> "ambiguous_register"
                       [] prog.local.storage = "stack" ->
                            IF StackDefinitionRemainsValid THEN "stack" ELSE "unresolved_stack"
                       [] prog.local.storage = "frame" -> "unresolved_stack"
                       [] prog.local.storage = "none" -> "no_definition")
  /\ UNCHANGED <<prog, back, fwd, native, selected, execVars>>

\* A definition in the block of the stop, at the stop or after it, was
\* rejected before the search.
LaterInBlock == selected[1] = prog.cur[1] /\ selected[2] > prog.cur[2]

VisitStorage ==
  /\ phase = "storage" /\ ~LaterInBlock
  /\ \E s \in pending : Visit(native, s, NativeBefore(s))
  /\ UNCHANGED <<prog, phase, back, fwd, answer, selected, execVars>>

ValidateStorage ==
  /\ phase = "storage" /\ (pending = {} \/ LaterInBlock)
  /\ pending' = {}
  /\ Finish(IF LaterInBlock THEN "unresolved" ELSE StorageValidation)
  /\ UNCHANGED <<prog, back, fwd, native, exhausted, selected, execVars>>

Analyze ==
  Start \/ VisitReaching \/ SelectDefinition \/ VisitUses \/ ChooseSource
    \/ VisitStorage \/ ValidateStorage

-----------------------------------------------------------------------------
(***************************************************************************)
(* The function runs.  External: what the processor does to the home, and   *)
(* what Hex-Rays promises of its facts (a whole definition leaves the value *)
(* in whatever it writes of the home; a local that is neither shared nor    *)
(* aliasable changes only where a definition is).  An instruction the       *)
(* analysis cannot decode, and a call for a register, are taken at their    *)
(* worst: no byte of the home survives.  Only functions with an answer that *)
(* claims something are run.                                                *)
(***************************************************************************)
Claims == {"register", "stack", "constant", "not_live"}

Bytes(w) == w[1]..(w[1] + w[2] - 1)
HomeBytes == Bytes(prog.local.home)

Touched(n) ==
  UNION {Bytes(IF prog.local.storage = "register" /\ w = <<0, 4>> THEN <<0, 8>> ELSE w) :
           w \in n.writes}

GoodAfter(n) ==
  IF ~n.known THEN {}
  ELSE IF Defines(n)
    THEN IF n.overlap THEN {} ELSE HomeBytes \cap Touched(n)
  ELSE IF n.call /\ prog.local.storage = "register" THEN {}
  ELSE good \ Touched(n)

\* The local since the latest stop: reading it before it is defined again.
WatchAfter(n) ==
  LET armed == watch = "armed" \/ (at = prog.cur /\ watch # "used")
  IN  IF armed /\ n.use THEN "used"
      ELSE IF armed /\ ~Defines(n) THEN "armed"
      ELSE IF watch = "used" THEN "used" ELSE "idle"

Execute ==
  /\ phase = "done" /\ answer \in Claims
  /\ at[2] < Len(prog.code[at[1]])
  /\ LET n == Insn(at[1], at[2] + 1)
         here == <<at[1], at[2] + 1>>
     IN  /\ at' = here
         /\ last' = IF Defines(n) THEN here ELSE last
         /\ good' = GoodAfter(n)
         /\ watch' = WatchAfter(n)
  /\ UNCHANGED <<prog, analysisVars>>

Branch ==
  /\ phase = "done" /\ answer \in Claims
  /\ at = End(at[1])
  /\ \E b \in prog.graph.succs[at[1]] : at' = <<b, 0>>
  /\ UNCHANGED <<prog, analysisVars, last, good, watch>>

Next == Analyze \/ Execute \/ Branch

Spec == Init /\ [][Next]_vars

FairSpec == Spec /\ WF_vars(Analyze)

-----------------------------------------------------------------------------
Answers ==
  {"none", "refused", "unresolved", "ambiguous", "no_definition", "unproven",
   "not_live", "clobbered", "constant", "register", "stack",
   "ambiguous_register", "unresolved_stack"}

TypeOK ==
  /\ prog \in Program
  /\ phase \in {"start", "reaching", "uses", "storage", "done"}
  /\ pending \subseteq Places
  /\ back \subseteq Places /\ fwd \subseteq Places /\ native \subseteq Places
  /\ exhausted \in BOOLEAN
  /\ answer \in Answers /\ (phase = "done" <=> answer # "none")
  /\ selected \in Places
  /\ at \in Places /\ at[2] <= Len(prog.code[at[1]])
  /\ last \in Places
  /\ good \subseteq HomeBytes
  /\ watch \in {"idle", "armed", "used"}

Reported == {"register", "stack", "constant"}

(***************************************************************************)
(* Whenever an execution, along whatever path and after however many turns  *)
(* of a loop, comes to the PC the analysis was asked about, the definition  *)
(* that _find_reaching_definitions selected is the last one that changed    *)
(* the local: a constant read off it is the local's value, and no other     *)
(* definition left something newer in the home.                             *)
(***************************************************************************)
SelectedIsLast == answer \in Reported /\ at = prog.cur => last = selected

(***************************************************************************)
(* When the evidence names a register or a stack slot, every byte of it     *)
(* holds the local at the stop, on every path there: no call, no narrower   *)
(* write, no reuse of the register and no undecoded instruction can come    *)
(* between the definition and the stop.  This is what LiveSync assumes of   *)
(* its constant Evidence.                                                   *)
(***************************************************************************)
HomeIsExact == answer \in {"register", "stack"} /\ at = prog.cur => good = HomeBytes

(***************************************************************************)
(* A local reported as not live is not read again after the stop before it  *)
(* is defined again, whichever way the execution goes.                      *)
(***************************************************************************)
DeadIsDead == answer = "not_live" => watch # "used"

(***************************************************************************)
(* No search is cut short by its budget: max(64, 4 * blocks + 4) is more    *)
(* than the places a search can visit, so that a local is not rejected for  *)
(* the number of blocks of its function.  The caps on the instructions of a *)
(* function (100000) and of a stack check's line (4096) are left out.       *)
(***************************************************************************)
BudgetSuffices == ~exhausted

(***************************************************************************)
(* The analysis ends, with loops in the graph too, given that the searches' *)
(* loops keep running: they run on one thread, without waiting on anything. *)
(***************************************************************************)
AnalysisEnds == <>(phase = "done")

=============================================================================
