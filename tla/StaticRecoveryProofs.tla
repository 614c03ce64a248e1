----------------------- MODULE StaticRecoveryProofs -----------------------
(***************************************************************************)
(* StaticRecovery's answers are right for every function, stop and local:   *)
(* TypeOK, SelectedIsLast, HomeIsExact, DeadIsDead and BudgetSuffices are   *)
(* invariants.                                                              *)
(*                                                                          *)
(* The visited sets are the certificates.  A search that ran to its end has *)
(* visited every place its paths lead through, so that an execution, step   *)
(* by step, stays among them: going forward it keeps what the backward      *)
(* searches saw (BackInv, NativeInv, StackInv), and after the stop it stays *)
(* among what the forward search saw (WatchInv).                            *)
(***************************************************************************)
EXTENDS StaticRecovery, FiniteSetTheorems, TLAPS

\* The places a search can visit: the stop, and one place per block.
Ends == {prog.cur} \cup {End(b) : b \in Blocks}
Starts == {prog.cur} \cup {<<b, 0>> : b \in Blocks}

Shape ==
  /\ back \subseteq Ends /\ native \subseteq Ends /\ fwd \subseteq Starts
  /\ phase \in {"reaching", "storage"} => pending \subseteq Ends
  /\ phase = "uses" => pending \subseteq Starts
  /\ phase = "start" => back = {}
  /\ phase \in {"start", "reaching"} => fwd = {}
  /\ phase \in {"start", "reaching", "uses"} => native = {}
  /\ ~exhausted

Reached(visited, list) == prog.cur \in visited \cup list

BackSearch == Reached(back, pending) /\ \A s \in back : Before(s) \subseteq back \cup pending
FwdSearch == Reached(fwd, pending) /\ \A s \in fwd : After(s) \subseteq fwd \cup pending
NativeSearch ==
  Reached(native, pending) /\ \A s \in native : NativeBefore(s) \subseteq native \cup pending

\* What the accepted result of each search has established.
Accepted ==
  /\ Reciprocal
  /\ prog.cur \in back /\ \A s \in back : Before(s) \subseteq back
  /\ Definitions = {selected} /\ ~OverlappingDefinition /\ ~UnresolvedPath
  /\ selected[2] > 0 /\ selected[2] <= Len(prog.code[selected[1]])
  /\ Insn(selected[1], selected[2]).located
  /\ Insn(selected[1], selected[2]).whole /\ ~Insn(selected[1], selected[2]).overlap

SearchInv ==
  /\ phase = "reaching" => Reciprocal /\ BackSearch
  /\ phase \in {"uses", "storage"} => Accepted
  /\ phase = "uses" => FwdSearch
  /\ phase = "storage" => NativeSearch /\ prog.local.storage = "register"
  /\ answer \in Claims => Accepted
  /\ answer = "not_live" =>
       /\ prog.cur \in fwd /\ \A s \in fwd : After(s) \subseteq fwd
       /\ ~HasUse /\ ~UnresolvedUse
  /\ answer = "register" =>
       /\ prog.local.storage = "register"
       /\ prog.cur \in native /\ \A s \in native : NativeBefore(s) \subseteq native
       /\ ~Clobbered /\ ~UnresolvedNative
  /\ answer = "stack" => prog.local.storage = "stack" /\ StackDefinitionRemainsValid

\* Execution: no definition (no native stop) between here and a visited place
\* of this block means the selected definition is the last one (still holds).
BackInv ==
  answer \in Claims =>
    \A s \in back :
      /\ s[1] = at[1] /\ at[2] <= s[2]
      /\ \A i \in (at[2] + 1)..s[2] : ~Defines(Insn(s[1], i))
      => last = selected

NativeInv ==
  answer = "register" =>
    \A s \in native :
      /\ s[1] = at[1] /\ at[2] <= s[2]
      /\ \A i \in (at[2] + 1)..s[2] : ~NativeStop(s[1], i)
      /\ last = selected
      => good = HomeBytes

StackInv ==
  answer = "stack" =>
    (/\ at[1] = prog.cur[1] /\ selected[2] <= at[2] /\ at[2] <= prog.cur[2]
     /\ last = selected
     => good = HomeBytes)

WatchInv ==
  answer = "not_live" =>
    /\ watch # "used"
    /\ watch = "armed" =>
         \E s \in fwd :
           /\ s[1] = at[1] /\ s[2] <= at[2]
           /\ \A i \in (s[2] + 1)..at[2] : ~Settles(Insn(s[1], i))

ExecInv ==
  /\ phase # "done" => at = <<Entry, 0>> /\ last = None /\ watch = "idle"
  /\ at[1] = Entry => last = None
  /\ BackInv /\ NativeInv /\ StackInv /\ WatchInv

IInv == TypeOK /\ Shape /\ SearchInv /\ ExecInv

-----------------------------------------------------------------------------
\* The types of the parts of a program.
LEMMA ProgTypes ==
  ASSUME prog \in Program
  PROVE  /\ prog.code \in [Blocks -> Seq(Instruction)]
         /\ prog.graph.succs \in [Blocks -> SUBSET Blocks]
         /\ prog.graph.preds \in [Blocks -> SUBSET Blocks]
         /\ prog.cur \in Places /\ prog.cur[1] # Entry
         /\ prog.cur[2] < Len(prog.code[prog.cur[1]])
         /\ prog.code[Entry] = <<>> /\ prog.graph.preds[Entry] = {}
         /\ \A b \in Blocks : Entry \notin prog.graph.succs[b]
         /\ prog.local.home \in Nat \X Nat
         /\ prog.local.storage \in {"register", "unnamed", "stack", "frame", "none"}
<1> USE ProgramAssumption DEF Program
<1>1. prog.code \in Codes /\ prog.graph \in Graphs /\ prog.cur \in Points
        /\ prog.local \in Locals
  OBVIOUS
<1>2. prog.graph \in Graph /\ prog.local \in Local /\ prog.code \in [Blocks -> Seq(Instruction)]
  BY <1>1
<1>3. prog.cur \in (Blocks \ {Entry}) \X Nat
  BY <1>1
<1>4. prog.cur \in Places /\ prog.cur[1] # Entry
  BY <1>3 DEF Places
<1> QED
  BY <1>1, <1>2, <1>4 DEF Graph, Local

\* An instruction of a block is an Instruction, and one without an address
\* writes nothing.
LEMMA InsnTypes ==
  ASSUME prog \in Program, NEW b \in Blocks, NEW i \in 1..Len(prog.code[b])
  PROVE  /\ Insn(b, i) \in Instruction
         /\ ~Insn(b, i).located =>
              Insn(b, i).writes = {} /\ Insn(b, i).known /\ ~Insn(b, i).call
<1>1. prog.code \in Codes /\ prog.code \in [Blocks -> Seq(Instruction)]
  BY ProgTypes DEF Program
<1>2. prog.code[b] \in Seq(Instruction)
  BY <1>1
<1> QED
  BY <1>1, <1>2, ProgramAssumption DEF Insn

-----------------------------------------------------------------------------
(***************************************************************************)
(* What the searches established depends on the program and the analysis    *)
(* only, so that an execution keeps it.                                     *)
(***************************************************************************)
LEMMA AnalysisKept ==
  ASSUME UNCHANGED <<prog, analysisVars>>
  PROVE  /\ Shape' = Shape
         /\ SearchInv' = SearchInv
<1> USE DEF analysisVars
<1>1. Shape' = Shape
  BY DEF Shape, Ends, Starts, End
<1>2. Reciprocal' = Reciprocal /\ BackSearch' = BackSearch /\ FwdSearch' = FwdSearch
  BY DEF Reciprocal, BackSearch, FwdSearch, Reached, Before, After, Nearest, Ahead, Insn, End
<1>3. NativeSearch' = NativeSearch
  BY DEF NativeSearch, Reached, NativeBefore, NativeNearest, NativeStop, NativePreds,
         NativeEmpty, Insn, End, Clobbers
<1>4. Accepted' = Accepted
  BY <1>2 DEF Accepted, Before, Nearest, Insn, End, Definitions, OverlappingDefinition,
         UnresolvedPath
<1>5. (\A s \in fwd : After(s) \subseteq fwd)' = (\A s \in fwd : After(s) \subseteq fwd)
  BY DEF After, Ahead, Insn
<1>6. HasUse' = HasUse /\ UnresolvedUse' = UnresolvedUse
  BY DEF HasUse, UnresolvedUse, Scanned, Ahead, Insn
<1>7. (\A s \in native : NativeBefore(s) \subseteq native)'
        = (\A s \in native : NativeBefore(s) \subseteq native)
  BY DEF NativeBefore, NativeNearest, NativeStop, NativePreds,
         NativeEmpty, Insn, End, Clobbers
<1>8. Clobbered' = Clobbered /\ UnresolvedNative' = UnresolvedNative
  BY DEF Clobbered, UnresolvedNative, StopSites, NativeNearest, NativeStop, NativePreds,
         NativeEmpty, Insn, Clobbers, DefinitionHolds
<1>9. StackDefinitionRemainsValid' = StackDefinitionRemainsValid
  BY DEF StackDefinitionRemainsValid, Insn
<1>10. SearchInv' = SearchInv
  BY <1>2, <1>3, <1>4, <1>5, <1>6, <1>7, <1>8, <1>9 DEF SearchInv
<1> QED
  BY <1>1, <1>10

(***************************************************************************)
(* One instruction is executed.                                             *)
(***************************************************************************)
\* The parts of the state an instruction changes keep their types.
LEMMA ExecuteTypes ==
  ASSUME TypeOK, Execute
  PROVE  /\ at[1] \in Blocks /\ at[2] \in Nat
         /\ at[2] + 1 \in 1..Len(prog.code[at[1]])
         /\ at' = <<at[1], at[2] + 1>>
         /\ Insn(at[1], at[2] + 1) \in Instruction
<1>1. at \in Places /\ prog \in Program
  BY DEF TypeOK
<1>2. at[1] \in Blocks /\ at[2] \in Nat
  BY <1>1 DEF Places
<1>3. prog.code[at[1]] \in Seq(Instruction)
  BY <1>1, <1>2, ProgTypes
<1>4. Len(prog.code[at[1]]) \in Nat /\ at[2] < Len(prog.code[at[1]])
  BY <1>3 DEF Execute
<1>5. at[2] + 1 \in 1..Len(prog.code[at[1]])
  BY <1>2, <1>4
<1> QED
  BY <1>1, <1>2, <1>5, InsnTypes DEF Execute

\* BackInv: an instruction the backward search passed over is no definition, so
\* that the last definition stays the one the search found.
LEMMA ExecuteBack ==
  ASSUME IInv, Execute
  PROVE  BackInv'
<1>1. SUFFICES ASSUME answer \in Claims, NEW s \in back,
                      s[1] = at[1], at[2] + 1 <= s[2],
                      \A i \in (at[2] + 2)..s[2] : ~Defines(Insn(s[1], i))
               PROVE  last' = selected
  <2>1. UNCHANGED <<prog, answer, back, selected>> /\ at' = <<at[1], at[2] + 1>>
    BY DEF Execute, analysisVars
  <2>2. at[2] \in Nat
    BY ExecuteTypes DEF IInv
  <2> QED
    BY <2>1, <2>2 DEF BackInv, Insn
<1>2. at[2] \in Nat /\ s[2] \in Nat
  BY ExecuteTypes DEF IInv, TypeOK, Places
<1>3. Accepted
  BY <1>1 DEF IInv, SearchInv
<1>4. CASE Defines(Insn(at[1], at[2] + 1))
  <2>1. at[2] + 1 \in Nearest(s)
    BY <1>1, <1>2, <1>4 DEF Nearest
  <2>2. ~Insn(s[1], at[2] + 1).overlap
    BY <2>1, <1>3, <1>1 DEF Accepted, OverlappingDefinition
  <2>3. Insn(s[1], at[2] + 1).whole
    BY <2>2, <1>4, <1>1 DEF Defines
  <2>4. <<s[1], at[2] + 1>> \in Definitions
    BY <2>1, <2>3 DEF Definitions
  <2>5. <<at[1], at[2] + 1>> = selected
    BY <2>4, <1>3, <1>1 DEF Accepted
  <2> QED
    BY <2>5, <1>4 DEF Execute
<1>5. CASE ~Defines(Insn(at[1], at[2] + 1))
  <2>1. \A i \in (at[2] + 1)..s[2] : ~Defines(Insn(s[1], i))
    BY <1>1, <1>2, <1>5
  <2>2. last = selected
    BY <2>1, <1>1, <1>2 DEF IInv, ExecInv, BackInv
  <2> QED
    BY <2>2, <1>5 DEF Execute
<1> QED
  BY <1>4, <1>5

\* covers() and overlaps() are what they say of the bytes.
LEMMA RangeBytes ==
  ASSUME NEW w \in Nat \X Nat, NEW h \in Nat \X Nat
  PROVE  /\ Covers(w, h) => Bytes(h) \subseteq Bytes(w)
         /\ ~Overlaps(w, h) => Bytes(h) \cap Bytes(w) = {}
  BY DEF Covers, Overlaps, Bytes

\* In a register, the bytes an instruction changes are those of RegisterWrites.
LEMMA RegisterBytes ==
  ASSUME prog \in Program, prog.local.storage = "register", NEW n \in Instruction
  PROVE  /\ (\E w \in RegisterWrites(n) : Covers(w, prog.local.home))
               => HomeBytes \subseteq Touched(n)
         /\ (\A w \in RegisterWrites(n) : ~Overlaps(w, prog.local.home))
               => HomeBytes \cap Touched(n) = {}
<1>1. prog.local.home \in Nat \X Nat
  BY ProgTypes
<1>2. n.writes \subseteq Nat \X Nat
  BY DEF Instruction
<1>3. \A w \in n.writes : RegisterWrite(w) \in Nat \X Nat
  BY <1>2 DEF RegisterWrite
<1>4. Touched(n) = UNION {Bytes(RegisterWrite(w)) : w \in n.writes}
  BY DEF Touched, RegisterWrite
<1>5. ASSUME NEW w \in n.writes
      PROVE  /\ Covers(RegisterWrite(w), prog.local.home) =>
                   HomeBytes \subseteq Bytes(RegisterWrite(w))
             /\ ~Overlaps(RegisterWrite(w), prog.local.home) =>
                   HomeBytes \cap Bytes(RegisterWrite(w)) = {}
  BY <1>1, <1>3, RangeBytes DEF HomeBytes
<1> QED
  BY <1>4, <1>5 DEF RegisterWrites

\* NativeInv: between the definition and the stop no instruction takes a byte of
\* the register.
LEMMA ExecuteNative ==
  ASSUME IInv, Execute
  PROVE  NativeInv'
<1>1. SUFFICES ASSUME answer = "register", NEW s \in native,
                      s[1] = at[1], at[2] + 1 <= s[2], last' = selected,
                      \A i \in (at[2] + 2)..s[2] : ~NativeStop(s[1], i)
               PROVE  good' = HomeBytes
  <2>1. /\ UNCHANGED <<prog, answer, native, selected>>
        /\ at' = <<at[1], at[2] + 1>>
    BY DEF Execute, analysisVars
  <2>2. at[2] \in Nat
    BY ExecuteTypes DEF IInv
  <2> QED
    BY <2>1, <2>2 DEF NativeInv, NativeStop, Insn, Clobbers, HomeBytes
<1> DEFINE n == Insn(at[1], at[2] + 1)
<1>2. /\ at[2] \in Nat /\ s[2] \in Nat /\ n \in Instruction
      /\ prog \in Program /\ at[2] + 1 \in 1..Len(prog.code[at[1]]) /\ at[1] \in Blocks
  BY ExecuteTypes DEF IInv, TypeOK, Places
<1>3. Accepted /\ prog.local.storage = "register" /\ ~Clobbered /\ ~UnresolvedNative
  BY <1>1 DEF IInv, SearchInv, Claims
<1>4. good' = GoodAfter(n) /\ last' = IF Defines(n) THEN <<at[1], at[2] + 1>> ELSE last
  BY DEF Execute
<1>5. CASE NativeStop(at[1], at[2] + 1)
  <2>1. at[2] + 1 \in NativeNearest(s)
    BY <1>1, <1>2, <1>5 DEF NativeNearest
  <2>2. <<at[1], at[2] + 1>> \in StopSites
    BY <2>1, <1>1 DEF StopSites
  <2>3. n.known
    BY <2>2, <1>3, <1>5 DEF Clobbered, UnresolvedNative, DefinitionHolds
  <2>4. <<at[1], at[2] + 1>> = selected
    <3>1. SUFFICES ASSUME <<at[1], at[2] + 1>> # selected PROVE FALSE
      OBVIOUS
    <3>2. Clobbers(n)
      BY <3>1, <2>3, <1>5 DEF NativeStop
    <3> QED
      BY <3>1, <3>2, <2>2, <2>3, <1>3 DEF Clobbered
  <2>5. DefinitionHolds(n) /\ n.whole /\ ~n.overlap
    BY <2>2, <2>4, <1>3 DEF Clobbered, Accepted
  <2>6. HomeBytes \subseteq Touched(n)
    BY <2>5, <1>2, <1>3, RegisterBytes DEF DefinitionHolds
  <2> QED
    BY <2>3, <2>5, <2>6, <1>4 DEF GoodAfter, Defines
<1>6. CASE ~NativeStop(at[1], at[2] + 1)
  <2>1. CASE Defines(n)
    \* A definition that is not a native stop is not the selected one.
    <3>1. <<at[1], at[2] + 1>> = selected
      BY <2>1, <1>1, <1>4
    <3>2. n.located
      BY <3>1, <1>3 DEF Accepted
    <3> QED
      BY <3>1, <3>2, <1>6 DEF NativeStop
  <2>2. CASE ~Defines(n)
    <3>1. last = selected
      BY <2>2, <1>1, <1>4
    <3>2. \A i \in (at[2] + 1)..s[2] : ~NativeStop(s[1], i)
      BY <1>1, <1>2, <1>6
    <3>3. good = HomeBytes
      BY <3>1, <3>2, <1>1, <1>2 DEF IInv, ExecInv, NativeInv
    <3>4. n.known /\ HomeBytes \cap Touched(n) = {} /\ ~n.call
      <4>1. CASE n.located
        <5>1. n.known /\ ~Clobbers(n)
          BY <4>1, <1>6 DEF NativeStop
        <5> QED
          BY <5>1, <1>2, <1>3, RegisterBytes DEF Clobbers
      <4>2. CASE ~n.located
        <5>1. n.writes = {} /\ n.known /\ ~n.call
          BY <4>2, <1>2, InsnTypes
        <5> QED
          BY <5>1, <4>2 DEF Touched
      <4> QED
        BY <4>1, <4>2
    <3> QED
      BY <3>3, <3>4, <2>2, <1>4 DEF GoodAfter
  <2> QED
    BY <2>1, <2>2
<1> QED
  BY <1>5, <1>6

\* StackInv: on the straight line to the stop no instruction takes a byte of the
\* stack slot.
LEMMA ExecuteStack ==
  ASSUME IInv, Execute
  PROVE  StackInv'
<1>1. SUFFICES ASSUME answer = "stack", at[1] = prog.cur[1], last' = selected,
                      selected[2] <= at[2] + 1, at[2] + 1 <= prog.cur[2]
               PROVE  good' = HomeBytes
  <2>1. UNCHANGED <<prog, answer, selected>> /\ at' = <<at[1], at[2] + 1>>
    BY DEF Execute, analysisVars
  <2> QED
    BY <2>1 DEF StackInv, HomeBytes
<1> DEFINE b == prog.cur[1]
           i == at[2] + 1
           n == Insn(b, i)
           line == {k \in selected[2]..prog.cur[2] : Insn(b, k).located}
<1>2. /\ at[2] \in Nat /\ i \in 1..Len(prog.code[b]) /\ n \in Instruction
      /\ prog \in Program /\ b \in Blocks /\ prog.cur[2] \in Nat
      /\ selected \in Places
  BY <1>1, ExecuteTypes, ProgTypes DEF IInv, TypeOK, Places
<1>3. selected[2] \in Nat /\ selected = <<selected[1], selected[2]>>
  BY <1>2 DEF Places
<1>4. Accepted /\ prog.local.storage = "stack" /\ StackDefinitionRemainsValid
  BY <1>1 DEF IInv, SearchInv, Claims
<1>5. good' = GoodAfter(n) /\ last' = IF Defines(n) THEN <<b, i>> ELSE last
  BY <1>1 DEF Execute
<1>6. /\ selected[1] = b
      /\ \A k \in line : Insn(b, k).known
      /\ \E w \in Insn(b, selected[2]).writes : Covers(w, prog.local.home)
      /\ \A k \in line \ {selected[2]} : \A w \in Insn(b, k).writes : ~Overlaps(w, prog.local.home)
  BY <1>4 DEF StackDefinitionRemainsValid
<1>7. Touched(n) = UNION {Bytes(w) : w \in n.writes}
  BY <1>4 DEF Touched
<1>8. n.writes \subseteq Nat \X Nat /\ prog.local.home \in Nat \X Nat
  BY <1>2, ProgTypes DEF Instruction
<1>9. CASE Defines(n)
  <2>1. selected = <<b, i>> /\ selected[2] = i
    BY <1>9, <1>1, <1>5, <1>3
  <2>2. n.located /\ n.whole /\ ~n.overlap
    BY <2>1, <1>4 DEF Accepted
  <2>3. n.known
    BY <2>1, <2>2, <1>6, <1>1, <1>2
  <2>4. PICK w \in n.writes : Covers(w, prog.local.home)
    BY <2>1, <1>6
  <2>5. HomeBytes \subseteq Bytes(w)
    BY <2>4, <1>8, RangeBytes DEF HomeBytes
  <2> QED
    BY <2>2, <2>3, <2>5, <1>5, <1>7, <1>9 DEF GoodAfter
<1>10. CASE ~Defines(n)
  <2>1. last = selected
    BY <1>10, <1>1, <1>5
  <2>2. selected[2] # i
    BY <1>10, <1>4, <1>6, <1>3 DEF Accepted, Defines
  <2>3. good = HomeBytes
    BY <2>1, <2>2, <1>1, <1>2, <1>3 DEF IInv, ExecInv, StackInv
  <2>4. n.known /\ \A w \in n.writes : ~Overlaps(w, prog.local.home)
    <3>1. CASE n.located
      <4>1. i \in line \ {selected[2]}
        BY <3>1, <2>2, <1>1, <1>2, <1>3
      <4> QED
        BY <4>1, <1>6
    <3>2. CASE ~n.located
      BY <3>2, <1>2, InsnTypes
    <3> QED
      BY <3>1, <3>2
  <2>5. HomeBytes \cap Touched(n) = {}
    <3>1. \A w \in n.writes : HomeBytes \cap Bytes(w) = {}
      BY <2>4, <1>8, RangeBytes DEF HomeBytes
    <3> QED
      BY <3>1, <1>7
  <2> QED
    BY <2>3, <2>4, <2>5, <1>4, <1>5, <1>10 DEF GoodAfter
<1> QED
  BY <1>9, <1>10

\* WatchInv: an execution that has passed the stop without a definition is at a
\* place the forward search visited, where it saw no use.
LEMMA ExecuteWatch ==
  ASSUME IInv, Execute
  PROVE  WatchInv'
<1> DEFINE i == at[2] + 1
           n == Insn(at[1], i)
           Watching == \E s \in fwd : /\ s[1] = at[1] /\ s[2] <= at[2]
                                     /\ \A k \in (s[2] + 1)..at[2] : ~Settles(Insn(s[1], k))
<1>1. SUFFICES ASSUME answer = "not_live"
               PROVE  /\ watch' # "used"
                      /\ watch' = "armed" =>
                           \E s \in fwd : /\ s[1] = at[1] /\ s[2] <= i
                                         /\ \A k \in (s[2] + 1)..i : ~Settles(Insn(s[1], k))
  <2>1. UNCHANGED <<prog, answer, fwd>> /\ at' = <<at[1], i>>
    BY DEF Execute, analysisVars
  <2> QED
    BY <2>1 DEF WatchInv, Insn
<1>2. /\ at[2] \in Nat /\ i \in 1..Len(prog.code[at[1]]) /\ n \in Instruction
      /\ fwd \subseteq Places /\ at \in Places
      /\ Len(prog.code[at[1]]) \in Nat
  <2>1. prog.code[at[1]] \in Seq(Instruction)
    BY ExecuteTypes, ProgTypes DEF IInv, TypeOK
  <2> QED
    BY <2>1, ExecuteTypes DEF IInv, TypeOK, Places
<1>3. watch # "used" /\ (watch = "armed" => Watching)
  BY <1>1 DEF IInv, ExecInv, WatchInv
<1>4. at = prog.cur => Watching
  <2>1. SUFFICES ASSUME at = prog.cur PROVE Watching
    OBVIOUS
  <2>2. at \in fwd
    BY <2>1, <1>1 DEF IInv, SearchInv
  <2> QED
    BY <2>2, <1>2
<1>5. watch' = WatchAfter(n)
  BY DEF Execute
<1>6. CASE ~(watch = "armed" \/ at = prog.cur)
  BY <1>6, <1>5, <1>3 DEF WatchAfter
<1>7. CASE watch = "armed" \/ at = prog.cur
  <2>1. PICK s \in fwd : /\ s[1] = at[1] /\ s[2] <= at[2]
                         /\ \A k \in (s[2] + 1)..at[2] : ~Settles(Insn(s[1], k))
    BY <1>7, <1>3, <1>4
  <2>2. s[2] \in Nat
    BY <1>2 DEF Places
  <2>3. i \in Scanned(s)
    BY <2>1, <2>2, <1>2 DEF Scanned, Ahead
  <2>4. ~n.use
    <3>1. ~HasUse /\ ~UnresolvedUse
      BY <1>1 DEF IInv, SearchInv
    <3> QED
      BY <3>1, <2>3, <2>1 DEF HasUse, UnresolvedUse
  <2>5. watch' = IF Defines(n) THEN "idle" ELSE "armed"
    BY <2>4, <1>3, <1>5, <1>7 DEF WatchAfter
  <2>6. ASSUME ~Defines(n)
        PROVE  \A k \in (s[2] + 1)..i : ~Settles(Insn(s[1], k))
    BY <2>6, <2>1, <2>2, <2>4, <1>2 DEF Settles
  <2> QED
    BY <2>1, <2>2, <2>5, <2>6, <1>2
<1> QED
  BY <1>6, <1>7

\* An instruction keeps the invariant.
LEMMA ExecuteStep ==
  ASSUME IInv, Execute
  PROVE  IInv'
<1>1. /\ UNCHANGED <<prog, analysisVars>> /\ phase = "done"
      /\ good' = GoodAfter(Insn(at[1], at[2] + 1))
      /\ watch' = WatchAfter(Insn(at[1], at[2] + 1))
      /\ last' \in {last, at'}
  BY DEF Execute
<1>2. /\ at[1] \in Blocks /\ at[2] \in Nat /\ at' = <<at[1], at[2] + 1>>
      /\ at[2] + 1 \in 1..Len(prog.code[at[1]])
  BY ExecuteTypes DEF IInv
<1>3. at' \in Places /\ at'[2] <= Len(prog.code[at'[1]]) /\ at'[1] = at[1]
  BY <1>2 DEF Places
<1>4. good' \subseteq HomeBytes /\ watch' \in {"idle", "armed", "used"}
  BY <1>1 DEF IInv, TypeOK, GoodAfter, WatchAfter
<1>5. TypeOK'
  BY <1>1, <1>3, <1>4 DEF IInv, TypeOK, analysisVars, HomeBytes
<1>6. at'[1] # Entry
  <2>1. at[2] < Len(prog.code[at[1]])
    BY DEF Execute
  <2>2. prog.code[Entry] = <<>>
    BY ProgTypes DEF IInv, TypeOK
  <2> QED
    BY <2>1, <2>2, <1>2, <1>3
<1>7. ExecInv'
  BY <1>1, <1>6, ExecuteBack, ExecuteNative, ExecuteStack, ExecuteWatch
     DEF ExecInv, analysisVars
<1> QED
  BY <1>1, <1>5, <1>7, AnalysisKept DEF IInv

(***************************************************************************)
(* The execution goes on to a successor block: the searches followed the    *)
(* edge too.                                                                *)
(***************************************************************************)
LEMMA BranchStep ==
  ASSUME IInv, Branch
  PROVE  IInv'
<1>1. /\ UNCHANGED <<prog, analysisVars, last, good, watch>>
      /\ phase = "done" /\ answer \in Claims /\ at = End(at[1])
  BY DEF Branch
<1>2. PICK b \in prog.graph.succs[at[1]] : at' = <<b, 0>>
  BY DEF Branch
<1> DEFINE a == at[1]
<1>3. /\ prog \in Program /\ a \in Blocks /\ b \in Blocks /\ b # Entry
      /\ Len(prog.code[b]) \in Nat /\ Len(prog.code[a]) \in Nat
      /\ back \subseteq Places /\ native \subseteq Places /\ fwd \subseteq Places
      /\ selected \in Places
  <2>1. prog \in Program /\ a \in Blocks
    BY DEF IInv, TypeOK, Places
  <2>2. b \in Blocks /\ b # Entry
    BY <2>1, <1>2, ProgTypes
  <2>3. prog.code[a] \in Seq(Instruction) /\ prog.code[b] \in Seq(Instruction)
    BY <2>1, <2>2, ProgTypes
  <2> QED
    BY <2>1, <2>2, <2>3 DEF IInv, TypeOK
<1>4. Accepted
  BY <1>1 DEF IInv, SearchInv
<1>5. a \in prog.graph.preds[b]
  BY <1>2, <1>3, <1>4 DEF Accepted, Reciprocal
<1>6. at[1] = a /\ at[2] = Len(prog.code[a]) /\ End(a)[1] = a /\ End(a)[2] = Len(prog.code[a])
  BY <1>1 DEF End
<1>7. TypeOK'
  <2>1. at' \in Places /\ at'[2] <= Len(prog.code[at'[1]])
    BY <1>2, <1>3 DEF Places
  <2> QED
    BY <2>1, <1>1 DEF IInv, TypeOK, analysisVars, HomeBytes
<1>8. BackInv'
  <2>1. SUFFICES ASSUME NEW s \in back, s[1] = b,
                        \A i \in 1..s[2] : ~Defines(Insn(s[1], i))
                 PROVE  last = selected
    BY <1>1, <1>2 DEF BackInv, analysisVars, Insn
  <2>2. Nearest(s) = {}
    BY <2>1 DEF Nearest
  <2>3. End(a) \in back
    BY <2>1, <2>2, <1>4, <1>5 DEF Accepted, Before
  <2>4. \A i \in (at[2] + 1)..End(a)[2] : ~Defines(Insn(a, i))
    BY <1>3, <1>6
  <2> QED
    BY <2>3, <2>4, <1>1, <1>3, <1>6 DEF IInv, ExecInv, BackInv
<1>9. NativeInv'
  <2>1. SUFFICES ASSUME answer = "register", NEW s \in native, s[1] = b, last = selected,
                        \A i \in 1..s[2] : ~NativeStop(s[1], i)
                 PROVE  good = HomeBytes
    BY <1>1, <1>2 DEF NativeInv, analysisVars, Insn, NativeStop, Clobbers, HomeBytes
  <2>2. NativeNearest(s) = {}
    BY <2>1 DEF NativeNearest
  <2>3. a # Entry
    <3>1. last # None
      BY <2>1, <1>3, <1>4 DEF Accepted, None
    <3> QED
      BY <3>1 DEF IInv, ExecInv
  <2>4. ~NativeEmpty(s[1])
    BY <2>1 DEF IInv, SearchInv, UnresolvedNative
  <2>5. End(a) \in NativeBefore(s)
    BY <2>1, <2>2, <2>3, <2>4, <1>5 DEF NativeBefore, NativePreds
  <2>6. End(a) \in native
    BY <2>1, <2>5 DEF IInv, SearchInv
  <2>7. \A i \in (at[2] + 1)..End(a)[2] : ~NativeStop(a, i)
    BY <1>3, <1>6
  <2> QED
    BY <2>1, <2>6, <2>7, <1>3, <1>6 DEF IInv, ExecInv, NativeInv
<1>10. StackInv'
  <2>1. selected[2] \in Nat /\ selected[2] > 0
    BY <1>3, <1>4 DEF Accepted, Places
  <2> QED
    BY <2>1, <1>1, <1>2 DEF StackInv, analysisVars
<1>11. WatchInv'
  <2>1. SUFFICES ASSUME answer = "not_live", watch = "armed"
                 PROVE  <<b, 0>> \in fwd
    <3>1. \A i \in 1..0 : FALSE
      OBVIOUS
    <3>2. answer = "not_live" => watch # "used"
      BY DEF IInv, ExecInv, WatchInv
    <3> QED
      BY <3>1, <3>2, <1>1, <1>2 DEF WatchInv, analysisVars
  <2>2. PICK s \in fwd : /\ s[1] = at[1] /\ s[2] <= at[2]
                         /\ \A i \in (s[2] + 1)..at[2] : ~Settles(Insn(s[1], i))
    BY <2>1 DEF IInv, ExecInv, WatchInv
  <2>3. <<b, 0>> \in After(s)
    BY <2>2, <1>2, <1>6 DEF After, Ahead
  <2> QED
    BY <2>1, <2>2, <2>3 DEF IInv, SearchInv
<1>12. ExecInv'
  BY <1>1, <1>2, <1>3, <1>8, <1>9, <1>10, <1>11 DEF ExecInv, analysisVars
<1> QED
  BY <1>1, <1>7, <1>12, AnalysisKept DEF IInv

-----------------------------------------------------------------------------
(***************************************************************************)
(* The searches.  A search visits the stop and at most one place per block, *)
(* fewer than its budget allows.                                            *)
(***************************************************************************)
LEMMA Visitable ==
  ASSUME NEW V, NEW f \in [Blocks -> Places], NEW c,
         V \subseteq {c} \cup {f[b] : b \in Blocks}
  PROVE  IsFiniteSet(V) /\ Cardinality(V) \in Nat /\ ~(Cardinality(V) >= Budget)
<1> DEFINE F == {f[b] : b \in Blocks}
           N == Cardinality(Blocks)
<1>1. IsFiniteSet(Blocks) /\ N \in Nat
  BY ProgramAssumption, FS_CardinalityType
<1>2. f \in Surjection(Blocks, F)
  BY DEF Surjection
<1>3. IsFiniteSet(F) /\ Cardinality(F) <= N /\ Cardinality(F) \in Nat
  BY <1>1, <1>2, FS_Surjection, FS_CardinalityType
<1>5. V \in SUBSET (F \cup {c})
  OBVIOUS
<1> HIDE DEF F, N
<1>4. IsFiniteSet(F \cup {c}) /\ Cardinality(F \cup {c}) <= N + 1
        /\ Cardinality(F \cup {c}) \in Nat
  <2>1. /\ IsFiniteSet(F \cup {c})
        /\ Cardinality(F \cup {c}) = IF c \in F THEN Cardinality(F) ELSE Cardinality(F) + 1
    BY <1>3, FS_AddElement
  <2> QED
    BY <2>1, <1>1, <1>3
<1>6. IsFiniteSet(V) /\ Cardinality(V) <= Cardinality(F \cup {c}) /\ Cardinality(V) \in Nat
  BY <1>4, <1>5, FS_Subset, FS_CardinalityType
<1>7. Budget > N + 1
  BY <1>1 DEF Budget, N
<1>8. Budget \in Nat
  BY <1>1 DEF Budget, N
<1> QED
  BY <1>1, <1>4, <1>6, <1>7, <1>8

\* The budget is more than the places of a search, so Visit never gives up.
LEMMA BudgetHolds ==
  ASSUME prog \in Program, NEW V, V \subseteq Ends \/ V \subseteq Starts
  PROVE  IsFiniteSet(V) /\ ~(Cardinality(V) >= Budget)
<1>1. CASE V \subseteq Ends
  <2> DEFINE f == [b \in Blocks |-> End(b)]
  <2>1. \A b \in Blocks : prog.code[b] \in Seq(Instruction)
    BY ProgTypes
  <2>2. f \in [Blocks -> Places]
    BY <2>1 DEF End, Places
  <2>3. V \subseteq {prog.cur} \cup {f[b] : b \in Blocks}
    BY <1>1 DEF Ends
  <2> HIDE DEF f
  <2> QED
    BY <2>2, <2>3, Visitable
<1>2. CASE V \subseteq Starts
  <2> DEFINE f == [b \in Blocks |-> <<b, 0>>]
  <2>1. f \in [Blocks -> Places]
    BY DEF Places
  <2>2. V \subseteq {prog.cur} \cup {f[b] : b \in Blocks}
    BY <1>2 DEF Starts
  <2> HIDE DEF f
  <2> QED
    BY <2>1, <2>2, Visitable
<1> QED
  BY <1>1, <1>2

\* Every place of a search is a place.
LEMMA SearchPlaces ==
  ASSUME prog \in Program
  PROVE  /\ Ends \subseteq Places /\ Starts \subseteq Places
         /\ \A s \in Places : Before(s) \subseteq Ends /\ NativeBefore(s) \subseteq Ends
         /\ \A s \in Places : After(s) \subseteq Starts
<1>1. \A b \in Blocks : prog.code[b] \in Seq(Instruction)
  BY ProgTypes
<1>2. \A b \in Blocks : End(b) \in Places
  BY <1>1 DEF End, Places
<1>3. Ends \subseteq Places /\ Starts \subseteq Places
  BY <1>2, ProgTypes DEF Ends, Starts, Places
<1>4. \A s \in Places : prog.graph.preds[s[1]] \subseteq Blocks
                        /\ prog.graph.succs[s[1]] \subseteq Blocks
  BY ProgTypes DEF Places
<1> QED
  BY <1>3, <1>4 DEF Before, NativeBefore, NativePreds, After, Ends, Starts

(***************************************************************************)
(* When the execution is about to begin, nothing has defined the local, and *)
(* the entry has no predecessors: a search that came to it found a path     *)
(* without a definition.                                                    *)
(***************************************************************************)
LEMMA ExecutionBegins ==
  ASSUME TypeOK', SearchInv', at' = <<Entry, 0>>, last' = None, watch' = "idle"
  PROVE  ExecInv'
<1>1. /\ prog' \in Program /\ back' \subseteq Places /\ selected' \in Places
      /\ prog'.graph \in Graphs
  BY DEF TypeOK, Program
<1>2. prog'.graph.preds[Entry] = {}
  BY <1>1, ProgramAssumption
<1>3. answer' \in Claims => Accepted'
  BY DEF SearchInv
<1>4. answer' \in Claims => selected'[2] > 0 /\ selected'[2] \in Nat /\ selected' # None
  BY <1>1, <1>3 DEF Accepted, Places, None
<1>5. BackInv'
  <2>1. SUFFICES ASSUME answer' \in Claims, NEW s \in back', s[1] = Entry,
                        \A i \in 1..s[2] : ~Defines(Insn(s[1], i)')
                 PROVE  FALSE
    BY DEF BackInv, Insn
  <2>2. Nearest(s)' = {}
    BY <2>1 DEF Nearest, Insn
  <2>3. UnresolvedPath'
    BY <2>1, <2>2, <1>2 DEF UnresolvedPath
  <2> QED
    BY <2>1, <2>3, <1>3 DEF Accepted
<1>6. NativeInv' /\ StackInv' /\ WatchInv'
  BY <1>4 DEF NativeInv, StackInv, WatchInv, Claims
<1> QED
  BY <1>5, <1>6 DEF ExecInv

(***************************************************************************)
(* The steps of the analysis.                                               *)
(***************************************************************************)
\* The operators a search is made of depend on the program, and the native
\* one on the selected definition.
LEMMA OperatorsKept ==
  ASSUME prog' = prog
  PROVE  /\ Ends' = Ends /\ Starts' = Starts /\ HomeBytes' = HomeBytes
         /\ Reciprocal' = Reciprocal
         /\ \A s : Nearest(s)' = Nearest(s) /\ Before(s)' = Before(s) /\ After(s)' = After(s)
         /\ \A s : Scanned(s)' = Scanned(s)
         /\ selected' = selected => \A s : NativeBefore(s)' = NativeBefore(s)
  BY DEF Ends, Starts, HomeBytes, Reciprocal, Nearest, Before, After, Scanned, Ahead, Insn, End,
         NativeBefore, NativeNearest, NativeStop, NativePreds, NativeEmpty, Clobbers

\* What the backward search found stays as long as its visited set does.
LEMMA AcceptedKept ==
  ASSUME UNCHANGED <<prog, back, selected>>
  PROVE  Accepted' = Accepted
<1>1. Definitions' = Definitions /\ OverlappingDefinition' = OverlappingDefinition
        /\ UnresolvedPath' = UnresolvedPath
  BY DEF Definitions, OverlappingDefinition, UnresolvedPath, Nearest, Insn
<1>2. (\A s \in back : Before(s) \subseteq back)' = (\A s \in back : Before(s) \subseteq back)
  BY OperatorsKept
<1> QED
  BY <1>1, <1>2, OperatorsKept DEF Accepted, Insn

\* Start keeps the invariant: the first search begins at the stop.
LEMMA StartStep ==
  ASSUME IInv, Start
  PROVE  IInv'
<1>1. UNCHANGED <<prog, back, fwd, native, exhausted, selected, at, last, good, watch>>
        /\ phase = "start" /\ answer = "none"
  BY DEF Start, execVars, IInv, TypeOK
<1>2. \/ phase' = "done" /\ answer' \in {"refused", "unresolved"} /\ pending' = pending
      \/ phase' = "reaching" /\ answer' = answer /\ pending' = {prog.cur} /\ Reciprocal
  BY DEF Start, Finish
<1>3. TypeOK'
  BY <1>1, <1>2, ProgTypes DEF IInv, TypeOK, Answers, HomeBytes
<1>4. back = {}
  BY <1>1 DEF IInv, Shape
<1>5. Shape'
  BY <1>1, <1>2, OperatorsKept DEF IInv, Shape, Ends
<1>6. SearchInv'
  BY <1>1, <1>2, <1>4, OperatorsKept DEF SearchInv, BackSearch, Reached, Claims
<1> QED
  BY <1>1, <1>2, <1>3, <1>5, <1>6, ExecutionBegins DEF IInv, ExecInv

\* A visit of the backward search keeps the invariant.
LEMMA VisitReachingStep ==
  ASSUME IInv, VisitReaching
  PROVE  IInv'
<1>1. UNCHANGED <<prog, phase, fwd, native, answer, selected, at, last, good, watch>>
        /\ phase = "reaching" /\ answer = "none"
  BY DEF VisitReaching, execVars, IInv, TypeOK
<1>2. prog \in Program /\ pending \subseteq Ends /\ back \subseteq Ends
  BY <1>1 DEF IInv, TypeOK, Shape
<1>3. ~(Cardinality(back) >= Budget)
  BY <1>2, BudgetHolds
<1>4. PICK s \in pending : Visit(back, s, Before(s))
  BY DEF VisitReaching
<1>5. /\ back' = back \cup {s} /\ exhausted' = exhausted
      /\ pending' = (pending \ {s}) \cup (Before(s) \ (back \cup {s}))
  BY <1>3, <1>4 DEF Visit
<1>6. s \in Ends /\ s \in Places /\ Before(s) \subseteq Ends
  BY <1>2, SearchPlaces
<1>7. TypeOK'
  BY <1>1, <1>2, <1>5, <1>6, SearchPlaces DEF IInv, TypeOK, HomeBytes
<1>8. Shape'
  BY <1>1, <1>2, <1>5, <1>6, OperatorsKept DEF IInv, Shape
<1>9. BackSearch' /\ Reciprocal'
  BY <1>1, <1>5, OperatorsKept DEF IInv, SearchInv, BackSearch, Reached
<1>10. SearchInv'
  BY <1>1, <1>9 DEF SearchInv, Claims
<1> QED
  BY <1>1, <1>7, <1>8, <1>10, ExecutionBegins DEF IInv, ExecInv

\* A visit of the forward search keeps the invariant.
LEMMA VisitUsesStep ==
  ASSUME IInv, VisitUses
  PROVE  IInv'
<1>1. UNCHANGED <<prog, phase, back, native, answer, selected, at, last, good, watch>>
        /\ phase = "uses" /\ answer = "none"
  BY DEF VisitUses, execVars, IInv, TypeOK
<1>2. prog \in Program /\ pending \subseteq Starts /\ fwd \subseteq Starts
  BY <1>1 DEF IInv, TypeOK, Shape
<1>3. ~(Cardinality(fwd) >= Budget)
  BY <1>2, BudgetHolds
<1>4. PICK s \in pending : Visit(fwd, s, After(s))
  BY DEF VisitUses
<1>5. /\ fwd' = fwd \cup {s} /\ exhausted' = exhausted
      /\ pending' = (pending \ {s}) \cup (After(s) \ (fwd \cup {s}))
  BY <1>3, <1>4 DEF Visit
<1>6. s \in Starts /\ s \in Places /\ After(s) \subseteq Starts
  BY <1>2, SearchPlaces
<1>7. TypeOK'
  BY <1>1, <1>2, <1>5, <1>6, SearchPlaces DEF IInv, TypeOK, HomeBytes
<1>8. Shape'
  BY <1>1, <1>2, <1>5, <1>6, OperatorsKept DEF IInv, Shape
<1>9. FwdSearch' /\ Accepted'
  BY <1>1, <1>5, OperatorsKept, AcceptedKept DEF IInv, SearchInv, FwdSearch, Reached
<1>10. SearchInv'
  BY <1>1, <1>9 DEF SearchInv, Claims
<1> QED
  BY <1>1, <1>7, <1>8, <1>10, ExecutionBegins DEF IInv, ExecInv

\* A visit of the native search keeps the invariant.
LEMMA VisitStorageStep ==
  ASSUME IInv, VisitStorage
  PROVE  IInv'
<1>1. UNCHANGED <<prog, phase, back, fwd, answer, selected, at, last, good, watch>>
        /\ phase = "storage" /\ answer = "none"
  BY DEF VisitStorage, execVars, IInv, TypeOK
<1>2. prog \in Program /\ pending \subseteq Ends /\ native \subseteq Ends
  BY <1>1 DEF IInv, TypeOK, Shape
<1>3. ~(Cardinality(native) >= Budget)
  BY <1>2, BudgetHolds
<1>4. PICK s \in pending : Visit(native, s, NativeBefore(s))
  BY DEF VisitStorage
<1>5. /\ native' = native \cup {s} /\ exhausted' = exhausted
      /\ pending' = (pending \ {s}) \cup (NativeBefore(s) \ (native \cup {s}))
  BY <1>3, <1>4 DEF Visit
<1>6. s \in Ends /\ s \in Places /\ NativeBefore(s) \subseteq Ends
  BY <1>2, SearchPlaces
<1>7. TypeOK'
  BY <1>1, <1>2, <1>5, <1>6, SearchPlaces DEF IInv, TypeOK, HomeBytes
<1>8. Shape'
  BY <1>1, <1>2, <1>5, <1>6, OperatorsKept DEF IInv, Shape
<1>9. NativeSearch' /\ Accepted'
  BY <1>1, <1>5, OperatorsKept, AcceptedKept DEF IInv, SearchInv, NativeSearch, Reached
<1>10. SearchInv'
  BY <1>1, <1>9 DEF IInv, SearchInv, Claims
<1> QED
  BY <1>1, <1>7, <1>8, <1>10, ExecutionBegins DEF IInv, ExecInv

\* SelectDefinition keeps the invariant: a definition is selected only when the
\* search is complete, found one definition and came to no open end.
LEMMA SelectDefinitionStep ==
  ASSUME IInv, SelectDefinition
  PROVE  IInv'
<1>1. UNCHANGED <<prog, back, fwd, native, at, last, good, watch>> /\ exhausted' = FALSE
        /\ phase = "reaching" /\ answer = "none" /\ pending = {}
  BY DEF SelectDefinition, execVars, IInv, TypeOK
<1>2. prog \in Program /\ back \subseteq Ends /\ back \subseteq Places
  BY <1>1 DEF IInv, TypeOK, Shape
<1>3. CASE phase' = "done" /\ answer' \in {"ambiguous", "no_definition"}
             /\ UNCHANGED <<pending, selected>>
  <2>1. TypeOK'
    BY <1>1, <1>3 DEF IInv, TypeOK, Answers, HomeBytes
  <2>2. Shape'
    BY <1>1, <1>3, OperatorsKept DEF IInv, Shape
  <2>3. SearchInv'
    BY <1>1, <1>3 DEF SearchInv, Claims
  <2> QED
    BY <1>1, <2>1, <2>2, <2>3, ExecutionBegins DEF IInv, ExecInv
<1>4. CASE /\ ReachingRejection = "accepted"
           /\ \E d \in Definitions :
                /\ Insn(d[1], d[2]).located /\ selected' = d
                /\ phase' = "uses" /\ pending' = {prog.cur} /\ answer' = answer
  <2>1. PICK d \in Definitions :
               /\ Insn(d[1], d[2]).located /\ selected' = d
               /\ phase' = "uses" /\ pending' = {prog.cur} /\ answer' = answer
    BY <1>4
  <2>2. PICK s \in back : \E i \in Nearest(s) : Insn(s[1], i).whole /\ d = <<s[1], i>>
    BY <2>1 DEF Definitions
  <2>3. PICK i \in Nearest(s) : Insn(s[1], i).whole /\ d = <<s[1], i>>
    BY <2>2
  <2>4. s[1] \in Blocks /\ s[2] \in Nat /\ i \in 1..s[2] /\ s[2] <= Len(prog.code[s[1]])
    <3>1. s \in Places
      BY <1>2
    <3>2. s[2] <= Len(prog.code[s[1]])
      <4>1. CASE s = prog.cur
        <5>1. prog.code[prog.cur[1]] \in Seq(Instruction)
          BY <1>2, ProgTypes DEF Places
        <5> QED
          BY <4>1, <5>1, <1>2, ProgTypes DEF Places
      <4>2. CASE s # prog.cur
        <5>1. PICK b \in Blocks : s = End(b)
          BY <4>2, <1>2 DEF Ends
        <5>2. prog.code[b] \in Seq(Instruction)
          BY <1>2, ProgTypes
        <5> QED
          BY <5>1, <5>2 DEF End
      <4> QED
        BY <4>1, <4>2
    <3> QED
      BY <3>1, <3>2 DEF Places, Nearest
  <2>5. d \in Places /\ d[2] > 0 /\ d[2] <= Len(prog.code[d[1]])
    <3>1. prog.code[s[1]] \in Seq(Instruction)
      BY <2>4, <1>2, ProgTypes
    <3> QED
      BY <2>3, <2>4, <3>1 DEF Places
  <2>6. ~OverlappingDefinition /\ ~UnresolvedPath /\ Definitions = {d}
    BY <1>4, <2>1 DEF ReachingRejection
  <2>7. ~Insn(s[1], i).overlap
    BY <2>6, <2>2, <2>3 DEF OverlappingDefinition
  <2>8. Accepted'
    <3>1. Definitions' = {d} /\ ~OverlappingDefinition' /\ ~UnresolvedPath'
      BY <2>6, <1>1 DEF Definitions, OverlappingDefinition, UnresolvedPath, Nearest, Insn
    <3>2. Reciprocal' /\ prog'.cur \in back' /\ (\A r \in back : Before(r) \subseteq back)'
      BY <1>1, OperatorsKept DEF IInv, SearchInv, BackSearch, Reached
    <3>3. Insn(d[1], d[2]).whole /\ ~Insn(d[1], d[2]).overlap
      BY <2>3, <2>7
    <3> QED
      BY <3>1, <3>2, <3>3, <2>1, <2>5, <1>1 DEF Accepted, Insn
  <2>9. TypeOK'
    BY <1>1, <2>1, <2>5, <1>2, ProgTypes DEF IInv, TypeOK, HomeBytes
  <2>10. Shape'
    BY <1>1, <2>1, OperatorsKept DEF IInv, Shape, Starts
  <2>11. SearchInv'
    BY <1>1, <2>1, <2>8, <2>10 DEF SearchInv, Claims, FwdSearch, Reached, Shape, IInv
  <2> QED
    BY <1>1, <2>1, <2>9, <2>10, <2>11, ExecutionBegins DEF IInv, ExecInv
<1>5. ReachingRejection \in {"ambiguous", "no_definition", "accepted"}
  BY DEF ReachingRejection
<1>6. QED
  BY <1>3, <1>4, <1>5 DEF SelectDefinition, Finish

\* ChooseSource keeps the invariant: a dead local is one whose forward search
\* found no use, a stack slot is claimed only with its straight line.
LEMMA ChooseSourceStep ==
  ASSUME IInv, ChooseSource
  PROVE  IInv'
<1>1. UNCHANGED <<prog, back, fwd, native, selected, at, last, good, watch>>
        /\ exhausted' = FALSE /\ phase = "uses" /\ answer = "none" /\ pending = {}
  BY DEF ChooseSource, execVars, IInv, TypeOK
<1>2. FwdSearch /\ Accepted /\ native = {} /\ prog \in Program
  BY <1>1 DEF IInv, SearchInv, Shape, TypeOK
<1>3. Accepted'
  BY <1>1, <1>2, AcceptedKept
<1>4. CASE phase' = "done" /\ pending' = pending /\ answer' \in Answers \ {"none", "register"}
           /\ (answer' = "not_live" => FutureUseRejection = "not_live")
           /\ (answer' = "stack" => prog.local.storage = "stack" /\ StackDefinitionRemainsValid)
  <2>1. TypeOK'
    BY <1>1, <1>4 DEF IInv, TypeOK, HomeBytes
  <2>2. Shape'
    BY <1>1, <1>4, OperatorsKept DEF IInv, Shape
  <2>3. answer' = "not_live" =>
          /\ prog'.cur \in fwd' /\ (\A s \in fwd : After(s) \subseteq fwd)'
          /\ ~HasUse' /\ ~UnresolvedUse'
    <3>1. prog.cur \in fwd /\ \A s \in fwd : After(s) \subseteq fwd
      BY <1>1, <1>2 DEF FwdSearch, Reached
    <3>2. FutureUseRejection = "not_live" => ~HasUse /\ ~UnresolvedUse
      BY DEF FutureUseRejection
    <3>3. HasUse' = HasUse /\ UnresolvedUse' = UnresolvedUse
      BY <1>1 DEF HasUse, UnresolvedUse, Scanned, Ahead, Insn
    <3> QED
      BY <1>1, <1>4, <3>1, <3>2, <3>3, OperatorsKept
  <2>4. StackDefinitionRemainsValid' = StackDefinitionRemainsValid
    BY <1>1 DEF StackDefinitionRemainsValid, Insn
  <2>5. SearchInv'
    BY <1>1, <1>3, <1>4, <2>3, <2>4 DEF SearchInv
  <2> QED
    BY <1>1, <2>1, <2>2, <2>5, ExecutionBegins DEF IInv, ExecInv
<1>5. CASE phase' = "storage" /\ pending' = {prog.cur} /\ answer' = answer
             /\ prog.local.storage = "register"
  <2>1. TypeOK'
    BY <1>1, <1>2, <1>5, ProgTypes DEF IInv, TypeOK, HomeBytes
  <2>2. Shape'
    BY <1>1, <1>5, OperatorsKept DEF IInv, Shape, Ends
  <2>3. SearchInv'
    BY <1>1, <1>2, <1>3, <1>5 DEF SearchInv, NativeSearch, Reached, Claims
  <2> QED
    BY <1>1, <1>5, <2>1, <2>2, <2>3, ExecutionBegins DEF IInv, ExecInv
<1>6. FutureUseRejection \in {"accepted", "unproven", "not_live"}
  BY DEF FutureUseRejection
<1>7. prog.local.storage \in {"register", "unnamed", "stack", "frame", "none"}
  BY <1>2, ProgTypes
<1> QED
  BY <1>1, <1>4, <1>5, <1>6, <1>7 DEF ChooseSource, Finish, Answers

\* ValidateStorage keeps the invariant: a register is claimed only when the
\* native search is complete and found no other stop than the definition.
LEMMA ValidateStorageStep ==
  ASSUME IInv, ValidateStorage
  PROVE  IInv'
<1>1. UNCHANGED <<prog, back, fwd, native, exhausted, selected, at, last, good, watch>>
        /\ phase = "storage" /\ answer = "none" /\ pending' = {} /\ phase' = "done"
  BY DEF ValidateStorage, Finish, execVars, IInv, TypeOK
<1>2. \/ answer' \in {"unresolved", "clobbered", "unproven"}
      \/ answer' = "register" /\ pending = {} /\ StorageValidation = "register"
  BY DEF ValidateStorage, Finish, StorageValidation
<1>3. NativeSearch /\ Accepted /\ prog.local.storage = "register"
  BY <1>1 DEF IInv, SearchInv
<1>4. TypeOK'
  BY <1>1, <1>2 DEF IInv, TypeOK, HomeBytes, Answers
<1>5. Shape'
  BY <1>1, <1>2, OperatorsKept DEF IInv, Shape
<1>6. answer' = "register" =>
        /\ prog'.cur \in native' /\ (\A s \in native : NativeBefore(s) \subseteq native)'
        /\ ~Clobbered' /\ ~UnresolvedNative'
  <2>1. SUFFICES ASSUME answer' = "register"
                 PROVE  /\ prog'.cur \in native' /\ (\A s \in native : NativeBefore(s) \subseteq native)'
                        /\ ~Clobbered' /\ ~UnresolvedNative'
    OBVIOUS
  <2>2. ~Clobbered /\ ~UnresolvedNative /\ pending = {}
    BY <2>1, <1>2 DEF StorageValidation
  <2>3. Clobbered' = Clobbered /\ UnresolvedNative' = UnresolvedNative
    BY <1>1 DEF Clobbered, UnresolvedNative, StopSites, NativeNearest, NativeStop, NativePreds,
           NativeEmpty, Insn, Clobbers, DefinitionHolds
  <2> QED
    BY <1>1, <1>3, <2>2, <2>3, OperatorsKept DEF NativeSearch, Reached
<1>7. SearchInv'
  BY <1>1, <1>2, <1>3, <1>6, AcceptedKept DEF SearchInv, Claims
<1> QED
  BY <1>1, <1>4, <1>5, <1>7, ExecutionBegins DEF IInv, ExecInv

-----------------------------------------------------------------------------
\* The invariant holds initially.
LEMMA InitInv == Init => IInv
<1> SUFFICES ASSUME Init PROVE IInv
  OBVIOUS
<1>1. TypeOK
  <2>1. <<Entry, 0>> \in Places /\ prog.code[Entry] = <<>>
    BY ProgramAssumption, ProgTypes DEF Places, Init
  <2>2. at[2] <= Len(prog.code[at[1]])
    BY <2>1 DEF Init
  <2> QED
    BY <2>1, <2>2 DEF Init, TypeOK, Answers, None
<1>2. Shape /\ SearchInv
  BY DEF Init, Shape, SearchInv, Claims
<1>3. ExecInv
  BY DEF Init, ExecInv, BackInv, NativeInv, StackInv, WatchInv, Claims
<1> QED
  BY <1>1, <1>2, <1>3 DEF IInv

\* IInv is inductive: the analysis establishes its parts search by search, and
\* the execution keeps them instruction by instruction.
THEOREM StaticRecoveryInductive == Spec => []IInv
<1>1. IInv /\ [Next]_vars => IInv'
  <2>1. SUFFICES ASSUME IInv, [Next]_vars PROVE IInv'
    OBVIOUS
  <2>2. CASE Analyze
    BY <2>1, <2>2, StartStep, VisitReachingStep, SelectDefinitionStep, VisitUsesStep,
       ChooseSourceStep, VisitStorageStep, ValidateStorageStep DEF Analyze
  <2>3. CASE Execute
    BY <2>1, <2>3, ExecuteStep
  <2>4. CASE Branch
    BY <2>1, <2>4, BranchStep
  <2>5. CASE UNCHANGED vars
    <3>1. UNCHANGED <<prog, analysisVars>> /\ UNCHANGED <<at, last, good, watch>>
      BY <2>5 DEF vars, execVars
    <3>2. TypeOK'
      BY <3>1, <2>1 DEF IInv, TypeOK, analysisVars, HomeBytes
    <3>3. ExecInv' = ExecInv
      BY <3>1 DEF ExecInv, BackInv, NativeInv, StackInv, WatchInv, analysisVars, Insn,
         NativeStop, Clobbers, HomeBytes
    <3> QED
      BY <3>1, <3>2, <3>3, <2>1, AnalysisKept DEF IInv
  <2> QED
    BY <2>1, <2>2, <2>3, <2>4, <2>5 DEF Next
<1> QED
  BY <1>1, InitInv, PTL DEF Spec

\* The state has its type, and an answer exactly when the analysis is done.
THEOREM TypeCorrect == Spec => []TypeOK
<1>1. IInv => TypeOK
  BY DEF IInv
<1> QED
  BY <1>1, StaticRecoveryInductive, PTL

\* The definition _find_reaching_definitions selects is the last one that
\* changed the local, on every path to the stop in every function.
THEOREM SelectedIsLastHolds == Spec => []SelectedIsLast
<1>1. IInv => SelectedIsLast
  <2>1. SUFFICES ASSUME IInv, answer \in Reported, at = prog.cur PROVE last = selected
    BY DEF SelectedIsLast
  <2>2. answer \in Claims /\ prog.cur \in back
    BY <2>1 DEF Reported, Claims, IInv, SearchInv, Accepted
  <2>3. at[2] \in Nat
    BY <2>1 DEF IInv, TypeOK, Places
  <2> QED
    BY <2>1, <2>2, <2>3 DEF IInv, ExecInv, BackInv
<1> QED
  BY <1>1, StaticRecoveryInductive, PTL

\* A register or stack slot the analysis reports holds the local, in full, on
\* every path to the stop in every function.
THEOREM HomeIsExactHolds == Spec => []HomeIsExact
<1>1. IInv => HomeIsExact
  <2>1. SUFFICES ASSUME IInv, answer \in {"register", "stack"}, at = prog.cur
                 PROVE  good = HomeBytes
    BY DEF HomeIsExact
  <2>2. at[2] \in Nat /\ prog.cur \in back
    BY <2>1 DEF IInv, TypeOK, Places, SearchInv, Accepted, Claims
  <2>3. last = selected
    BY <2>1, <2>2 DEF IInv, ExecInv, BackInv, Claims
  <2>4. CASE answer = "register"
    BY <2>1, <2>2, <2>3, <2>4 DEF IInv, ExecInv, NativeInv, SearchInv
  <2>5. CASE answer = "stack"
    BY <2>1, <2>2, <2>3, <2>5 DEF IInv, ExecInv, StackInv, SearchInv, StackDefinitionRemainsValid
  <2> QED
    BY <2>1, <2>4, <2>5
<1> QED
  BY <1>1, StaticRecoveryInductive, PTL

\* A local reported as not live is not read again before it is redefined.
THEOREM DeadIsDeadHolds == Spec => []DeadIsDead
<1>1. IInv => DeadIsDead
  BY DEF IInv, ExecInv, WatchInv, DeadIsDead
<1> QED
  BY <1>1, StaticRecoveryInductive, PTL

\* No search spends its budget, however many blocks the function has.
THEOREM BudgetSufficesHolds == Spec => []BudgetSuffices
<1>1. IInv => BudgetSuffices
  BY DEF IInv, Shape, BudgetSuffices
<1> QED
  BY <1>1, StaticRecoveryInductive, PTL

=============================================================================
