------------------------------ MODULE WinDbgExt ------------------------------
(***************************************************************************)
(* The WinDbg extension (windbg_ext/dayvar.c, socket_client.c) and the      *)
(* debuggee it reads.                                                       *)
(*                                                                          *)
(* The extension runs on the debugger's command thread: a command runs to   *)
(* its end, except that inside DvsPumpBroker it alternates with the rest of *)
(* the world, one received line at a time.  So the state between two atomic *)
(* steps is the globals of dayvar.c plus, while a pump is running, how many *)
(* messages it may still handle and which caller it returns to.             *)
(***************************************************************************)
EXTENDS Link

CONSTANTS
  PumpMax,    \* DVS_DEFAULT_PUMP_MESSAGES (16 in the code)
  MaxCount,   \* bound: largest count of one !dvs_step (1000 in the code)
  MaxInstant, \* bound: how often the debuggee may run
  MaxSeq,     \* bound: how many pc_update may be numbered
  MaxLoads,   \* bound: how often the extension may be loaded
  Mishaps     \* what the environment may do, a subset of AllMishaps

(***************************************************************************)
(* native   - the user moves the debuggee with the debugger's own commands; *)
(* pcfail   - after a step the status or PC read, or building the JSON,     *)
(*            fails;                                                        *)
(* wdloss   - the extension's connection breaks during a send or receive;   *)
(* idaloss  - the plugin's connection breaks (not its disconnect command);  *)
(* inactive - the debug session ends and another one starts;                *)
(* reload   - the extension is unloaded and loaded again;                   *)
(* readfail - a register or memory read fails.                              *)
(* All but the last can make the debuggee move without IDA learning of it.  *)
(***************************************************************************)
Unreported == {"native", "pcfail", "wdloss", "idaloss", "inactive", "reload"}
AllMishaps == Unreported \cup {"readfail"}

ASSUME WinDbgAssumption ==
  /\ PumpMax \in Nat \ {0}
  /\ MaxCount \in Nat /\ MaxInstant \in Nat /\ MaxSeq \in Nat /\ MaxLoads \in Nat
  /\ Mishaps \subseteq AllMishaps

VARIABLES
  instant,      \* how often the debuggee has run
  loc,          \* its program counter
  target,       \* "stopped" at the prompt, "running", or "notify": stopped,
                \* with the ACCESSIBLE notification not yet delivered
  next_pc_seq,  \* g_next_pc_seq
  step,         \* g_step_pending, g_step_in_progress, g_step_remaining
  pump,         \* DvsPumpBroker: messages left, and its caller ("none": idle)
  loads,        \* history: how often the extension has been loaded
  reportedAt,   \* history: instant of the last pc_update sent
  blind         \* history: stops of this !dvs_step sequence not reported

wdVars == <<instant, loc, target, next_pc_seq, step, pump, loads, reportedAt, blind>>

NoStep == [pending |-> FALSE, in_progress |-> FALSE, remaining |-> 0]
NoPump == [left |-> 0, caller |-> "none"]

WdInit ==
  /\ instant = 0
  /\ loc \in Locs
  /\ target = "stopped"
  /\ next_pc_seq = 1
  /\ step = NoStep
  /\ pump = NoPump
  /\ loads = 1
  /\ reportedAt = 0
  /\ blind = 0

WdTypeOK ==
  /\ instant \in Nat
  /\ loc \in Locs
  /\ target \in {"stopped", "running", "notify"}
  /\ next_pc_seq \in Nat \ {0}
  /\ step \in [pending : BOOLEAN, in_progress : BOOLEAN, remaining : Nat]
  /\ pump \in [left : Nat, caller : {"none", "command", "step"}]
  /\ loads \in Nat
  /\ reportedAt \in Nat
  /\ blind \in Nat

\* The debugger prompt: extension commands start only here.
Prompt == target = "stopped" /\ pump.caller = "none"

-----------------------------------------------------------------------------
(* Connection commands *)

\* The receive buffer goes with the socket; what was sent is still delivered.
DvsSocketDisconnect == wdUp' = FALSE /\ toWd' = <<>> /\ UNCHANGED toIda

\* A connection that exists is closed first; the broker answers hello with
\* hello_ack.
dvs_connect ==
  /\ Prompt
  /\ \/ wdUp' = TRUE /\ toWd' = <<Logged>> /\ UNCHANGED toIda
     \/ DvsSocketDisconnect
  /\ UNCHANGED <<wdVars, idaUp>>

DvsClearPendingStep == step' = NoStep

dvs_disconnect ==
  /\ Prompt
  /\ DvsClearPendingStep
  /\ DvsSocketDisconnect
  /\ UNCHANGED <<loads, instant, loc, target, next_pc_seq, pump, reportedAt, blind, idaUp>>

\* DebugExtensionUninitialize, then a new load, both typed at the prompt: the
\* globals start over.
Reload ==
  /\ "reload" \in Mishaps
  /\ Prompt
  /\ DvsClearPendingStep
  /\ DvsSocketDisconnect
  /\ next_pc_seq' = 1
  /\ loads < MaxLoads /\ loads' = loads + 1
  /\ UNCHANGED <<instant, loc, target, pump, reportedAt, blind, idaUp>>

-----------------------------------------------------------------------------
(* DvsSendPcUpdateAndPump: the ways it can end before the pump starts, and  *)
(* the one that starts it.                                                  *)

\* Mutant: after a step the pump is begun without an update having been sent.
Mut_StepUnreported(caller) ==
  /\ wdUp
  /\ IF caller = "step" THEN UNCHANGED <<next_pc_seq, toIda, toWd, reportedAt, blind>>
     ELSE /\ next_pc_seq' = next_pc_seq + 1
          /\ SendToIda([type |-> "pc_update", seq |-> next_pc_seq, loc |-> loc,
                        auto |-> TRUE, at |-> instant], toWd)
          /\ reportedAt' = instant
          /\ blind' = 0
  /\ pump' = [left |-> PumpMax, caller |-> caller]
  /\ UNCHANGED wdUp

\* The PC is read, a sequence number taken, the message sent, the pump begun.
PcUpdateSent(caller) ==
  /\ wdUp
  /\ next_pc_seq' = next_pc_seq + 1
  /\ SendToIda([type |-> "pc_update", seq |-> next_pc_seq, loc |-> loc,
                auto |-> TRUE, at |-> instant], toWd)
  /\ reportedAt' = instant
  /\ blind' = 0
  /\ pump' = [left |-> PumpMax, caller |-> caller]
  /\ UNCHANGED wdUp

\* Nothing is sent: not connected, the PC cannot be read, or (the sequence
\* number being taken already) the JSON cannot be built.
PcUpdateNotSent ==
  /\ \/ ~wdUp /\ UNCHANGED next_pc_seq
     \/ "pcfail" \in Mishaps /\ wdUp /\ next_pc_seq' \in {next_pc_seq, next_pc_seq + 1}
  /\ UNCHANGED <<toIda, toWd, wdUp, reportedAt, pump>>

\* The send fails: DvsSocketSendAll closes the socket.
PcUpdateLost ==
  /\ "wdloss" \in Mishaps
  /\ wdUp
  /\ next_pc_seq' = next_pc_seq + 1
  /\ DropWd
  /\ UNCHANGED <<reportedAt, pump>>

dvs_pc ==
  /\ Prompt
  /\ next_pc_seq <= MaxSeq
  /\ \/ PcUpdateSent("command")
     \/ PcUpdateNotSent /\ UNCHANGED blind
     \/ PcUpdateLost /\ UNCHANGED blind
  /\ UNCHANGED <<loads, instant, loc, target, step, idaUp>>

dvs_poll(max_messages) ==
  /\ Prompt
  /\ wdUp
  /\ pump' = [left |-> max_messages, caller |-> "command"]
  /\ UNCHANGED <<loads, instant, loc, target, next_pc_seq, step, reportedAt, blind, linkVars>>

-----------------------------------------------------------------------------
(* Stepping *)

\* DvsInitiateNextPendingStep with s as the globals' values: the debuggee runs
\* and one step fewer remains, or starting it fails and the sequence is over.
DvsInitiateNextPendingStep(s) ==
  \/ /\ step' = [s EXCEPT !.in_progress = TRUE, !.remaining = @ - 1]
     /\ target' = "running"
  \/ DvsClearPendingStep /\ target' = "stopped"

dvs_step(count) ==
  /\ Prompt
  /\ wdUp
  /\ ~step.pending
  /\ instant + count <= MaxInstant /\ next_pc_seq + count <= MaxSeq + 1
  /\ DvsInitiateNextPendingStep(
       [pending |-> TRUE, in_progress |-> FALSE, remaining |-> count])
  /\ blind' = 0
  /\ UNCHANGED <<loads, instant, loc, next_pc_seq, pump, reportedAt, linkVars>>

\* Mutant: the result of DvsSendPcUpdateAndPump is not looked at.
Mut_PostStepGoesOn ==
  /\ target = "notify"
  /\ \/ /\ ~step.pending \/ ~step.in_progress
        /\ target' = "stopped"
        /\ UNCHANGED <<step, next_pc_seq, pump, reportedAt, blind, toIda, toWd, wdUp>>
     \/ /\ step.pending /\ step.in_progress
        /\ \/ /\ PcUpdateSent("step") /\ step' = [step EXCEPT !.in_progress = FALSE]
              /\ target' = "stopped"
           \/ /\ PcUpdateNotSent \/ PcUpdateLost
              /\ blind' = blind + 1
              /\ IF step.remaining > 0
                 THEN DvsInitiateNextPendingStep([step EXCEPT !.in_progress = FALSE])
                 ELSE DvsClearPendingStep /\ target' = "stopped"
  /\ UNCHANGED <<loads, instant, loc, idaUp>>

\* Mutant: a failed read of the execution status returns without clearing.
Mut_PostStepLeftPending ==
  /\ target = "notify"
  /\ target' = "stopped"
  /\ \/ /\ ~step.pending \/ ~step.in_progress \/ "pcfail" \in Mishaps
        /\ UNCHANGED <<step, next_pc_seq, pump, reportedAt, blind, toIda, toWd, wdUp>>
     \/ /\ step.pending /\ step.in_progress
        /\ \/ PcUpdateSent("step") /\ step' = [step EXCEPT !.in_progress = FALSE]
           \/ PcUpdateNotSent /\ DvsClearPendingStep /\ blind' = blind + 1
           \/ PcUpdateLost /\ DvsClearPendingStep /\ blind' = blind + 1
  /\ UNCHANGED <<loads, instant, loc, idaUp>>

\* DebugExtensionNotify(SESSION_ACCESSIBLE) at a break.  (Raised while the
\* status is not DEBUG_STATUS_BREAK it changes nothing.)
DvsHandlePostStepAccessible ==
  /\ target = "notify"
  /\ target' = "stopped"
  /\ \/ /\ ~step.pending \/ ~step.in_progress
        /\ UNCHANGED <<step, next_pc_seq, pump, reportedAt, blind, toIda, toWd, wdUp>>
     \/ /\ step.pending /\ step.in_progress /\ "pcfail" \in Mishaps
        /\ DvsClearPendingStep
        /\ blind' = blind + 1
        /\ UNCHANGED <<next_pc_seq, pump, reportedAt, toIda, toWd, wdUp>>
     \/ /\ step.pending /\ step.in_progress
        /\ \/ PcUpdateSent("step") /\ step' = [step EXCEPT !.in_progress = FALSE]
           \/ PcUpdateNotSent /\ DvsClearPendingStep /\ blind' = blind + 1
           \/ PcUpdateLost /\ DvsClearPendingStep /\ blind' = blind + 1
  /\ UNCHANGED <<loads, instant, loc, idaUp>>

\* DebugExtensionNotify(SESSION_INACTIVE): the debuggee is gone, the next one
\* to stop is another.
NotifyInactive ==
  /\ "inactive" \in Mishaps
  /\ pump.caller = "none"
  /\ instant < MaxInstant
  /\ DvsClearPendingStep
  /\ target' = "running"
  /\ UNCHANGED <<loads, instant, loc, next_pc_seq, pump, reportedAt, blind, linkVars>>

-----------------------------------------------------------------------------
(* DvsPumpBroker *)

\* A request is answered from the debuggee as it is now; its pc_seq, id and
\* runtime_pc are copied, never compared with anything.
RegAnswer(m, got) ==
  [type |-> "reg_response", seq |-> m.seq, rid |-> m.rid, loc |-> m.loc,
   ok |-> TRUE, regs |-> got, at |-> instant]

MemAnswer(m, readable) ==
  [type |-> "mem_response", seq |-> m.seq, rid |-> m.rid, loc |-> m.loc,
   ok |-> readable, addr |-> m.addr, at |-> instant]

\* Registers that cannot be read are left out of the answer; when the debugger
\* gives no access to registers there is no answer.
DvsHandleRegRequest(m, rest) ==
  \/ SendToIda(RegAnswer(m, m.regs), rest)
  \/ /\ "readfail" \in Mishaps
     /\ \/ \E got \in SUBSET m.regs : SendToIda(RegAnswer(m, got), rest)
        \/ toWd' = rest /\ UNCHANGED toIda

\* Mutant: a memory request is read but not answered.
Mut_MemRequestUnanswered(m, rest) == toWd' = rest /\ UNCHANGED toIda

\* A memory read that fails is answered with ok = false.
DvsHandleMemRequest(m, rest) ==
  \E readable \in IF "readfail" \in Mishaps THEN BOOLEAN ELSE {TRUE} :
    SendToIda(MemAnswer(m, readable), rest)

DvsHandleIncomingMessage(m, rest) ==
  \/ m.type = "reg_request" /\ DvsHandleRegRequest(m, rest)
  \/ m.type = "mem_request" /\ DvsHandleMemRequest(m, rest)
  \/ m.type = "logged" /\ toWd' = rest /\ UNCHANGED toIda

PumpReceive ==
  /\ pump.left > 0
  /\ wdUp
  /\ toWd # <<>>
  /\ pump' = [pump EXCEPT !.left = @ - 1]
  /\ DvsHandleIncomingMessage(Head(toWd), Tail(toWd))
  /\ UNCHANGED <<loads, instant, loc, target, next_pc_seq, step, reportedAt, blind, wdUp, idaUp>>

\* A receive, or the send of an answer, fails and closes the socket.
PumpLost ==
  /\ "wdloss" \in Mishaps
  /\ pump.left > 0
  /\ wdUp
  /\ pump' = [pump EXCEPT !.left = 0]
  /\ DropWd
  /\ UNCHANGED <<loads, instant, loc, target, next_pc_seq, step, reportedAt, blind, idaUp>>

\* Mutant: the count of remaining steps is off by one.
Mut_PumpReturnOneMore ==
  /\ pump.caller # "none"
  /\ pump' = NoPump
  /\ \/ pump.caller = "command" /\ UNCHANGED <<step, target>>
     \/ pump.caller = "step" /\ step.remaining >= 0 /\ DvsInitiateNextPendingStep(step)
  /\ UNCHANGED <<loads, instant, loc, next_pc_seq, reportedAt, blind, linkVars>>

\* The pump ends: its messages are used up, no line came within the timeout
\* (whatever is in transit), or the socket is gone.  All three look alike to
\* the caller, which after a step goes on to the next one.
PumpReturn ==
  /\ pump.caller # "none"
  /\ pump' = NoPump
  /\ \/ pump.caller = "command" /\ UNCHANGED <<step, target>>
     \/ pump.caller = "step" /\ step.remaining > 0 /\ DvsInitiateNextPendingStep(step)
     \/ pump.caller = "step" /\ step.remaining = 0 /\ DvsClearPendingStep /\ UNCHANGED target
  /\ UNCHANGED <<loads, instant, loc, next_pc_seq, reportedAt, blind, linkVars>>

-----------------------------------------------------------------------------
(* The debuggee *)

TargetStops ==
  /\ target = "running"
  /\ target' = "notify"
  /\ instant' = instant + 1
  /\ loc' \in Locs
  /\ UNCHANGED <<loads, next_pc_seq, step, pump, reportedAt, blind, linkVars>>

\* g, p, t typed at the prompt.
NativeGo ==
  /\ "native" \in Mishaps
  /\ Prompt
  /\ instant < MaxInstant
  /\ target' = "running"
  /\ UNCHANGED <<loads, instant, loc, next_pc_seq, step, pump, reportedAt, blind, linkVars>>

WdPump == PumpReceive \/ PumpLost \/ PumpReturn

WdCommand ==
  \/ dvs_connect \/ dvs_disconnect \/ dvs_pc
  \/ \E n \in 1 .. PumpMax : dvs_poll(n)
  \/ \E n \in 1 .. MaxCount : dvs_step(n)

WdNext ==
  \/ WdCommand \/ WdPump
  \/ DvsHandlePostStepAccessible \/ TargetStops
  \/ Reload \/ NotifyInactive \/ NativeGo
=============================================================================
