# dynvar-sync in TLA+

dynvar-sync shows, in an IDA window, the values that the arguments and locals of
the current function have in a debuggee stopped under WinDbg. Three programs
take part, none of which waits for another:

```
WinDbg + dayvar.dll  <--JSON lines/TCP-->  broker  <--JSON lines/TCP-->  IDA + plugin
   (windbg_ext/)                         (broker/)                     (ida_plugin/)
```

The extension reports a program counter (`pc_update`), the plugin answers with
requests for registers and stack memory, and the extension reads them *when it
gets to them*. Every value arrives later than the question was asked, and the
debuggee may have moved in between. The promise the table makes is
`docs/03_variable_model.md:17`: "`fresh` - an exact current value proven for the
current PC and `pc_seq`". This project asks when that promise is kept.

## Inventory

| Component | Source | State | Operations | Status |
|---|---|---|---|---|
| Extension: commands, stepping, pump | `windbg_ext/dayvar.c` | `g_next_pc_seq`, `g_step_*` | `!dvs_connect`, `!dvs_disconnect`, `!dvs_pc`, `!dvs_step n`, `!dvs_poll n`, session notifications, `DvsPumpBroker` | modelled |
| Extension: socket | `windbg_ext/socket_client.c` | socket, receive buffer | connect, send all, receive a line | partly |
| Extension: debugger access | `windbg_ext/dbgeng_ops.c` | none | read PC, registers, memory, step | partly |
| Extension: JSON | `windbg_ext/json_writer.c` | none | build and pick apart messages | partly |
| Broker: sessions and routing | `broker/dayvar_broker.py`, `sessions.py` | one session per role, a thread per connection | accept, register, replace, route, remove | modelled |
| Broker: envelope | `broker/protocol.py` | none | decode and validate a line | modelled |
| Plugin: core | `ida_plugin/dynvar_core.py` | current PC, rows, pending requests | new context, entry plan, register and memory responses | modelled |
| Plugin: recovery of locals, at run time | `ida_plugin/v_variable_recovery.py:330-800` | context, records, pending, history | begin PC, responses, history, overlay | modelled |
| Plugin: recovery of locals, static analysis | the rest of that file | visited sets and verdicts of three searches | reaching definitions, future uses, storage validation, choice of a source | partly |
| Plugin: controller | `ida_plugin/dayvar_plugin.py` | the parts above, analysis selection cache | message handlers, connect, disconnect, selection of the locals to analyse | modelled |
| Plugin: broker client | `ida_plugin/protocol_client.py` | worker thread, send queue, stop event | connect, send, disconnect, `_run` | modelled |
| Plugin: address mapping | `ida_plugin/address_mapping.py` | none | runtime PC to database address | partly |
| Plugin: variable enumeration | `ida_plugin/hexrays_variables.py` | none | list variables, detect arguments | not modelled |
| Plugin: table | `ida_plugin/live_variables_view.py` | rows, filter | update rows | partly |

How they interact, and what is hard about it:

* *Interleaving and order.* A request of PC *n* may be read by the extension
  after it has stepped to *n+1*; it is answered with the registers of *n+1*
  under the number *n*. Only the order of messages (the `pc_update` of *n+1* was
  sent before) and the check of `pc_seq` in the plugin keep it out of the table.
* *Bounded pumps.* The extension receives only inside `DvsPumpBroker`, at most
  16 messages and until the first timeout; what it leaves is for a later pump.
* *Failure.* Either connection may break in the middle of anything; the broker
  drops messages for a role that is not there; reads fail; sessions end; the
  extension is reloaded and its numbers start over.
* *Chained steps.* `!dvs_step n` is a state machine driven by notifications. Left
  pending it would refuse every later step; left running it would step blindly.
* *Two views of "current".* The core and the recovery of locals each keep a
  context and a set of awaited requests that must not come apart.
* *Threads in the broker.* An old connection's cleanup races a new client's
  registration.
* *Threads in the plugin.* Every connect starts a worker that shares a send
  queue, a stop event and a socket with IDA's main thread, and all workers share
  one queue of received messages. A second connect may find the first one still
  in progress.
* *Evidence about code.* A local's register is worth reading only if, on every
  path to the PC, one definition is the last and nothing has written the register
  since. The proof is three worklists over a graph that may have loops.
* *A budget.* A stop analyses a bounded number of locals; which ones decides
  whether some local is never shown.

What makes each part correct, and the property that says so:

| Part | It is correct when | Property |
|---|---|---|
| the whole loop | a fresh value is the variable's value at the PC the table is for | `FreshIsTrue` |
| | a stale value was exact once | `StaleWasExact` |
| | whatever fails, an old answer never becomes fresh | `FreshNotEarlier` |
| | what is asked is answered, superseded, or lost for a reason | `RequestsEnd` |
| extension | step sequences end, and do not run on blindly | `StepEnds`, `AtMostOneBlindStop` |
| plugin | its two halves agree on the PC they wait for | `PendingIsCurrent` |
| | answers that were not asked for change nothing | `AnswersUseUpRequests`, `LocalsFromTheirHome` |
| broker | the registry names the sessions that are served | `RegistryIsServed`, `GoneIsUnregistered` |
| | messages arrive once and in order | `DeliveredInOrder` |
| static analysis | the definition it accepts is the last one on every execution | `SelectedIsLast` |
| | the storage it accepts still holds the local | `HomeIsExact` |
| | what it calls dead is not read again | `DeadIsDead` |
| | it ends, and no function has too many blocks for it | `AnalysisEnds`, `BudgetSuffices` |
| selection | the budget is spent, and on locals of this function | `BudgetIsSpent` |
| | retained values are refreshed, every local gets its turn | `RetainedAreAnalysed`, `Rotation` |
| client | both directions are ordered channels | `OutInOrder`, `InInOrder` |
| | workers end, and one connection at most is left | `DisconnectEnds`, `OneRemains` |

`PROJECT.json` lists the hazards behind these, each at its line of code.

## Modules

```
LiveTypes        values, rows, messages, the constants that describe the debuggee's code
  Link           the two queues between the programs
    WinDbgExt    the extension and the debuggee
    DayVarPlugin the controller = DayVarCore (arguments) + VRecovery (locals) + the table
      PluginEnv  the plugin against a peer that sends anything
  LiveSync       WinDbgExt and DayVarPlugin joined by Link; the end-to-end properties
    LiveSyncInv  the inductive invariants behind its safety properties
Broker             sessions, routing, one thread per connection
OrderedChannels    what the ends of a connection may rely on (abstract)
ProtocolClient     the plugin's worker threads; implements OrderedChannels both ways
StaticRecovery     the searches behind Evidence, and an execution that judges them
CandidateSelection which locals a stop analyses
MCLiveSync, MCPluginEnv, MCBroker,
MCProtocolClient, MCStaticRecovery, MCCandidateSelection   instances for TLC
LiveSyncTypeProofs, LiveSyncSafetyProofs, LiveSyncFreshProofs (each extends
the one before), PluginEnvProofs, BrokerProofs, ProtocolClientProofs,
StaticRecoveryProofs, CandidateSelectionProofs             theorems
```

### Values are notes of where and when they were read

Register contents, widths, addresses and formatting do not decide whether a
value is *right*; place and time do. The debuggee is a sequence of instants. A
value is a record `[src, sp, at]`: the register or stack slot it was read from,
the instant of the `rsp` its address was computed from, and the instant it was
read. `TrueValue(home, v, t)` is what variable `v`, living in `home`, holds at
instant `t`. A row mixing instants, places or a neighbour's slot differs from it
and is told apart from a right one.

What IDA would answer about the code is given by constants: `Place` (maps or
not, is an entry or not), `LvarsOf`, `ArgHome`, `Name` (not necessarily unique)
and `Evidence`, the storage that static recovery proves for a local at a PC.
`Evidence` depends on the location only. That it is right is assumed in the live
loop; `StaticRecovery` is about that assumption.

### Link

`toIda` and `toWd` are what is in transit, the broker's and the receiver's
buffers included. A message for a side that is not registered is dropped, and
the sender gets an error; errors and `hello_ack` for the extension are kept as
`Logged` messages because they use up the pump's budget, those for the plugin
are left out because it only logs them. A broken connection loses any suffix of
what was in transit.

### WinDbgExt

One action per command and notification: `dvs_connect`, `dvs_disconnect`,
`dvs_pc`, `dvs_poll`, `dvs_step`, `DvsHandlePostStepAccessible`,
`NotifyInactive`, `Reload`. Commands run to their end on the debugger's command
thread except inside `DvsPumpBroker`, which is cut at each received line
(`PumpReceive`, `PumpLost`, `PumpReturn`) because IDA runs meanwhile. `target` is
the debuggee: at the prompt, running, or stopped with the notification not yet
delivered. `reportedAt`, `blind` and `loads`, and the fields `at`, record history
for the properties; no guard of the code's control reads them (`loads` only
carries a bound). `PcUpdateSent`, `PcUpdateNotSent` and `PcUpdateLost` are the
three ways `DvsSendPcUpdateAndPump` goes. A session notification at a status
other than break changes nothing in the code and is not an action.

`Mishaps` names what the environment may do: `native` (the user moves the
debuggee with `g`, `p`, `t`), `pcfail`, `wdloss`, `idaloss`, `inactive`, `reload`,
`readfail`. A run says which of them it allows.

### DayVarCore, VRecovery, DayVarPlugin

IDA's main thread handles one message at a time, so a handler is one action.
`DayVarCore` holds `current_pc`, `rows` and `pending_requests`, with
`start_pc_context`, `build_entry_plan`, `apply_reg_response` and
`apply_mem_response`; `VRecovery` holds `v_context`, `records`, `v_pending` and
`history`, with `begin_pc`, `v_apply_reg_response`, `v_apply_mem_response`,
`_prune_history` and the overlay. `DayVarPlugin` composes them as
`_handle_pc_update`, `_handle_reg_response` and `_handle_mem_response` do and keeps
`view`, what was last published. The locals picked by the analysis budget are
any subset; `CandidateSelection` says which. The table that is published between the entry plan and `begin_pc` of
one handler is not seen by any other step and is left out.

### PluginEnv

The plugin alone, against a peer that may at any time send any message built
from small sets: answers repeated, late, for requests never made, with another
address, or without an address or a PC at all, which the plugin accepts
(`v_variable_recovery.py:552`, `:774`, `dynvar_core.py:397`). A value read at an address
the answer does not state may be of any place; `OfHome` says which values a place
can have given. The size of an answer is left out: the code skips its comparison
in the same way. The invariants of its proofs stand at the end of the module.

### Broker

`handle_client` is a thread per connection, cut at its receives, at the release
of the registry's lock, at closing a replaced session and at each send, so that
any two threads interleave between lookup and delivery. `clients` is the registry's
dictionary, a function on the roles registered now. A line is its `kind`
(how it will be handled) and its number on its connection. Sends that block and
the sharing of one socket by two writers are not modelled.

### OrderedChannels and ProtocolClient

`ProtocolClient` has one worker per `connect`, numbered, with `_run` cut at its
socket calls, its queue operations and its wait for the main thread
(`execute_sync`). The main thread connects, disconnects and drains
`controller.messages`, whichever worker asked it to; what a handler sends goes to
the current client's send queue. A message is named by its place in the order of
its queue or connection, so losing, repeating or swapping one shows. The broker
is reduced to what `Broker` does with role `ida`: the last `hello` is registered and
the connection before it is closed.

`OrderedChannels` is the abstract specification: messages of a connection come out
in order, at most once, and the connection may stop anywhere. It is implemented
twice, `Out` (`given <- queued`, `taken <- wired`) and `In` (`given <- arrived`,
`taken <- handled`). It is what `Link` takes for granted of the plugin's side.

One send stands for all that one handled message makes the plugin send, and the
assignments in `_run`'s `finally` clause, and those of `disconnect`, are one step each.
The `None` that `disconnect` puts in the send queue is left out: the stop event is set
before it. A received line that is not JSON is left out; the broker sends none.

### StaticRecovery

One local, one stop. `prog` is the function: blocks of instructions, successor and
predecessor lists (which may disagree), the stop and the local. An instruction is
what the analysis is told of it by IDA and Hex-Rays: does it define the local
wholly or in part, use it, what bytes it writes, is it a call, has it an address.
`Start`, `VisitReaching`, `SelectDefinition`, `VisitUses`, `ChooseSource`, `VisitStorage`
and `ValidateStorage` are `analyze_v_variable_candidates` and `_analyze_one_lvar` in
order, with one turn of a worklist per step. The worklist is a set where the code
has a stack: the verdict depends on what was visited, not on the order.
Every rejection ends in `Finish`.

Then the function *runs*: `Execute` and `Branch` walk the graph from its entry and
keep the last instruction that changed the local, the bytes of its home that
hold its value, and whether it was read since the stop. What the analysis could
not decode, and calls for registers, are taken at their worst there. The
properties compare the answer with this execution, which knows nothing of the
searches.

Abstractions: one instruction per address, so that a position is the same in both
graphs; the native graph is the microcode graph without Hex-Rays's empty entry
block; a selected definition that cannot be decoded is one more rejection. So is a
disputed constant without a register of its own. The fixed caps of the code, 100000
instructions of a function and 4096 of the line a stack check follows, are left
out: they only reject. Two
locals claiming one storage (`_reject_duplicate_storage_claims`) is about several
locals and is not modelled.

### CandidateSelection

`select_recovery_candidate_indexes` and `AnalysisSelectionCache.select` with the
filters of the table: watched locals, locals with a value, visible locals from
the cursor, the remaining ones from the cursor, up to the budget. A stop and the
answers to its requests are one step, because selection looks at the table only
at the next update; retained values are assumed to fit the bounded history.
The loops that add a list to the selection are written by their result: the
entries reached while the selection so far leaves a place (`AddAll`), from the
cursor once around (`Ring`). `cursor` is the dictionary `cursor_by_function`: a function
without an entry starts at 0 (`CursorOf`), and `disconnect` clears it.

## Runs

| Run | Specification and bounds | Result |
|---|---|---|
| `fresh` | two functions whose arguments share a name; a register argument, a stack argument, a register/constant local and a stack local; an unmappable and an opaque location; 2 instants, 2 updates, reads may fail; `PolledSpec` | `TypeOK`, `FreshIsTrue`, `StaleWasExact`, `RequestsEnd` hold (234 k states) |
| `faults` | every mishap but a reload | `FreshNotEarlier`, `PendingIsCurrent`, `AtMostOneBlindStop` hold (1.5 M) |
| `step_ends` | `FairSpec`; lost sockets, failing PC reads, native moves, ended sessions, two loads of the extension, the second at the prompt | `FreshNotEarlier`, `StepEnds` hold (630 k) |
| `any_peer` | `EnvSpec`, two `pc_seq`, answers with the local's address, another one or none, with and without a PC, history of 1; unmappable and opaque updates too | `LocalsFromTheirHome`, `AnswersUseUpRequests` hold (5.8 M) |
| `broker_registry` | two WinDbg clients and one IDA client, `hello` and routed lines | `TypeOK`, `RegistryIsServed`, `DeliveredInOrder` hold (4.5 M) |
| `broker_gone` | `FairSpec`, two clients of one role, lines of every kind | `GoneIsUnregistered` holds (400 k) |
| `static_recovery` | `FairSpec`; every choice of 5·6·5·5 instructions in 13 graphs of three blocks and an entry, with one and two loops, a branch and lists that disagree; 3 stops, 5 homes | `TypeOK`, `SelectedIsLast`, `HomeIsExact`, `DeadIsDead`, `BudgetSuffices`, `AnalysisEnds` hold (1.16 M) |
| `selection` | two functions sharing lvar indexes, more locals than the budget of 3, a watched local and a watched index that is none, every filter | `TypeOK`, `BudgetIsSpent`, `RetainedAreAnalysed`, `Rotation` hold (13 k) |
| `client` | `FairSpec`; two connects, two lines per connection, refused, broken and replaced connections | `TypeOK`, `OutInOrder`, `InInOrder`, `DisconnectEnds`, `OneRemains` hold (258 k) |
| `address_unstated` | as `any_peer` | `RepliesMatchAddress` is violated; see Findings |
| `ida_reconnect`, `same_name` | one cause each | `FreshIsTrue` is violated; see Findings |

Why the bounds suffice for the questions asked. Every known way for a value to
be wrong pairs a request of one PC with a read at the next, so two instants and
two updates reach it (the violating runs do), and two updates make a value of
the first stale under the second. A pump of 2 messages leaves messages
unhandled as one of 16 does. `MaxCount = 2` gives a stop that is followed by
another and a last one. `MaxHistory` is a small stand-in for the code's limit;
`any_peer` sets it to 1 so that eviction happens. Two clients of one role are
enough for replacement to race cleanup; the theorem covers any number. `Spec`
runs of the live loop check for deadlock; the broker's runs do not, since all
clients may be gone, nor do `static_recovery` and `client`, where the analysis and
the connections may be over. `StaticRecovery`'s graphs have the shapes in which a
backward search goes wrong: a definition on one way only, one that a loop carries
around to the stop, a loop without one. Two locals of one index in two functions
are enough to confuse rows, and a second worker is enough to be forgotten.
The theorems cover any graph and any number of workers.

Each property of a passing run is paired in `PROJECT.json` with a mutant, an
operator marked `Mutant:` before the definition it replaces: a guard dropped, a reset
missed, an off-by-one. Under the mutant TLC finds the property violated.

### Fairness

`Progress` is weak fairness of four steps: a debuggee that was stepped stops;
the debugger delivers the notification of a stop; a pump returns, because every
receive has a timeout and every message is counted; IDA's main thread takes
messages off its queue (`execute_sync`). `StepEnds` needs nothing else.
`PolledSpec` adds, for `RequestsEnd`, that the user polls now and then
(`!dvs_poll`) and that pumps which find messages, again and again, receive some
of them rather than timing out each time. The extension has no thread of its
own, so without a user who polls, steps or asks for the PC nothing is ever
answered; the assumption is about the user and the network, not the code. It
assumes nothing of reads and connections: `RequestsEnd` says that what is asked is
answered or superseded unless it was lost, and that only `MayLose` loses a request:
a connection that is down, closed or made anew, or registers that could not be
read at all. The
broker's `FairSpec` is weak fairness of every thread. `StaticRecovery` has weak
fairness of `Analyze` alone: it runs on one thread and waits for nothing.
`ProtocolClient` has weak fairness of the main thread serving `execute_sync`, of each
worker, whose socket calls all have timeouts, and of the broker reading a `hello`.
`CandidateSelection` assumes none: `Rotation` names what it needs (stops in the
function keep coming, the plugin stays connected, the filter is `All`, the preferred
locals leave a place) as its premises.

## Findings

Each is a run with a counterexample of a few steps.

* `ida_reconnect`: a *lost* plugin connection, unlike `disconnect()`, keeps the
  awaited requests; with a `pc_update` dropped meanwhile, the late answer matches
  and is shown as fresh for the old PC.
* `same_name`: two stack arguments with one displayed name share a request id,
  and the core compares neither address nor size.
* `address_unstated`: `apply_mem_response` compares address and size only if the
  answer states them, while `docs/03_variable_model.md:243` and
  `ida_plugin/README.md:148-150` say they must match. The extension of this
  repository states both in every answer, so only another peer can show it.

Other limits of the code, which the models contain and no run is spent on:

* Requests are answered from the debuggee as it is, with the request's own
  `pc_seq` (`dayvar.c:359`). With `native` among the `Mishaps` of the `fresh` run TLC
  finds `FreshIsTrue` violated: after a `p` or `g` typed at the prompt, `!dvs_poll`
  answers a waiting request with the new state.
* A register read that fails as a whole is not answered (`dayvar.c:361`), and its
  rows wait until the next update. It is the exception `RequestsEnd` names.
* The broker routes by message type, whoever sends it (lines of kind `backward`
  come back to the sender's role), and the thread of a replaced client still
  routes the lines it had received.
* A PC that cannot be mapped moves the context on but not the table
  (`dayvar_plugin.py:386`), which goes on showing the previous PC's values as fresh
  under a status line that names the new one; `docs/03_variable_model.md:17` calls
  fresh a value of the current PC. `FreshIsTrue` is about the update the rows were
  built for.
* Bytes that are not UTF-8, or a `type` that is a list or an object, raise outside
  `ProtocolError` (`protocol.py:55`, `:88`) and end the session; `broker/README.md:21`
  says malformed lines are logged. The registry is left in order all the same.
* `Rotation` holds under filter `All` only. Under another filter the cursor is
  reduced modulo the number of visible locals and then used for the remaining
  ones (`dayvar_plugin.py:156-160`), and rows are matched by index alone, those of
  the previous function too (`:130-136`), so that a local may never get its turn.
  `docs/07_research_prototype_status.md:146-150` and `ida_plugin/README.md:86-88`
  promise rotation without this condition.
* `connect` looks at the flag `connected`, which is false while a client connects
  (`dayvar_plugin.py:257`), so a second one makes the controller forget the first
  worker. `OneRemains` says that one connection is left in the end; it may be the
  forgotten worker's, which `disconnect` does not reach. A disconnect while
  connecting still lets the worker send its `hello`, and the flag, set after it, makes
  a connect at that moment answer "already connected".
* `_validate_register_storage_cfg` says it rejects paths that reach the entry; a
  native entry block that is a loop's head has predecessors and is not noticed
  there. The search over the microcode, whose entry block is empty, rejects it.

The second half of the picture is `faults` and `step_ends`: in all of these
situations no value *older* than the shown PC becomes fresh.

## Theorems

The proofs hold for every value of the constants: any program, any bounds, any
number of connections.

* `TypeCorrectness` (`LiveSyncTypeProofs`): `Spec => []TypeOK`, whatever the mishaps.
* `Freshness` (`LiveSyncFreshProofs`): `Spec => []FreshIsTrue`, given `Reported`
  (none of the mishaps that move the debuggee unnoticed; reads may fail) and
  `NamesUnique` (no two variables of one function share a name). The findings
  show that neither premise can be dropped: `ida_reconnect` breaks the first,
  `same_name` the second.
* `Staleness` (`LiveSyncFreshProofs`): `Spec => []StaleWasExact`, under the same two
  premises.
* `FreshIsNotEarlier`, `PendingCurrent` and `BlindStops` (`LiveSyncSafetyProofs`):
  `FreshNotEarlier`, `PendingIsCurrent` and `AtMostOneBlindStop`, whatever the mishaps
  and the names.
* `LocalsAreTheirOwn` and `AnswersAreUsedOnce` (`PluginEnvProofs`):
  `EnvSpec => []LocalsFromTheirHome` and `EnvSpec => AnswersUseUpRequests`, for any
  messages a peer can send, those without an address or a PC included. What a
  register or a stated address delivered is then the local's own; of an answer
  without an address the theorem says only that the local lives on the stack and
  its read was awaited, which is all the code checks.
* `Registry`, `Delivery` and `BrokerTypeCorrect` (`BrokerProofs`): `RegistryIsServed`,
  `DeliveredInOrder` and `TypeOK`, for any number of connections and lines.
* `OutRefines`, `InRefines` (`ProtocolClientProofs`): `Spec => OutInOrder` and
  `Spec => InInOrder`, the two implementations of `OrderedChannels`; and
  `ClientTypeCorrect`.
* `SelectedIsLastHolds`, `HomeIsExactHolds`, `DeadIsDeadHolds`, `BudgetSufficesHolds`,
  `TypeCorrect` (`StaticRecoveryProofs`): the analysis is sound for every function,
  stop and local.
* `EveryStopSpendsItsBudget`, `StaleLocalsAreAnalysed`, `SelectionTypes`
  (`CandidateSelectionProofs`): `BudgetIsSpent`, `RetainedAreAnalysed` and `TypeOK`, for any
  functions, budget, watched locals and filters.

`FreshIsTrue` speaks of the table and says nothing of what is in transit, so it
is not inductive. `FreshInv` (`LiveSyncInv`) is, and it is the argument why the
protocol works:

1. `ReportInv`: outside a step in progress the debuggee is at the instant of the
   last report, so whatever a pump reads is of that instant.
2. `UpdateInv`: updates reach the plugin in the order of their numbers, the newest
   one tells that instant, and while the plugin is connected it is not lost.
3. `RequestInv`, `SlotOK`: a request is for the plugin's PC or an older one; a
   memory request for the newest PC was computed from its `rsp`, and is about the
   slot its id names (here names must be unique).
4. `OvertakenInv`: a request still awaited whose PC is no longer the newest is
   overtaken by a newer update already on its way.
5. `AnswerInv`: so an answer that would be accepted is of its PC's instant, unless
   an update comes before it in the queue, which will make the plugin refuse it.
6. `ContextInv`, `RowsTrue`, `RecordsTrue`: while something is awaited, rows and
   records are those of the current PC, and the fresh ones are true.

`FreshNotEarlier` needs far less, and that is why it survives every mishap.
`NotEarlierInv`: what is in transit to the plugin is in the order of the instants it
tells of, none earlier than the plugin's PC (`OrderInv`), so that any answer,
wanted or not, is no older than the PC it can meet; rows and records are for that
PC while anything is awaited (`PlanInv`). Sequence numbers play no part, so a
reloaded extension that repeats them does no harm.

`StaleWasExact` looks back. `StaleInv`: every value that is kept to be shown later, in
a row, a record or the history, is what its variable held when it was read
(`Held`). A value enters these only as fresh, which `FreshInv` makes true; it is
handed on by name for arguments, which is where `NamesUnique` is used a second
time, and by index for locals.

`EnvInv` of `PluginEnv`: the core's and the recovery's awaited requests are finite and of
disjoint kinds, so that taking one out leaves fewer; each record has the place
proved for it at the context's location, or none; an awaited memory read is for
its local's own slot, at a stated address. The peer's messages are arbitrary, so nothing is said of the
queue but its type: all the work is done by what the plugin compares before it
accepts.

`SelectionInv` of `CandidateSelection` adds to `BudgetIsSpent` that the cached decision
spends the budget in the function of its key (`CacheInv`). The rest is about lists:
adding a list fills the selection to the budget or to the end of the list
(`AddAllFills`, by the first entry that finds the budget spent), walking around a
ring meets every entry (`RingMeetsAll`), and sorting a set lists all of it
(`SortedLists`, counting the smaller elements).

`RegistryInv` strengthens `RegistryIsServed` with where a thread can be when its
session is registered or being replaced. `DeliveryInv` numbers what is under way: the
lines waiting on a connection continue those handled, a thread has at most one
message to send, that of the last line it took, and everything delivered for a
connection is of an earlier line.

`IndInv` of `ProtocolClientProofs`: the number of messages taken from a send queue is
the number written unless a send failed, and then the stop event is set and the
drain has ended for good (`NoGap`), so that nothing is written behind a gap; the
queue shared by the workers holds at most one line of each, the next in its order,
and its worker waits while it is there (`OneEach`). Every step then maps to a `Give`,
a `Take` or a stutter.

`IInv` of `StaticRecoveryProofs` uses the visited sets as certificates. A search that
ran to its end is closed under its edges, so an execution cannot leave what it
saw: if no definition lies between the execution's place and a visited place
ahead of it in the block, the last definition is the selected one (`BackInv`);
likewise for writes of the home (`NativeInv`, `StackInv`), and forward from the stop for
uses (`WatchInv`). A block is entered over an edge, and because the edge lists are
reciprocal the end of the block before was visited by the backward search: here
`_validate_cfg_reciprocity` is needed. The test for loops is not needed for
soundness and no proof uses it. `BudgetSuffices` counts: a search visits the stop
and one place per block at most, which is below `4 * blocks + 4`.

Only model-checked: the liveness properties `StepEnds`, `RequestsEnd`,
`GoneIsUnregistered`, `AnalysisEnds`, `Rotation`, `DisconnectEnds` and `OneRemains`, since
fairness and `ENABLED` are beyond the prover. Every invariant, action property and
refinement of a passing run is the statement of a theorem.

Assumptions on constants are the named `ASSUME`s of `LiveTypes`, `WinDbgExt`,
`VRecovery`, `PluginEnv`, `Broker`, `ProtocolClient`, `StaticRecovery` and
`CandidateSelection`, which TLC evaluates in the runs.

## Abstractions to know of

* `Link` is one FIFO per direction. After the extension reconnects, messages of
  its old connection, which another broker thread may still be routing,
  are assumed to arrive before those of the new one.
* Requests the plugin had sent before its connection went stay deliverable to the
  extension: the broker has written them to the other socket already.
* What an earlier plugin client had received is handled before the user
  reconnects it.
* Blocking sends, full buffers, and `hello_ack` or error replies written without
  `send_lock` while another thread writes to the same socket are left out.
* Arguments without a place (no `arg_index`) have no home to read from and are
  left out; the order of several memory requests of one answer is arbitrary but
  fixed.
* Escaping of module names, buffer sizes and the JSON text itself are left out.

## Not modelled

* `hexrays_variables.py`, the enumeration of variables and the detection of
  arguments: inspection of text and types through the Hex-Rays API. Its result is
  given by constants.
* What the IDA and Hex-Rays APIs return for an instruction (operand decoding, byte
  ranges of registers, block serials): given as the fields of `Instruction`.
* `_reject_duplicate_storage_claims`, the matching of local names to lvars, and the
  formatting of values.
* Assembly of lines from bytes in `g_recv_buffer`, and its limits.
* Columns, colours and refreshing of the table.

## Plan

Done: the live loop, the plugin against any peer, the broker, the client's
threads with their abstract specification, the static analysis, the selection, and
a theorem for each of their safety properties.

1. `Broker` as an implementation of `Link`: a refinement that shows under which
   conditions the single FIFO is what the broker provides.
2. `_reject_duplicate_storage_claims`: several locals analysed at one stop, no two of
   which are reported from overlapping storage.
3. `SocketLine`: assembly of lines in `g_recv_buffer`, its limit, and what an
   overlong line throws away; composed with the broker's own splitter.

The order is by how much of the displayed result depends on it.
