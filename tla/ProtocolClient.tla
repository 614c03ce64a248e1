--------------------------- MODULE ProtocolClient ---------------------------
(***************************************************************************)
(* The plugin's connection to the broker (ida_plugin/protocol_client.py)    *)
(* and the part of its controller that connects, disconnects and takes      *)
(* messages over to IDA's main thread (ida_plugin/dayvar_plugin.py).        *)
(*                                                                          *)
(* Every connect makes a new ProtocolClient with a worker thread of its     *)
(* own, named here by its number.  Workers and the main thread share the    *)
(* controller's message queue, and each client's send queue, stop event and *)
(* socket.  A worker's steps are cut at its socket calls, its queue         *)
(* operations and its wait for the main thread (execute_sync).              *)
(*                                                                          *)
(* Messages are numbered: number n of worker w is the n-th one put in its   *)
(* send queue, hello first, or the n-th line the broker sends it.  The None *)
(* that disconnect puts in the send queue is left out: the stop event is    *)
(* set before it, so nothing follows it, and taking it ends a drain as an   *)
(* empty queue does.                                                        *)
(***************************************************************************)
EXTENDS Naturals, Sequences, FiniteSets

CONSTANTS
  MaxWorkers,   \* a bound: calls of connect that start a worker
  MaxLines      \* a bound: lines the broker sends on one connection

ASSUME ClientAssumption == MaxWorkers \in Nat /\ MaxLines \in Nat

Workers == 1..MaxWorkers
None == 0

VARIABLES
  client,     \* controller.client, None before the first connect
  state,      \* where the worker's _run is
  stop,       \* _stop_event
  sock,       \* _sock: "none", "open", "shut" (by disconnect)
  connected,  \* the flag connected
  told,       \* clients that disconnect was called on
  queued,     \* number of messages put in the send queue, hello included
  drained,    \* number of them taken out
  wired,      \* the messages written to the socket
  arrived,    \* number of lines the broker sent
  read,       \* number of them received, in buffer or handed over
  handed,     \* number of them put in controller.messages
  messages,   \* controller.messages: <<worker, line>>
  handled,    \* the lines handled by the main thread, per worker
  main,       \* the worker whose _drain_messages the main thread runs, or None
  peer,       \* the broker's end of the connection is open
  reg         \* the connection the broker has registered for role ida, or None

workerVars == <<state, stop, sock, connected>>
outVars == <<queued, drained, wired>>
inVars == <<arrived, read, handed, messages, handled>>
vars == <<client, workerVars, told, outVars, inVars, main, peer, reg>>

States == {"none", "connecting", "hello", "greeted", "loop", "drain", "recv", "lines",
           "waiting", "ending", "ended"}

Init ==
  /\ client = None
  /\ state = [w \in Workers |-> "none"]
  /\ stop = [w \in Workers |-> FALSE]
  /\ sock = [w \in Workers |-> "none"]
  /\ connected = [w \in Workers |-> FALSE]
  /\ told = {}
  /\ queued = [w \in Workers |-> 0]
  /\ drained = [w \in Workers |-> 0]
  /\ wired = [w \in Workers |-> <<>>]
  /\ arrived = [w \in Workers |-> 0]
  /\ read = [w \in Workers |-> 0]
  /\ handed = [w \in Workers |-> 0]
  /\ messages = <<>>
  /\ handled = [w \in Workers |-> <<>>]
  /\ main = None
  /\ peer = [w \in Workers |-> FALSE]
  /\ reg = None

-----------------------------------------------------------------------------
(* The main thread *)

\* DayVarController.connect: a new client unless the current one is connected.
connect(w) ==
  /\ main = None
  /\ client # None => ~connected[client]
  /\ state[w] = "none" /\ \A v \in Workers : v < w => state[v] # "none"
  /\ client' = w
  /\ state' = [state EXCEPT ![w] = "connecting"]
  /\ queued' = [queued EXCEPT ![w] = 1]
  /\ UNCHANGED <<stop, sock, connected, told, drained, wired, inVars, main, peer, reg>>

\* Mutant: the controller forgets the client, messages of which may still come.
DisconnectForgets ==
  /\ main = None /\ client # None
  /\ stop' = [stop EXCEPT ![client] = TRUE]
  /\ sock' = [sock EXCEPT ![client] = IF @ = "open" THEN "shut" ELSE @]
  /\ connected' = [connected EXCEPT ![client] = FALSE]
  /\ told' = told \cup {client}
  /\ client' = None
  /\ UNCHANGED <<state, outVars, inVars, main, peer, reg>>

\* Mutant: the stop event is not set.
DisconnectWithoutStop ==
  /\ main = None /\ client # None
  /\ sock' = [sock EXCEPT ![client] = IF @ = "open" THEN "shut" ELSE @]
  /\ connected' = [connected EXCEPT ![client] = FALSE]
  /\ told' = told \cup {client}
  /\ UNCHANGED <<client, state, stop, outVars, inVars, main, peer, reg>>

disconnect ==
  /\ main = None /\ client # None
  /\ stop' = [stop EXCEPT ![client] = TRUE]
  /\ sock' = [sock EXCEPT ![client] = IF @ = "open" THEN "shut" ELSE @]
  /\ connected' = [connected EXCEPT ![client] = FALSE]
  /\ told' = told \cup {client}
  /\ UNCHANGED <<client, state, outVars, inVars, main, peer, reg>>

\* execute_sync runs the _drain_messages a worker waits for.
DrainBegins(w) ==
  /\ main = None /\ state[w] = "waiting"
  /\ main' = w
  /\ UNCHANGED <<client, workerVars, told, outVars, inVars, peer, reg>>

\* ProtocolClient.send to the current client, by a handler.
Sends ==
  IF ~stop[client] THEN queued' = [queued EXCEPT ![client] = @ + 1] ELSE UNCHANGED queued

\* _handle_message: whichever worker the message came from, what it sends goes
\* to the current client.
_handle_message ==
  LET m == Head(messages) IN
  /\ main # None /\ messages # <<>>
  /\ messages' = Tail(messages)
  /\ handled' = [handled EXCEPT ![m[1]] = Append(@, m[2])]
  /\ Sends \/ UNCHANGED queued
  /\ UNCHANGED <<client, workerVars, told, drained, wired, arrived, read, handed, main, peer, reg>>

DrainEnds ==
  /\ main # None /\ messages = <<>>
  /\ main' = None
  /\ state' = [state EXCEPT ![main] = "lines"]
  /\ UNCHANGED <<client, stop, sock, connected, told, outVars, inVars, peer, reg>>

-----------------------------------------------------------------------------
(* A worker: ProtocolClient._run *)

Goes(w, to) == state' = [state EXCEPT ![w] = to]

Opened(w) ==
  /\ state[w] = "connecting"
  /\ sock' = [sock EXCEPT ![w] = "open"]
  /\ peer' = [peer EXCEPT ![w] = TRUE]
  /\ Goes(w, "hello")
  /\ UNCHANGED <<client, stop, connected, told, outVars, inVars, main, reg>>

\* Refused, or three seconds without an answer.
ConnectFails(w) ==
  /\ state[w] = "connecting"
  /\ Goes(w, "ending")
  /\ UNCHANGED <<client, stop, sock, connected, told, outVars, inVars, main, peer, reg>>

\* The next message is written to the socket.
Writes(w) ==
  /\ sock[w] = "open"
  /\ drained' = [drained EXCEPT ![w] = @ + 1]
  /\ wired' = [wired EXCEPT ![w] = Append(@, drained[w] + 1)]
  /\ UNCHANGED <<client, stop, sock, connected, told, queued, inVars, main, peer, reg>>

SendHello(w) == state[w] = "hello" /\ Writes(w) /\ Goes(w, "greeted")

HelloFails(w) ==
  /\ state[w] = "hello"
  /\ Goes(w, "ending")
  /\ UNCHANGED <<client, stop, sock, connected, told, outVars, inVars, main, peer, reg>>

\* The flag is set whatever disconnect did meanwhile.
SetConnected(w) ==
  /\ state[w] = "greeted"
  /\ connected' = [connected EXCEPT ![w] = TRUE]
  /\ Goes(w, "loop")
  /\ UNCHANGED <<client, stop, sock, told, outVars, inVars, main, peer, reg>>

\* while not self._stop_event.is_set()
LoopTest(w) ==
  /\ state[w] = "loop"
  /\ Goes(w, IF stop[w] THEN "ending" ELSE "drain")
  /\ UNCHANGED <<client, stop, sock, connected, told, outVars, inVars, main, peer, reg>>

\* _drain_send_queue
DrainOne(w) == state[w] = "drain" /\ drained[w] < queued[w] /\ Writes(w) /\ UNCHANGED state

\* Mutant: a message that could not be sent is skipped.
SendFailsOnce(w) ==
  /\ state[w] = "drain" /\ drained[w] < queued[w]
  /\ drained' = [drained EXCEPT ![w] = @ + 1]
  /\ Goes(w, "recv")
  /\ UNCHANGED <<client, stop, sock, connected, told, queued, wired, inVars, main, peer, reg>>

\* The socket is closed, or takes nothing for 0.1 seconds.
SendFails(w) ==
  /\ state[w] = "drain" /\ drained[w] < queued[w]
  /\ drained' = [drained EXCEPT ![w] = @ + 1]
  /\ stop' = [stop EXCEPT ![w] = TRUE]
  /\ Goes(w, "recv")
  /\ UNCHANGED <<client, sock, connected, told, queued, wired, inVars, main, peer, reg>>

SendQueueEmpty(w) ==
  /\ state[w] = "drain" /\ drained[w] = queued[w]
  /\ Goes(w, "recv")
  /\ UNCHANGED <<client, stop, sock, connected, told, outVars, inVars, main, peer, reg>>

\* recv: some of the lines that were sent, a timeout while they are on their
\* way, or the end of the connection, with which lines may be lost.
ReceiveLines(w) ==
  /\ state[w] = "recv" /\ sock[w] = "open"
  /\ \E n \in (read[w] + 1)..arrived[w] : read' = [read EXCEPT ![w] = n]
  /\ Goes(w, "lines")
  /\ UNCHANGED <<client, stop, sock, connected, told, outVars, arrived, handed, messages,
                 handled, main, peer, reg>>

ReceiveTimeout(w) ==
  /\ state[w] = "recv" /\ sock[w] = "open" /\ peer[w]
  /\ Goes(w, "loop")
  /\ UNCHANGED <<client, stop, sock, connected, told, outVars, inVars, main, peer, reg>>

ReceiveEnds(w) ==
  /\ state[w] = "recv"
  /\ sock[w] = "shut" \/ ~peer[w]
  /\ Goes(w, "ending")
  /\ UNCHANGED <<client, stop, sock, connected, told, outVars, inVars, main, peer, reg>>

\* Mutant: the line stays in the buffer.
HandOverKeeps(w) ==
  /\ state[w] = "lines" /\ handed[w] < read[w]
  /\ \E n \in {handed[w], handed[w] + 1} : handed' = [handed EXCEPT ![w] = n]
  /\ messages' = Append(messages, <<w, handed[w] + 1>>)
  /\ Goes(w, "waiting")
  /\ UNCHANGED <<client, stop, sock, connected, told, outVars, arrived, read, handled, main,
                 peer, reg>>

\* _drain_receive_buffer: the next line goes to the main thread, the stop
\* event is not looked at before the buffer is empty.
HandOver(w) ==
  /\ state[w] = "lines" /\ handed[w] < read[w]
  /\ handed' = [handed EXCEPT ![w] = @ + 1]
  /\ messages' = Append(messages, <<w, handed[w] + 1>>)
  /\ Goes(w, "waiting")
  /\ UNCHANGED <<client, stop, sock, connected, told, outVars, arrived, read, handled, main,
                 peer, reg>>

BufferEmpty(w) ==
  /\ state[w] = "lines" /\ handed[w] = read[w]
  /\ Goes(w, "loop")
  /\ UNCHANGED <<client, stop, sock, connected, told, outVars, inVars, main, peer, reg>>

\* The with statement's exit and the finally clause.
RunEnds(w) ==
  /\ state[w] = "ending"
  /\ connected' = [connected EXCEPT ![w] = FALSE]
  /\ sock' = [sock EXCEPT ![w] = "none"]
  /\ stop' = [stop EXCEPT ![w] = TRUE]
  /\ Goes(w, "ended")
  /\ UNCHANGED <<client, told, outVars, inVars, main, peer, reg>>

_run(w) ==
  \/ Opened(w) \/ ConnectFails(w) \/ SendHello(w) \/ HelloFails(w) \/ SetConnected(w)
  \/ LoopTest(w)
  \/ DrainOne(w) \/ SendFails(w) \/ SendQueueEmpty(w)
  \/ ReceiveLines(w) \/ ReceiveTimeout(w) \/ ReceiveEnds(w)
  \/ HandOver(w) \/ BufferEmpty(w) \/ RunEnds(w)

-----------------------------------------------------------------------------
(* The broker, as Broker has it: the last hello is registered, and replaces *)
(* and closes the one before; it sends to the registered connection.        *)

\* Mutant: the connection that is replaced stays open.
RegisterBeside(w) ==
  /\ peer[w] /\ reg # w /\ Len(wired[w]) >= 1
  /\ reg' = w
  /\ UNCHANGED <<client, workerVars, told, outVars, inVars, main, peer>>

Register(w) ==
  /\ peer[w] /\ reg # w /\ Len(wired[w]) >= 1
  /\ reg' = w
  /\ peer' = [v \in Workers |-> IF v = reg THEN FALSE ELSE peer[v]]
  /\ UNCHANGED <<client, workerVars, told, outVars, inVars, main>>

BrokerSends(w) ==
  /\ reg = w /\ peer[w]
  /\ arrived[w] < MaxLines
  /\ arrived' = [arrived EXCEPT ![w] = @ + 1]
  /\ UNCHANGED <<client, workerVars, told, outVars, read, handed, messages, handled, main,
                 peer, reg>>

\* The broker sees the end of a connection, or breaks it.
BrokerEnds(w) ==
  /\ peer[w]
  /\ peer' = [peer EXCEPT ![w] = FALSE]
  /\ reg' = IF reg = w THEN None ELSE reg
  /\ UNCHANGED <<client, workerVars, told, outVars, inVars, main>>

MainThread == (\E w \in Workers : DrainBegins(w)) \/ _handle_message \/ DrainEnds

Next ==
  \/ disconnect \/ MainThread
  \/ \E w \in Workers :
       connect(w) \/ _run(w) \/ Register(w) \/ BrokerSends(w) \/ BrokerEnds(w)

Spec == Init /\ [][Next]_vars

(***************************************************************************)
(* Threads run, IDA's main thread serves execute_sync, every socket call of *)
(* a worker has a timeout, and the broker reads what it is sent.            *)
(***************************************************************************)
FairSpec ==
  /\ Spec /\ WF_vars(MainThread)
  /\ \A w \in Workers : WF_vars(_run(w)) /\ WF_vars(Register(w))

-----------------------------------------------------------------------------
Counters == [Workers -> Nat]

TypeOK ==
  /\ client \in Workers \cup {None} /\ main \in Workers \cup {None}
  /\ reg \in Workers \cup {None}
  /\ state \in [Workers -> States]
  /\ stop \in [Workers -> BOOLEAN] /\ connected \in [Workers -> BOOLEAN]
  /\ sock \in [Workers -> {"none", "open", "shut"}]
  /\ told \subseteq Workers
  /\ queued \in Counters /\ drained \in Counters
  /\ wired \in [Workers -> Seq(Nat)]
  /\ arrived \in Counters /\ read \in Counters /\ handed \in Counters
  /\ messages \in Seq(Workers \X Nat)
  /\ handled \in [Workers -> Seq(Nat)]
  /\ peer \in [Workers -> BOOLEAN]
  /\ main # None => state[main] = "waiting" /\ client # None

(***************************************************************************)
(* What goes out and what comes in are ordered channels: on a connection    *)
(* hello is first and the messages of the send queue follow in order,       *)
(* without a gap even after a send that failed, and the main thread handles *)
(* the lines of a connection in order and once, although several workers    *)
(* share one queue and each may run the drain of the others' messages.      *)
(***************************************************************************)
Out == INSTANCE OrderedChannels
         WITH Connections <- Workers, given <- queued, taken <- wired
In == INSTANCE OrderedChannels
        WITH Connections <- Workers, given <- arrived, taken <- handled

OutInOrder == Out!Spec
InInOrder == In!Spec

(***************************************************************************)
(* A client that disconnect was called on comes to its end, wherever its    *)
(* worker was: still connecting, sending, or waiting for the main thread.   *)
(***************************************************************************)
DisconnectEnds == \A w \in Workers : w \in told ~> state[w] = "ended"

(***************************************************************************)
(* connect may start a second worker while the first one is connecting, and *)
(* the controller forgets the first.  In the end at most one connection     *)
(* is left, because the broker closes the one it replaces.                  *)
(***************************************************************************)
OneRemains ==
  <>[](Cardinality({w \in Workers : state[w] \notin {"none", "ended"}}) <= 1)
=============================================================================
