------------------------ MODULE ProtocolClientProofs ------------------------
(***************************************************************************)
(* What ProtocolClient's run checks for two connects and two lines, proved  *)
(* for every number of both: the type invariant, and that what a client     *)
(* sends and what the main thread handles are ordered channels.             *)
(*                                                                          *)
(* The last two are step simulations under an inductive invariant.  For the *)
(* messages sent, it says that the number taken from the send queue is the  *)
(* number written, except where a send failed, which set the stop event and *)
(* left the drain, so that no later message follows the lost one.  For the  *)
(* messages handled, it says that the queue shared by all workers holds at  *)
(* most one line of each, the next one in its order, and that its worker    *)
(* waits for the main thread while it is there.                             *)
(***************************************************************************)
EXTENDS ProtocolClient, TLAPS

\* What a worker's state says of its connection and of the controller.
Started ==
  /\ client # None => state[client] # "none"
  /\ \A w \in Workers : state[w] # "none" => client # None
  /\ \A w \in Workers : state[w] = "none" <=> queued[w] = 0
  /\ \A w \in Workers : state[w] \in {"none", "connecting", "hello"} =>
                          drained[w] = 0 /\ wired[w] = <<>>

\* A message is lost only where the drain has ended for good.
NoGap ==
  \A w \in Workers : Len(wired[w]) = drained[w] \/ (stop[w] /\ state[w] # "drain")

\* The controller's queue: the next line of some of the waiting workers.
OneEach ==
  /\ \A i \in 1..Len(messages) :
       LET w == messages[i][1] IN
       /\ messages[i][2] = Len(handled[w]) + 1
       /\ handed[w] = Len(handled[w]) + 1
       /\ state[w] = "waiting"
  /\ \A i, j \in 1..Len(messages) : messages[i][1] = messages[j][1] => i = j
  /\ \A w \in Workers :
       (\A i \in 1..Len(messages) : messages[i][1] # w) => handed[w] = Len(handled[w])

\* Lines are handed over once they are received, and received once they are sent.
Received == \A w \in Workers : handed[w] <= read[w] /\ read[w] <= arrived[w]

IndInv == TypeOK /\ Started /\ NoGap /\ OneEach /\ Received

-----------------------------------------------------------------------------
\* Writing a message keeps the types of what it changes.
LEMMA WritesType ==
  ASSUME TypeOK, NEW w \in Workers, Writes(w)
  PROVE  drained' \in Counters /\ wired' \in [Workers -> Seq(Nat)]
<1>1. drained \in [Workers -> Nat] /\ wired \in [Workers -> Seq(Nat)]
  BY DEF TypeOK, Counters
<1>2. /\ drained' = [drained EXCEPT ![w] = drained[w] + 1]
      /\ wired' = [wired EXCEPT ![w] = Append(wired[w], drained[w] + 1)]
  BY DEF Writes
<1>3. drained[w] + 1 \in Nat /\ Append(wired[w], drained[w] + 1) \in Seq(Nat)
  BY <1>1
<1>4. QED
  BY <1>1, <1>2, <1>3 DEF Counters

\* Every step keeps the types.
LEMMA TypeStep ==
  ASSUME TypeOK, Started, Next
  PROVE  TypeOK'
<1>1. CASE disconnect
  BY <1>1 DEF disconnect, TypeOK, Started, Counters, States, Workers, None, workerVars,
              outVars, inVars
<1>2. ASSUME NEW w \in Workers, DrainBegins(w) PROVE TypeOK'
  BY <1>2 DEF DrainBegins, TypeOK, Started, Counters, States, Workers, None, workerVars,
              outVars, inVars
<1>3. CASE _handle_message
  <2> DEFINE m == Head(messages)
  <2>1. m \in Workers \X Nat /\ messages' \in Seq(Workers \X Nat)
    BY <1>3 DEF _handle_message, TypeOK
  <2>2. handled' \in [Workers -> Seq(Nat)]
    <3>1. handled \in [Workers -> Seq(Nat)] /\ m[1] \in Workers /\ m[2] \in Nat
      BY <2>1 DEF TypeOK
    <3>2. Append(handled[m[1]], m[2]) \in Seq(Nat)
      BY <3>1
    <3>3. handled' = [handled EXCEPT ![m[1]] = Append(handled[m[1]], m[2])]
      BY <1>3 DEF _handle_message
    <3>4. QED
      BY <3>1, <3>2, <3>3
  <2>3. queued' \in Counters
    <3>1. queued \in [Workers -> Nat]
      BY DEF TypeOK, Counters
    <3>2. queued' = queued \/ queued' = [queued EXCEPT ![client] = @ + 1]
      BY <1>3 DEF _handle_message, Sends
    <3>3. client \in Workers
      BY <1>3 DEF _handle_message, TypeOK, None
    <3>4. QED
      BY <3>1, <3>2, <3>3 DEF Counters
  <2>4. QED
    BY <1>3, <2>1, <2>2, <2>3 DEF _handle_message, TypeOK, Counters, workerVars
<1>4. CASE DrainEnds
  BY <1>4 DEF DrainEnds, TypeOK, Started, Counters, States, Workers, None, workerVars,
              outVars, inVars
<1>5. ASSUME NEW w \in Workers, connect(w) PROVE TypeOK'
  BY <1>5 DEF connect, TypeOK, Started, Counters, States, Workers, None, workerVars,
              outVars, inVars
<1>6. ASSUME NEW w \in Workers, Opened(w) PROVE TypeOK'
  BY <1>6 DEF Opened, Goes, TypeOK, Started, Counters, States, Workers, None, workerVars,
              outVars, inVars
<1>7. ASSUME NEW w \in Workers, ConnectFails(w) PROVE TypeOK'
  BY <1>7 DEF ConnectFails, Goes, TypeOK, Started, Counters, States, Workers, None,
              workerVars, outVars, inVars
<1>8. ASSUME NEW w \in Workers, SendHello(w) PROVE TypeOK'
  <2>1. (drained' \in Counters) /\ (wired' \in [Workers -> Seq(Nat)])
    BY <1>8, WritesType DEF SendHello
  <2>2. QED
    BY <1>8, <2>1 DEF SendHello, Writes, Goes, TypeOK, Started, Counters, States, Workers,
                      None, workerVars, outVars, inVars
<1>9. ASSUME NEW w \in Workers, HelloFails(w) PROVE TypeOK'
  BY <1>9 DEF HelloFails, Goes, TypeOK, Started, Counters, States, Workers, None,
              workerVars, outVars, inVars
<1>10. ASSUME NEW w \in Workers, SetConnected(w) PROVE TypeOK'
  BY <1>10 DEF SetConnected, Goes, TypeOK, Started, Counters, States, Workers, None,
               workerVars, outVars, inVars
<1>11. ASSUME NEW w \in Workers, LoopTest(w) PROVE TypeOK'
  BY <1>11 DEF LoopTest, Goes, TypeOK, Started, Counters, States, Workers, None, workerVars,
               outVars, inVars
<1>12. ASSUME NEW w \in Workers, DrainOne(w) PROVE TypeOK'
  <2>1. (drained' \in Counters) /\ (wired' \in [Workers -> Seq(Nat)])
    BY <1>12, WritesType DEF DrainOne
  <2>2. QED
    BY <1>12, <2>1 DEF DrainOne, Writes, Goes, TypeOK, Started, Counters, States, Workers,
                       None, workerVars, outVars, inVars
<1>13. ASSUME NEW w \in Workers, SendFails(w) PROVE TypeOK'
  <2>1. drained' \in Counters
    BY <1>13 DEF SendFails, Goes, TypeOK, Counters, outVars, inVars
  <2>2. QED
    BY <1>13, <2>1 DEF SendFails, Goes, TypeOK, Started, Counters, States, Workers, None,
                       workerVars, outVars, inVars
<1>14. ASSUME NEW w \in Workers, SendQueueEmpty(w) PROVE TypeOK'
  BY <1>14 DEF SendQueueEmpty, Goes, TypeOK, Started, Counters, States, Workers, None,
               workerVars, outVars, inVars
<1>15. ASSUME NEW w \in Workers, ReceiveLines(w) PROVE TypeOK'
  <2>1. read' \in Counters
    BY <1>15 DEF ReceiveLines, Goes, TypeOK, Counters, outVars, inVars
  <2>2. QED
    BY <1>15, <2>1 DEF ReceiveLines, Goes, TypeOK, Started, Counters, States, Workers, None,
                       workerVars, outVars, inVars
<1>16. ASSUME NEW w \in Workers, ReceiveTimeout(w) PROVE TypeOK'
  BY <1>16 DEF ReceiveTimeout, Goes, TypeOK, Started, Counters, States, Workers, None,
               workerVars, outVars, inVars
<1>17. ASSUME NEW w \in Workers, ReceiveEnds(w) PROVE TypeOK'
  BY <1>17 DEF ReceiveEnds, Goes, TypeOK, Started, Counters, States, Workers, None,
               workerVars, outVars, inVars
<1>18. ASSUME NEW w \in Workers, HandOver(w) PROVE TypeOK'
  BY <1>18 DEF HandOver, Goes, TypeOK, Started, Counters, States, Workers, None, workerVars,
               outVars, inVars
<1>19. ASSUME NEW w \in Workers, BufferEmpty(w) PROVE TypeOK'
  BY <1>19 DEF BufferEmpty, Goes, TypeOK, Started, Counters, States, Workers, None,
               workerVars, outVars, inVars
<1>20. ASSUME NEW w \in Workers, RunEnds(w) PROVE TypeOK'
  BY <1>20 DEF RunEnds, Goes, TypeOK, Started, Counters, States, Workers, None, workerVars,
               outVars, inVars
<1>21. ASSUME NEW w \in Workers, Register(w) PROVE TypeOK'
  BY <1>21 DEF Register, TypeOK, Started, Counters, States, Workers, None, workerVars,
               outVars, inVars
<1>22. ASSUME NEW w \in Workers, BrokerSends(w) PROVE TypeOK'
  <2>1. arrived' \in Counters
    BY <1>22 DEF BrokerSends, TypeOK, Counters, outVars, inVars
  <2>2. QED
    BY <1>22, <2>1 DEF BrokerSends, TypeOK, Started, Counters, States, Workers, None,
                       workerVars, outVars, inVars
<1>23. ASSUME NEW w \in Workers, BrokerEnds(w) PROVE TypeOK'
  BY <1>23 DEF BrokerEnds, TypeOK, Started, Counters, States, Workers, None, workerVars,
               outVars, inVars
<1>24. QED
  BY <1>1, <1>2, <1>3, <1>4, <1>5, <1>6, <1>7, <1>8, <1>9, <1>10, <1>11, <1>12,
     <1>13, <1>14, <1>15, <1>16, <1>17, <1>18, <1>19, <1>20, <1>21, <1>22, <1>23
     DEF Next, MainThread, _run

\* Every step keeps what a worker's state says.
LEMMA StartedStep ==
  ASSUME TypeOK, Started, Next
  PROVE  Started'
<1>1. CASE disconnect
  BY <1>1 DEF disconnect, TypeOK, Started, Counters, States, Workers, None, workerVars,
              outVars, inVars
<1>2. ASSUME NEW w \in Workers, DrainBegins(w) PROVE Started'
  BY <1>2 DEF DrainBegins, TypeOK, Started, Counters, States, Workers, None, workerVars,
              outVars, inVars
<1>3. CASE _handle_message
  <2>1. queued \in Counters /\ client \in Workers /\ state[client] # "none"
    BY <1>3 DEF _handle_message, TypeOK, Started, None
  <2>2. \A w \in Workers : queued'[w] = 0 <=> queued[w] = 0
    BY <1>3, <2>1 DEF _handle_message, Sends, Started, Counters
  <2>3. QED
    BY <1>3, <2>2 DEF _handle_message, Started, workerVars
<1>4. CASE DrainEnds
  BY <1>4 DEF DrainEnds, TypeOK, Started, Counters, States, Workers, None, workerVars,
              outVars, inVars
<1>5. ASSUME NEW w \in Workers, connect(w) PROVE Started'
  BY <1>5 DEF connect, TypeOK, Started, Counters, States, Workers, None, workerVars,
              outVars, inVars
<1>6. ASSUME NEW w \in Workers, Opened(w) PROVE Started'
  BY <1>6 DEF Opened, Goes, TypeOK, Started, Counters, States, Workers, None, workerVars,
              outVars, inVars
<1>7. ASSUME NEW w \in Workers, ConnectFails(w) PROVE Started'
  BY <1>7 DEF ConnectFails, Goes, TypeOK, Started, Counters, States, Workers, None,
              workerVars, outVars, inVars
<1>8. ASSUME NEW w \in Workers, SendHello(w) PROVE Started'
  BY <1>8 DEF SendHello, Writes, Goes, TypeOK, Started, Counters, States, Workers, None,
              workerVars, outVars, inVars
<1>9. ASSUME NEW w \in Workers, HelloFails(w) PROVE Started'
  BY <1>9 DEF HelloFails, Goes, TypeOK, Started, Counters, States, Workers, None,
              workerVars, outVars, inVars
<1>10. ASSUME NEW w \in Workers, SetConnected(w) PROVE Started'
  BY <1>10 DEF SetConnected, Goes, TypeOK, Started, Counters, States, Workers, None,
               workerVars, outVars, inVars
<1>11. ASSUME NEW w \in Workers, LoopTest(w) PROVE Started'
  BY <1>11 DEF LoopTest, Goes, TypeOK, Started, Counters, States, Workers, None, workerVars,
               outVars, inVars
<1>12. ASSUME NEW w \in Workers, DrainOne(w) PROVE Started'
  BY <1>12 DEF DrainOne, Writes, Goes, TypeOK, Started, Counters, States, Workers, None,
               workerVars, outVars, inVars
<1>13. ASSUME NEW w \in Workers, SendFails(w) PROVE Started'
  BY <1>13 DEF SendFails, Goes, TypeOK, Started, Counters, States, Workers, None,
               workerVars, outVars, inVars
<1>14. ASSUME NEW w \in Workers, SendQueueEmpty(w) PROVE Started'
  BY <1>14 DEF SendQueueEmpty, Goes, TypeOK, Started, Counters, States, Workers, None,
               workerVars, outVars, inVars
<1>15. ASSUME NEW w \in Workers, ReceiveLines(w) PROVE Started'
  BY <1>15 DEF ReceiveLines, Goes, TypeOK, Started, Counters, States, Workers, None,
               workerVars, outVars, inVars
<1>16. ASSUME NEW w \in Workers, ReceiveTimeout(w) PROVE Started'
  BY <1>16 DEF ReceiveTimeout, Goes, TypeOK, Started, Counters, States, Workers, None,
               workerVars, outVars, inVars
<1>17. ASSUME NEW w \in Workers, ReceiveEnds(w) PROVE Started'
  BY <1>17 DEF ReceiveEnds, Goes, TypeOK, Started, Counters, States, Workers, None,
               workerVars, outVars, inVars
<1>18. ASSUME NEW w \in Workers, HandOver(w) PROVE Started'
  BY <1>18 DEF HandOver, Goes, TypeOK, Started, Counters, States, Workers, None, workerVars,
               outVars, inVars
<1>19. ASSUME NEW w \in Workers, BufferEmpty(w) PROVE Started'
  BY <1>19 DEF BufferEmpty, Goes, TypeOK, Started, Counters, States, Workers, None,
               workerVars, outVars, inVars
<1>20. ASSUME NEW w \in Workers, RunEnds(w) PROVE Started'
  BY <1>20 DEF RunEnds, Goes, TypeOK, Started, Counters, States, Workers, None, workerVars,
               outVars, inVars
<1>21. ASSUME NEW w \in Workers, Register(w) PROVE Started'
  BY <1>21 DEF Register, TypeOK, Started, Counters, States, Workers, None, workerVars,
               outVars, inVars
<1>22. ASSUME NEW w \in Workers, BrokerSends(w) PROVE Started'
  BY <1>22 DEF BrokerSends, TypeOK, Started, Counters, States, Workers, None, workerVars,
               outVars, inVars
<1>23. ASSUME NEW w \in Workers, BrokerEnds(w) PROVE Started'
  BY <1>23 DEF BrokerEnds, TypeOK, Started, Counters, States, Workers, None, workerVars,
               outVars, inVars
<1>24. QED
  BY <1>1, <1>2, <1>3, <1>4, <1>5, <1>6, <1>7, <1>8, <1>9, <1>10, <1>11, <1>12,
     <1>13, <1>14, <1>15, <1>16, <1>17, <1>18, <1>19, <1>20, <1>21, <1>22, <1>23
     DEF Next, MainThread, _run

\* Every step keeps the send queue's order: only SendFails loses a message.
LEMMA NoGapStep ==
  ASSUME TypeOK, Started, NoGap, Next
  PROVE  NoGap'
<1>1. CASE disconnect
  BY <1>1 DEF disconnect, TypeOK, Started, NoGap, Counters, States, Workers, None,
              workerVars, outVars, inVars
<1>2. ASSUME NEW w \in Workers, DrainBegins(w) PROVE NoGap'
  BY <1>2 DEF DrainBegins, TypeOK, Started, NoGap, Counters, States, Workers, None,
              workerVars, outVars, inVars
<1>3. CASE _handle_message
  BY <1>3 DEF _handle_message, Sends, TypeOK, Started, NoGap, Counters, States, Workers,
              None, workerVars, outVars, inVars
<1>4. CASE DrainEnds
  BY <1>4 DEF DrainEnds, TypeOK, Started, NoGap, Counters, States, Workers, None,
              workerVars, outVars, inVars
<1>5. ASSUME NEW w \in Workers, connect(w) PROVE NoGap'
  BY <1>5 DEF connect, TypeOK, Started, NoGap, Counters, States, Workers, None, workerVars,
              outVars, inVars
<1>6. ASSUME NEW w \in Workers, Opened(w) PROVE NoGap'
  BY <1>6 DEF Opened, Goes, TypeOK, Started, NoGap, Counters, States, Workers, None,
              workerVars, outVars, inVars
<1>7. ASSUME NEW w \in Workers, ConnectFails(w) PROVE NoGap'
  BY <1>7 DEF ConnectFails, Goes, TypeOK, Started, NoGap, Counters, States, Workers, None,
              workerVars, outVars, inVars
<1>8. ASSUME NEW w \in Workers, SendHello(w) PROVE NoGap'
  BY <1>8 DEF SendHello, Writes, Goes, TypeOK, Started, NoGap, Counters, States, Workers,
              None, workerVars, outVars, inVars
<1>9. ASSUME NEW w \in Workers, HelloFails(w) PROVE NoGap'
  BY <1>9 DEF HelloFails, Goes, TypeOK, Started, NoGap, Counters, States, Workers, None,
              workerVars, outVars, inVars
<1>10. ASSUME NEW w \in Workers, SetConnected(w) PROVE NoGap'
  BY <1>10 DEF SetConnected, Goes, TypeOK, Started, NoGap, Counters, States, Workers, None,
               workerVars, outVars, inVars
<1>11. ASSUME NEW w \in Workers, LoopTest(w) PROVE NoGap'
  BY <1>11 DEF LoopTest, Goes, TypeOK, Started, NoGap, Counters, States, Workers, None,
               workerVars, outVars, inVars
<1>12. ASSUME NEW w \in Workers, DrainOne(w) PROVE NoGap'
  BY <1>12 DEF DrainOne, Writes, Goes, TypeOK, Started, NoGap, Counters, States, Workers,
               None, workerVars, outVars, inVars
<1>13. ASSUME NEW w \in Workers, SendFails(w) PROVE NoGap'
  BY <1>13 DEF SendFails, Goes, TypeOK, Started, NoGap, Counters, States, Workers, None,
               workerVars, outVars, inVars
<1>14. ASSUME NEW w \in Workers, SendQueueEmpty(w) PROVE NoGap'
  BY <1>14 DEF SendQueueEmpty, Goes, TypeOK, Started, NoGap, Counters, States, Workers,
               None, workerVars, outVars, inVars
<1>15. ASSUME NEW w \in Workers, ReceiveLines(w) PROVE NoGap'
  BY <1>15 DEF ReceiveLines, Goes, TypeOK, Started, NoGap, Counters, States, Workers, None,
               workerVars, outVars, inVars
<1>16. ASSUME NEW w \in Workers, ReceiveTimeout(w) PROVE NoGap'
  BY <1>16 DEF ReceiveTimeout, Goes, TypeOK, Started, NoGap, Counters, States, Workers,
               None, workerVars, outVars, inVars
<1>17. ASSUME NEW w \in Workers, ReceiveEnds(w) PROVE NoGap'
  BY <1>17 DEF ReceiveEnds, Goes, TypeOK, Started, NoGap, Counters, States, Workers, None,
               workerVars, outVars, inVars
<1>18. ASSUME NEW w \in Workers, HandOver(w) PROVE NoGap'
  BY <1>18 DEF HandOver, Goes, TypeOK, Started, NoGap, Counters, States, Workers, None,
               workerVars, outVars, inVars
<1>19. ASSUME NEW w \in Workers, BufferEmpty(w) PROVE NoGap'
  BY <1>19 DEF BufferEmpty, Goes, TypeOK, Started, NoGap, Counters, States, Workers, None,
               workerVars, outVars, inVars
<1>20. ASSUME NEW w \in Workers, RunEnds(w) PROVE NoGap'
  BY <1>20 DEF RunEnds, Goes, TypeOK, Started, NoGap, Counters, States, Workers, None,
               workerVars, outVars, inVars
<1>21. ASSUME NEW w \in Workers, Register(w) PROVE NoGap'
  BY <1>21 DEF Register, TypeOK, Started, NoGap, Counters, States, Workers, None,
               workerVars, outVars, inVars
<1>22. ASSUME NEW w \in Workers, BrokerSends(w) PROVE NoGap'
  BY <1>22 DEF BrokerSends, TypeOK, Started, NoGap, Counters, States, Workers, None,
               workerVars, outVars, inVars
<1>23. ASSUME NEW w \in Workers, BrokerEnds(w) PROVE NoGap'
  BY <1>23 DEF BrokerEnds, TypeOK, Started, NoGap, Counters, States, Workers, None,
               workerVars, outVars, inVars
<1>24. QED
  BY <1>1, <1>2, <1>3, <1>4, <1>5, <1>6, <1>7, <1>8, <1>9, <1>10, <1>11, <1>12,
     <1>13, <1>14, <1>15, <1>16, <1>17, <1>18, <1>19, <1>20, <1>21, <1>22, <1>23
     DEF Next, MainThread, _run

\* Every step keeps the order of the counters of received lines.
LEMMA ReceivedStep ==
  ASSUME TypeOK, Received, Next
  PROVE  Received'
<1> USE ClientAssumption
<1>0. arrived \in Counters /\ read \in Counters /\ handed \in Counters
  BY DEF TypeOK
<1>1. CASE disconnect
  BY <1>1 DEF disconnect, Received, Counters, inVars
<1>2. ASSUME NEW w \in Workers, DrainBegins(w) PROVE Received'
  BY <1>2 DEF DrainBegins, Received, Counters, inVars
<1>3. CASE _handle_message
  BY <1>3 DEF _handle_message, Sends, Received, Counters, inVars
<1>4. CASE DrainEnds
  BY <1>4 DEF DrainEnds, Received, Counters, inVars
<1>5. ASSUME NEW w \in Workers, connect(w) PROVE Received'
  BY <1>0, <1>5 DEF connect, Received, Counters, inVars
<1>6. ASSUME NEW w \in Workers, Opened(w) PROVE Received'
  BY <1>0, <1>6 DEF Opened, Goes, Received, Counters, inVars
<1>7. ASSUME NEW w \in Workers, ConnectFails(w) PROVE Received'
  BY <1>0, <1>7 DEF ConnectFails, Goes, Received, Counters, inVars
<1>8. ASSUME NEW w \in Workers, SendHello(w) PROVE Received'
  BY <1>0, <1>8 DEF SendHello, Writes, Goes, Received, Counters, inVars
<1>9. ASSUME NEW w \in Workers, HelloFails(w) PROVE Received'
  BY <1>0, <1>9 DEF HelloFails, Goes, Received, Counters, inVars
<1>10. ASSUME NEW w \in Workers, SetConnected(w) PROVE Received'
  BY <1>0, <1>10 DEF SetConnected, Goes, Received, Counters, inVars
<1>11. ASSUME NEW w \in Workers, LoopTest(w) PROVE Received'
  BY <1>0, <1>11 DEF LoopTest, Goes, Received, Counters, inVars
<1>12. ASSUME NEW w \in Workers, DrainOne(w) PROVE Received'
  BY <1>0, <1>12 DEF DrainOne, Writes, Goes, Received, Counters, inVars
<1>13. ASSUME NEW w \in Workers, SendFails(w) PROVE Received'
  BY <1>0, <1>13 DEF SendFails, Goes, Received, Counters, inVars
<1>14. ASSUME NEW w \in Workers, SendQueueEmpty(w) PROVE Received'
  BY <1>0, <1>14 DEF SendQueueEmpty, Goes, Received, Counters, inVars
<1>15. ASSUME NEW w \in Workers, ReceiveLines(w) PROVE Received'
  BY <1>0, <1>15 DEF ReceiveLines, Goes, Received, Counters, inVars
<1>16. ASSUME NEW w \in Workers, ReceiveTimeout(w) PROVE Received'
  BY <1>0, <1>16 DEF ReceiveTimeout, Goes, Received, Counters, inVars
<1>17. ASSUME NEW w \in Workers, ReceiveEnds(w) PROVE Received'
  BY <1>0, <1>17 DEF ReceiveEnds, Goes, Received, Counters, inVars
<1>18. ASSUME NEW w \in Workers, HandOver(w) PROVE Received'
  BY <1>0, <1>18 DEF HandOver, Goes, Received, Counters, inVars
<1>19. ASSUME NEW w \in Workers, BufferEmpty(w) PROVE Received'
  BY <1>0, <1>19 DEF BufferEmpty, Goes, Received, Counters, inVars
<1>20. ASSUME NEW w \in Workers, RunEnds(w) PROVE Received'
  BY <1>0, <1>20 DEF RunEnds, Goes, Received, Counters, inVars
<1>21. ASSUME NEW w \in Workers, Register(w) PROVE Received'
  BY <1>0, <1>21 DEF Register, Received, Counters, inVars
<1>22. ASSUME NEW w \in Workers, BrokerSends(w) PROVE Received'
  BY <1>0, <1>22 DEF BrokerSends, Received, Counters, inVars
<1>23. ASSUME NEW w \in Workers, BrokerEnds(w) PROVE Received'
  BY <1>0, <1>23 DEF BrokerEnds, Received, Counters, inVars
<1>24. QED
  BY <1>1, <1>2, <1>3, <1>4, <1>5, <1>6, <1>7, <1>8, <1>9, <1>10, <1>11, <1>12,
     <1>13, <1>14, <1>15, <1>16, <1>17, <1>18, <1>19, <1>20, <1>21, <1>22, <1>23
     DEF Next, MainThread, _run

\* The controller's queue is not disturbed by a step that leaves it alone and
\* takes no waiting worker from its wait.
LEMMA OneEachFrame ==
  ASSUME TypeOK, OneEach, messages' = messages, handled' = handled, handed' = handed,
         \A v \in Workers : state[v] = "waiting" => state'[v] = "waiting"
  PROVE  OneEach'
<1>1. \A i \in 1..Len(messages) : messages[i][1] \in Workers
  BY DEF TypeOK
<1>2. QED
  BY <1>1 DEF OneEach

\* Every step keeps the controller's queue.
LEMMA OneEachStep ==
  ASSUME TypeOK, OneEach, Next
  PROVE  OneEach'
<1>0. /\ arrived \in Counters /\ handed \in Counters
      /\ messages \in Seq(Workers \X Nat) /\ handled \in [Workers -> Seq(Nat)]
      /\ state \in [Workers -> States]
  BY DEF TypeOK
<1>1. CASE disconnect
  BY <1>0, <1>1, OneEachFrame DEF disconnect, inVars, workerVars
<1>2. ASSUME NEW w \in Workers, DrainBegins(w) PROVE OneEach'
  BY <1>0, <1>2, OneEachFrame DEF DrainBegins, inVars, workerVars
<1>3. CASE _handle_message
  <2> DEFINE m == Head(messages)
  <2>1. m \in Workers \X Nat /\ m = messages[1] /\ Len(messages) \in Nat \ {0}
    BY <1>0, <1>3 DEF _handle_message
  <2>2. /\ Len(messages') = Len(messages) - 1
        /\ \A i \in 1..Len(messages') : messages'[i] = messages[i + 1]
    BY <1>0, <1>3, <2>1 DEF _handle_message
  <2>3. ASSUME NEW i \in 1..Len(messages')
        PROVE  /\ i + 1 \in 1..Len(messages) /\ messages'[i] = messages[i + 1]
               /\ messages'[i][1] \in Workers \ {m[1]}
    <3>1. i + 1 \in 1..Len(messages) /\ i + 1 # 1 /\ 1 \in 1..Len(messages)
      BY <2>1, <2>2
    <3>2. messages'[i] = messages[i + 1] /\ messages[i + 1] \in Workers \X Nat
      BY <1>0, <2>2, <3>1
    <3>3. messages[i + 1][1] # messages[1][1]
      BY <3>1 DEF OneEach
    <3>4. QED
      BY <2>1, <3>1, <3>2, <3>3
  <2>4. /\ m[1] \in Workers
        /\ Len(handled'[m[1]]) = Len(handled[m[1]]) + 1
        /\ \A w \in Workers \ {m[1]} : handled'[w] = handled[w]
    BY <1>0, <1>3, <2>1 DEF _handle_message
  <2>5. handed' = handed /\ state' = state
    BY <1>3 DEF _handle_message, workerVars
  <2>6. handed[m[1]] = Len(handled[m[1]]) + 1
    BY <2>1 DEF OneEach
  <2>7. \A w \in Workers : (\A i \in 1..Len(messages') : messages'[i][1] # w)
                            => handed'[w] = Len(handled'[w])
    <3>1. SUFFICES ASSUME NEW w \in Workers \ {m[1]},
                          \A i \in 1..Len(messages') : messages'[i][1] # w
                   PROVE  handed'[w] = Len(handled'[w])
      BY <2>4, <2>5, <2>6
    <3>2. ASSUME NEW i \in 1..Len(messages) PROVE messages[i][1] # w
      <4>1. CASE i = 1
        BY <4>1, <2>1
      <4>2. CASE i # 1
        <5>1. i - 1 \in 1..Len(messages') /\ messages'[i - 1] = messages[(i - 1) + 1]
          BY <2>1, <2>2, <4>2
        <5>2. messages'[i - 1] = messages[i]
          BY <5>1
        <5>3. QED
          BY <5>1, <5>2, <3>1
      <4>3. QED
        BY <4>1, <4>2
    <3>3. QED
      BY <3>2, <2>4, <2>5 DEF OneEach
  <2>8. ASSUME NEW i \in 1..Len(messages')
        PROVE  /\ messages'[i][2] = Len(handled'[messages'[i][1]]) + 1
               /\ handed'[messages'[i][1]] = Len(handled'[messages'[i][1]]) + 1
               /\ state'[messages'[i][1]] = "waiting"
    <3>1. handled'[messages'[i][1]] = handled[messages[i + 1][1]]
      BY <2>3, <2>4
    <3>2. /\ messages[i + 1][2] = Len(handled[messages[i + 1][1]]) + 1
          /\ handed[messages[i + 1][1]] = Len(handled[messages[i + 1][1]]) + 1
          /\ state[messages[i + 1][1]] = "waiting"
      BY <2>3 DEF OneEach
    <3>3. QED
      BY <2>3, <2>5, <3>1, <3>2
  <2>9. \A i, j \in 1..Len(messages') : messages'[i][1] = messages'[j][1] => i = j
    BY <2>1, <2>2 DEF OneEach
  <2>10. QED
    BY <2>7, <2>8, <2>9 DEF OneEach
<1>4. CASE DrainEnds
  <2>1. messages = <<>> /\ messages' = messages /\ handed' = handed /\ handled' = handled
    BY <1>4 DEF DrainEnds, inVars
  <2>2. QED
    BY <1>0, <2>1 DEF OneEach
<1>5. ASSUME NEW w \in Workers, connect(w) PROVE OneEach'
  BY <1>0, <1>5, OneEachFrame DEF connect, inVars
<1>6. ASSUME NEW w \in Workers, Opened(w) PROVE OneEach'
  BY <1>0, <1>6, OneEachFrame DEF Opened, Goes, inVars
<1>7. ASSUME NEW w \in Workers, ConnectFails(w) PROVE OneEach'
  BY <1>0, <1>7, OneEachFrame DEF ConnectFails, Goes, inVars
<1>8. ASSUME NEW w \in Workers, SendHello(w) PROVE OneEach'
  BY <1>0, <1>8, OneEachFrame DEF SendHello, Writes, Goes, inVars
<1>9. ASSUME NEW w \in Workers, HelloFails(w) PROVE OneEach'
  BY <1>0, <1>9, OneEachFrame DEF HelloFails, Goes, inVars
<1>10. ASSUME NEW w \in Workers, SetConnected(w) PROVE OneEach'
  BY <1>0, <1>10, OneEachFrame DEF SetConnected, Goes, inVars
<1>11. ASSUME NEW w \in Workers, LoopTest(w) PROVE OneEach'
  BY <1>0, <1>11, OneEachFrame DEF LoopTest, Goes, inVars
<1>12. ASSUME NEW w \in Workers, DrainOne(w) PROVE OneEach'
  BY <1>0, <1>12, OneEachFrame DEF DrainOne, Writes, Goes, inVars
<1>13. ASSUME NEW w \in Workers, SendFails(w) PROVE OneEach'
  BY <1>0, <1>13, OneEachFrame DEF SendFails, Goes, inVars
<1>14. ASSUME NEW w \in Workers, SendQueueEmpty(w) PROVE OneEach'
  BY <1>0, <1>14, OneEachFrame DEF SendQueueEmpty, Goes, inVars
<1>15. ASSUME NEW w \in Workers, ReceiveLines(w) PROVE OneEach'
  BY <1>0, <1>15, OneEachFrame DEF ReceiveLines, Goes, inVars
<1>16. ASSUME NEW w \in Workers, ReceiveTimeout(w) PROVE OneEach'
  BY <1>0, <1>16, OneEachFrame DEF ReceiveTimeout, Goes, inVars
<1>17. ASSUME NEW w \in Workers, ReceiveEnds(w) PROVE OneEach'
  BY <1>0, <1>17, OneEachFrame DEF ReceiveEnds, Goes, inVars
<1>18. ASSUME NEW w \in Workers, HandOver(w) PROVE OneEach'
  <2>1. /\ Len(messages) \in Nat
        /\ Len(messages') = Len(messages) + 1
        /\ \A i \in 1..Len(messages) : messages'[i] = messages[i] /\ messages[i][1] \in Workers
        /\ messages'[Len(messages')] = <<w, handed[w] + 1>>
    BY <1>0, <1>18 DEF HandOver
  <2>2. /\ handled' = handled
        /\ handed'[w] = handed[w] + 1 /\ handed[w] \in Nat
        /\ \A v \in Workers \ {w} : handed'[v] = handed[v]
        /\ state'[w] = "waiting"
        /\ \A v \in Workers \ {w} : state'[v] = state[v]
    BY <1>0, <1>18 DEF HandOver, Goes, Counters
  <2>3. \A i \in 1..Len(messages) : messages[i][1] # w
    BY <1>18 DEF HandOver, OneEach
  <2>4. handed[w] = Len(handled[w])
    BY <2>3 DEF OneEach
  <2>5. \A i \in 1..Len(messages') : i \in 1..Len(messages) \/ i = Len(messages')
    BY <2>1
  <2>6. \A i \in 1..Len(messages') :
          /\ messages'[i][2] = Len(handled'[messages'[i][1]]) + 1
          /\ handed'[messages'[i][1]] = Len(handled'[messages'[i][1]]) + 1
          /\ state'[messages'[i][1]] = "waiting"
    BY <2>1, <2>2, <2>3, <2>4, <2>5 DEF OneEach
  <2>7. \A i, j \in 1..Len(messages') : messages'[i][1] = messages'[j][1] => i = j
    BY <2>1, <2>3, <2>5 DEF OneEach
  <2>8. ASSUME NEW v \in Workers, \A i \in 1..Len(messages') : messages'[i][1] # v
        PROVE  handed'[v] = Len(handled'[v])
    <3>1. v # w
      BY <2>1, <2>8
    <3>2. \A i \in 1..Len(messages) : i \in 1..Len(messages') /\ messages[i][1] # v
      BY <2>1, <2>8
    <3>3. QED
      BY <3>1, <3>2, <2>2 DEF OneEach
  <2>9. QED
    BY <2>6, <2>7, <2>8 DEF OneEach
<1>19. ASSUME NEW w \in Workers, BufferEmpty(w) PROVE OneEach'
  BY <1>0, <1>19, OneEachFrame DEF BufferEmpty, Goes, inVars
<1>20. ASSUME NEW w \in Workers, RunEnds(w) PROVE OneEach'
  BY <1>0, <1>20, OneEachFrame DEF RunEnds, Goes, inVars
<1>21. ASSUME NEW w \in Workers, Register(w) PROVE OneEach'
  BY <1>0, <1>21, OneEachFrame DEF Register, inVars, workerVars
<1>22. ASSUME NEW w \in Workers, BrokerSends(w) PROVE OneEach'
  BY <1>0, <1>22, OneEachFrame DEF BrokerSends, inVars, workerVars
<1>23. ASSUME NEW w \in Workers, BrokerEnds(w) PROVE OneEach'
  BY <1>0, <1>23, OneEachFrame DEF BrokerEnds, inVars, workerVars
<1>24. QED
  BY <1>1, <1>2, <1>3, <1>4, <1>5, <1>6, <1>7, <1>8, <1>9, <1>10, <1>11, <1>12,
     <1>13, <1>14, <1>15, <1>16, <1>17, <1>18, <1>19, <1>20, <1>21, <1>22, <1>23
     DEF Next, MainThread, _run

-----------------------------------------------------------------------------
\* The invariant holds from the start.
LEMMA InitInv ==
  ASSUME Init
  PROVE  IndInv
<1>1. TypeOK
  BY DEF Init, TypeOK, Counters, States, Workers, None
<1>2. Started /\ NoGap /\ Received
  BY DEF Init, Started, NoGap, Received, None
<1>3. OneEach
  BY DEF Init, OneEach
<1>4. QED
  BY <1>1, <1>2, <1>3 DEF IndInv

\* Every step, and every stutter, keeps the invariant.
LEMMA StepInv ==
  ASSUME IndInv, [Next]_vars
  PROVE  IndInv'
<1>1. CASE Next
  BY <1>1, TypeStep, StartedStep, NoGapStep, ReceivedStep, OneEachStep DEF IndInv
<1>2. CASE UNCHANGED vars
  BY <1>2 DEF vars, workerVars, outVars, inVars, IndInv, TypeOK, Started, NoGap, OneEach,
              Received
<1>3. QED
  BY <1>1, <1>2

\* The invariant holds in every state of every behaviour of ProtocolClient.
THEOREM ClientInvariant == Spec => []IndInv
<1>1. QED
  BY InitInv, StepInv, PTL DEF Spec

\* The types hold in every state: the main thread drains for a worker that
\* waits for it, and has a client to send to (_drain_messages, client.send).
THEOREM ClientTypeCorrect == Spec => []TypeOK
<1>1. IndInv => TypeOK
  BY DEF IndInv
<1>2. QED
  BY <1>1, ClientInvariant, PTL

-----------------------------------------------------------------------------
\* A step of the client gives or takes one message of one send queue, or neither.
LEMMA OutStep ==
  ASSUME IndInv, Next
  PROVE  Out!Next \/ UNCHANGED <<queued, wired>>
<1>0. TypeOK /\ Started /\ NoGap
  BY DEF IndInv
<1>1. CASE disconnect \/ DrainEnds
  BY <1>1 DEF disconnect, DrainEnds, outVars
<1>2. ASSUME NEW w \in Workers,
               DrainBegins(w) \/ Opened(w) \/ ConnectFails(w) \/ HelloFails(w) \/ SetConnected(w)
               \/ LoopTest(w) \/ SendFails(w) \/ SendQueueEmpty(w) \/ ReceiveLines(w)
      PROVE  Out!Next \/ UNCHANGED <<queued, wired>>
  BY <1>2 DEF DrainBegins, Opened, ConnectFails, HelloFails, SetConnected,
               LoopTest, SendFails, SendQueueEmpty, ReceiveLines, outVars
<1>3. ASSUME NEW w \in Workers,
               ReceiveTimeout(w) \/ ReceiveEnds(w) \/ HandOver(w) \/ BufferEmpty(w) \/ RunEnds(w)
               \/ Register(w) \/ BrokerSends(w) \/ BrokerEnds(w)
      PROVE  Out!Next \/ UNCHANGED <<queued, wired>>
  BY <1>3 DEF ReceiveTimeout, ReceiveEnds, HandOver, BufferEmpty, RunEnds,
               Register, BrokerSends, BrokerEnds, outVars
<1>4. CASE _handle_message
  <2>1. client \in Workers
    BY <1>0, <1>4 DEF _handle_message, TypeOK, None
  <2>2. UNCHANGED <<queued, wired>> \/ Out!Give(client)
    BY <1>4 DEF _handle_message, Sends, Out!Give
  <2>3. QED
    BY <2>1, <2>2 DEF Out!Next
<1>5. ASSUME NEW w \in Workers, connect(w) PROVE Out!Next \/ UNCHANGED <<queued, wired>>
  <2>1. queued[w] = 0
    BY <1>0, <1>5 DEF connect, Started
  <2>2. Out!Give(w)
    BY <1>0, <2>1, <1>5 DEF connect, Out!Give, TypeOK, Counters
  <2>3. QED
    BY <2>2 DEF Out!Next
<1>6. ASSUME NEW w \in Workers, SendHello(w) PROVE Out!Next \/ UNCHANGED <<queued, wired>>
  <2>1. Len(wired[w]) = drained[w] /\ drained[w] < queued[w]
    BY <1>0, <1>6 DEF SendHello, Started, NoGap, TypeOK, Counters
  <2>2. Out!Take(w)
    BY <2>1, <1>6 DEF SendHello, Writes, Out!Take
  <2>3. QED
    BY <2>2 DEF Out!Next
<1>7. ASSUME NEW w \in Workers, DrainOne(w) PROVE Out!Next \/ UNCHANGED <<queued, wired>>
  <2>1. Len(wired[w]) = drained[w] /\ drained[w] < queued[w]
    BY <1>0, <1>7 DEF DrainOne, Started, NoGap
  <2>2. Out!Take(w)
    BY <2>1, <1>7 DEF DrainOne, Writes, Out!Take
  <2>3. QED
    BY <2>2 DEF Out!Next
<1>8. QED
  BY <1>1, <1>2, <1>3, <1>4, <1>5, <1>6, <1>7 DEF Next, MainThread, _run

\* A step gives or takes one line of one connection, or neither.
LEMMA InStep ==
  ASSUME IndInv, Next
  PROVE  In!Next \/ UNCHANGED <<arrived, handled>>
<1>0. TypeOK /\ OneEach /\ Received
  BY DEF IndInv
<1>1. CASE disconnect \/ DrainEnds
  BY <1>1 DEF disconnect, DrainEnds, inVars, Writes
<1>2. ASSUME NEW w \in Workers,
               DrainBegins(w) \/ connect(w) \/ Opened(w) \/ ConnectFails(w) \/ SendHello(w)
               \/ HelloFails(w) \/ SetConnected(w) \/ LoopTest(w) \/ DrainOne(w)
      PROVE  In!Next \/ UNCHANGED <<arrived, handled>>
  BY <1>2 DEF DrainBegins, connect, Opened, ConnectFails, SendHello,
               HelloFails, SetConnected, LoopTest, DrainOne, inVars, Writes
<1>3. ASSUME NEW w \in Workers,
               SendFails(w) \/ SendQueueEmpty(w) \/ ReceiveLines(w) \/ ReceiveTimeout(w) \/ ReceiveEnds(w)
               \/ HandOver(w) \/ BufferEmpty(w) \/ RunEnds(w) \/ Register(w) \/ BrokerEnds(w)
      PROVE  In!Next \/ UNCHANGED <<arrived, handled>>
  BY <1>3 DEF SendFails, SendQueueEmpty, ReceiveLines, ReceiveTimeout, ReceiveEnds,
               HandOver, BufferEmpty, RunEnds, Register, BrokerEnds, inVars, Writes
<1>4. CASE _handle_message
  <2> DEFINE m == Head(messages)
  <2>1. m \in Workers \X Nat /\ m = messages[1] /\ 1 \in 1..Len(messages)
    BY <1>0, <1>4 DEF _handle_message, TypeOK
  <2>2. m[1] \in Workers /\ m[2] = Len(handled[m[1]]) + 1 /\ handed[m[1]] = Len(handled[m[1]]) + 1
    BY <1>0, <2>1 DEF OneEach
  <2>3. handled[m[1]] \in Seq(Nat) /\ arrived[m[1]] \in Nat /\ read[m[1]] \in Nat
    BY <1>0, <2>2 DEF TypeOK, Counters
  <2>4. Len(handled[m[1]]) < arrived[m[1]]
    BY <1>0, <2>2, <2>3 DEF Received
  <2>5. In!Take(m[1])
    BY <2>2, <2>4, <1>4 DEF _handle_message, In!Take
  <2>6. QED
    BY <2>2, <2>5 DEF In!Next
<1>5. ASSUME NEW w \in Workers, BrokerSends(w) PROVE In!Next \/ UNCHANGED <<arrived, handled>>
  <2>1. In!Give(w)
    BY <1>5 DEF BrokerSends, In!Give
  <2>2. QED
    BY <2>1 DEF In!Next
<1>6. QED
  BY <1>1, <1>2, <1>3, <1>4, <1>5 DEF Next, MainThread, _run

\* What a client writes to its socket implements the ordered channels: hello
\* first, then the messages of send in their order, and none after one that
\* could not be sent (_drain_send_queue), whatever disconnect does meanwhile.
THEOREM OutRefines == Spec => OutInOrder
<1>1. Init => Out!Init
  BY DEF Init, Out!Init
<1>2. ASSUME IndInv, [Next]_vars
      PROVE  [Out!Next]_<<queued, wired>>
  <2>1. CASE Next
    BY <2>1, <1>2, OutStep
  <2>2. CASE UNCHANGED vars
    BY <2>2 DEF vars, outVars, inVars
  <2>3. QED
    BY <1>2, <2>1, <2>2
<1>3. QED
  BY <1>1, <1>2, ClientInvariant, PTL DEF Spec, OutInOrder, Out!Spec

\* What the main thread handles implements the ordered channels: the lines of
\* each connection in their order and once, although _drain_messages, run for
\* one worker, also takes the messages of the others from the shared queue.
THEOREM InRefines == Spec => InInOrder
<1>1. Init => In!Init
  BY DEF Init, In!Init
<1>2. ASSUME IndInv, [Next]_vars
      PROVE  [In!Next]_<<arrived, handled>>
  <2>1. CASE Next
    BY <2>1, <1>2, InStep
  <2>2. CASE UNCHANGED vars
    BY <2>2 DEF vars, outVars, inVars
  <2>3. QED
    BY <1>2, <2>1, <2>2
<1>3. QED
  BY <1>1, <1>2, ClientInvariant, PTL DEF Spec, InInOrder, In!Spec
=============================================================================
