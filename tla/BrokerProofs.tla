----------------------------- MODULE BrokerProofs -----------------------------
(***************************************************************************)
(* RegistryIsServed, DeliveredInOrder and TypeOK, for any number of         *)
(* connections, lines and kinds.                                            *)
(***************************************************************************)
EXTENDS Broker, TLAPS

(***************************************************************************)
(* What the registry's invariant rests on: the types of the variables the   *)
(* registry's steps use, and where in its life a connection has a session,  *)
(* a session to close, or a message to send.                                *)
(***************************************************************************)
RegistryTypes ==
  /\ sock \in [Conns -> Sockets]
  /\ thread \in [Conns -> Places]
  /\ session \in [Conns -> Roles \cup {None}]
  /\ replaces \in [Conns -> Conns \cup {None}]
  /\ DOMAIN clients \subseteq Roles /\ clients \in [DOMAIN clients -> Conns]

\* A connection without a socket has no thread and no session.
NotAccepted ==
  \A c \in Conns : sock[c] = "none" => thread[c] = "none" /\ session[c] = None

\* The window between register's unlock and old.close().
ClosesOld ==
  \A c \in Conns : thread[c] = "close_old" <=> replaces[c] # None

RegistryInv == RegistryTypes /\ NotAccepted /\ ClosesOld /\ RegistryIsServed

USE DEF None, get

(* Nothing is registered at the start. *)
LEMMA RegistryInit == Init => RegistryInv
  BY BrokerAssumption DEF Init, RegistryInv, RegistryTypes, NotAccepted, ClosesOld,
     RegistryIsServed, Sockets, Places, Roles, Running

(* A step of a client or of a thread that leaves sessions, registry and     *)
(* sockets alone, and only moves the thread between the states in which it  *)
(* runs, disturbs nothing.                                                  *)
LEMMA RunningStep ==
  ASSUME RegistryInv, NEW c \in Conns,
         thread[c] \in {"read", "send"},
         thread' = thread \/ thread' = [thread EXCEPT ![c] = "read"]
                          \/ thread' = [thread EXCEPT ![c] = "send"],
         UNCHANGED <<sock, session, replaces, clients>>
  PROVE  RegistryInv'
  BY DEF RegistryInv, RegistryTypes, NotAccepted, ClosesOld, RegistryIsServed,
         Places, Running

(* A thread that leaves its loop is still registered until it cleans up. *)
LEMMA LeavingStep ==
  ASSUME RegistryInv, NEW c \in Conns,
         thread[c] = "read",
         thread' = [thread EXCEPT ![c] = "remove"],
         UNCHANGED <<sock, session, replaces, clients>>
  PROVE  RegistryInv'
  BY DEF RegistryInv, RegistryTypes, NotAccepted, ClosesOld, RegistryIsServed,
         Places, Running

(* Accepting a connection registers nothing. *)
LEMMA AcceptStep ==
  ASSUME RegistryInv, NEW c \in Conns, Accept(c)
  PROVE  RegistryInv'
  BY DEF Accept, RegistryInv, RegistryTypes, NotAccepted, ClosesOld, RegistryIsServed,
         Sockets, Places, Running

(* A client that closes its connection is served until its thread notices. *)
LEMMA ClientCloseStep ==
  ASSUME RegistryInv, NEW c \in Conns, ClientClose(c)
  PROVE  RegistryInv'
  BY DEF ClientClose, RegistryInv, RegistryTypes, NotAccepted, ClosesOld,
         RegistryIsServed, Sockets, Running

(* The new session takes its role over; the one it replaces is remembered   *)
(* until it is closed.                                                      *)
LEMMA RegisterStep ==
  ASSUME RegistryInv, NEW c \in Conns, Register(c)
  PROVE  RegistryInv'
  <1> DEFINE role == RoleOf[c]
  <1>1. role \in Roles /\ role # None /\ c # None
    BY BrokerAssumption DEF Roles
  <1>2. /\ thread[c] = "read" /\ session[c] = None /\ replaces[c] = None
        /\ session' = [session EXCEPT ![c] = role]
        /\ clients' = [r \in DOMAIN clients \cup {role} |-> IF r = role THEN c ELSE clients[r]]
        /\ replaces' = [replaces EXCEPT ![c] = get(role)]
        /\ thread' = [thread EXCEPT ![c] =
                         IF get(role) = None THEN "send" ELSE "close_old"]
        /\ UNCHANGED sock
    BY DEF Register, NextLine, RegistryInv, ClosesOld, RegistryTypes
  <1> HIDE DEF role
  <1>3. RegistryTypes'
    BY <1>1, <1>2 DEF RegistryInv, RegistryTypes, Places
  <1>4. NotAccepted' /\ ClosesOld'
    BY <1>1, <1>2 DEF RegistryInv, RegistryTypes, NotAccepted, ClosesOld
  <1>5. ASSUME NEW r \in DOMAIN clients'
        PROVE  /\ session'[clients'[r]] = r
               /\ thread'[clients'[r]] \notin {"none", "close", "done"}
    <2>1. CASE r = role
      BY <1>1, <1>2, <2>1 DEF RegistryInv, RegistryTypes
    <2>2. CASE r # role
      <3>1. r \in DOMAIN clients /\ clients'[r] = clients[r] /\ clients[r] \in Conns /\ r \in Roles
        BY <1>2, <1>5, <2>2 DEF RegistryInv, RegistryTypes
      <3>2. session[clients[r]] = r /\ thread[clients[r]] \notin {"none", "close", "done"}
        BY <1>5, <3>1 DEF RegistryInv, RegistryIsServed
      <3>3. clients[r] # c
        BY <1>2, <3>1, <3>2 DEF Roles
      <3>4. QED
        BY <1>2, <3>1, <3>2, <3>3 DEF RegistryInv, RegistryTypes
    <2>3. QED
      BY <2>1, <2>2
  <1>6. ASSUME NEW d \in Conns,
               session'[d] # None, Running(d)', sock'[d] = "open"
        PROVE  get(session[d])' = d \/ \E e \in Conns : replaces'[e] = d
    <2>1. CASE d = c
      BY <1>1, <1>2, <2>1 DEF RegistryInv, RegistryTypes
    <2>2. CASE d # c
      <3>1. session[d] # None /\ Running(d) /\ sock[d] = "open" /\ session'[d] = session[d]
        BY <1>2, <1>6, <2>2 DEF RegistryInv, RegistryTypes, Running
      <3>2. CASE \E e \in Conns : replaces[e] = d
        BY <1>2, <3>2, BrokerAssumption DEF RegistryInv, RegistryTypes
      <3>3. CASE get(session[d]) = d
        BY <1>1, <1>2, <3>1, <3>3, BrokerAssumption DEF RegistryInv, RegistryTypes
      <3>4. QED
        BY <3>1, <3>2, <3>3 DEF RegistryInv, RegistryIsServed
    <2>3. QED
      BY <2>1, <2>2
  <1>7. QED
    BY <1>3, <1>4, <1>5, <1>6 DEF RegistryInv, RegistryIsServed

(* Closing the replaced session's socket ends the exception made for it. *)
LEMMA CloseOldStep ==
  ASSUME RegistryInv, NEW c \in Conns, CloseOld(c)
  PROVE  RegistryInv'
  <1> DEFINE old == replaces[c]
  <1>1. /\ thread[c] = "close_old" /\ old \in Conns
        /\ sock' = [sock EXCEPT ![old] = IF @ = "closed" THEN @ ELSE "shut"]
        /\ replaces' = [replaces EXCEPT ![c] = None]
        /\ thread' = [thread EXCEPT ![c] = "send"]
        /\ UNCHANGED <<session, clients>>
    BY DEF CloseOld, RegistryInv, ClosesOld, RegistryTypes
  <1>2. RegistryTypes' /\ NotAccepted' /\ ClosesOld'
    BY <1>1, BrokerAssumption
    DEF RegistryInv, RegistryTypes, NotAccepted, ClosesOld, Sockets, Places
  <1>3. RegistryIsServed'
    BY <1>1, BrokerAssumption DEF RegistryInv, RegistryTypes, RegistryIsServed, Running
  <1>4. QED
    BY <1>2, <1>3 DEF RegistryInv

(* Cleanup takes the session out of the registry only where it is in it. *)
LEMMA RemoveStep ==
  ASSUME RegistryInv, NEW c \in Conns, Remove(c)
  PROVE  RegistryInv'
  BY BrokerAssumption
  DEF Remove, RegistryInv, RegistryTypes, NotAccepted, ClosesOld, RegistryIsServed,
      Places, Running, Roles

(* A session whose cleanup has run is not in the registry when it is closed. *)
LEMMA CloseStep ==
  ASSUME RegistryInv, NEW c \in Conns, Close(c)
  PROVE  RegistryInv'
  BY DEF Close, RegistryInv, RegistryTypes, NotAccepted, ClosesOld, RegistryIsServed,
         Sockets, Places, Running

(* Every step preserves the invariant. *)
LEMMA RegistryNext == RegistryInv /\ [Next]_brokerVars => RegistryInv'
  <1> SUFFICES ASSUME RegistryInv, [Next]_brokerVars PROVE RegistryInv'
    OBVIOUS
  <1>1. CASE UNCHANGED brokerVars
    BY <1>1 DEF brokerVars, RegistryInv, RegistryTypes, NotAccepted, ClosesOld,
                RegistryIsServed, Running
  <1>2. ASSUME NEW c \in Conns, Client(c) PROVE RegistryInv'
    <2>1. ASSUME NEW kind \in Kinds, ClientSend(c, kind) PROVE RegistryInv'
      BY <2>1 DEF ClientSend, RegistryInv, RegistryTypes, NotAccepted, ClosesOld,
                  RegistryIsServed, Running
    <2>2. QED
      BY <1>2, <2>1, AcceptStep, ClientCloseStep DEF Client
  <1>3. ASSUME NEW c \in Conns, HandleClient(c) PROVE RegistryInv'
    <2>1. CASE InvalidLine(c) \/ Unregistered(c) \/ Answered(c)
      BY <2>1, RunningStep DEF InvalidLine, Unregistered, Answered, NextLine, Reply
    <2>2. CASE route_message(c)
      BY <2>2, RunningStep DEF route_message, NextLine, Reply
    <2>3. CASE Send(c)
      BY <2>3, RunningStep DEF Send
    <2>4. CASE UndecodableLine(c) \/ ReceiveEnds(c)
      BY <2>4, LeavingStep DEF UndecodableLine, ReceiveEnds, NextLine
    <2>5. QED
      BY <1>3, <2>1, <2>2, <2>3, <2>4, RegisterStep, CloseOldStep, RemoveStep, CloseStep
      DEF HandleClient
  <1>4. QED
    BY <1>1, <1>2, <1>3 DEF Next

(***************************************************************************)
(* Whatever connections come and go, and however their threads interleave,  *)
(* the registry of broker/sessions.py names exactly the sessions that are   *)
(* served.                                                                  *)
(***************************************************************************)
THEOREM Registry == Spec => []RegistryIsServed
  <1>1. RegistryInv => RegistryIsServed
    BY DEF RegistryInv
  <1>2. QED
    BY <1>1, RegistryInit, RegistryNext, PTL DEF Spec
-----------------------------------------------------------------------------
(***************************************************************************)
(* The order of delivery.  Every line a thread handles leads to at most one *)
(* message, which is sent before the next line is taken: what was delivered *)
(* for connection c has the numbers of lines already handled, and while a   *)
(* message is about to be sent, smaller ones than its own.                  *)
(***************************************************************************)
\* How many lines of each connection its thread has taken.
handled == [c \in Conns |-> sent[c] - Len(inbox[c])]

\* Connections whose thread has a message to send.
busy == {c \in Conns : thread[c] \in {"close_old", "send"}}

InboxNumbered ==
  \A c \in Conns :
    /\ Len(inbox[c]) <= sent[c]
    /\ \A i \in 1..Len(inbox[c]) : inbox[c][i].n = handled[c] + i

OutIsLast ==
  \A c \in Conns : c \in busy =>
    /\ out[c] \in [to : Conns, msg : Delivered]
    /\ out[c].msg.from = c /\ out[c].msg.n = handled[c]

GotHandled ==
  \A d \in Conns : \A i \in 1..Len(got[d]) :
    /\ got[d][i].n <= handled[got[d][i].from]
    /\ got[d][i].from \in busy => got[d][i].n < handled[got[d][i].from]

DeliveryInv == TypeOK /\ InboxNumbered /\ OutIsLast /\ GotHandled /\ DeliveredInOrder

(* Nothing was sent at the start. *)
LEMMA DeliveryInit == Init => DeliveryInv
  <1> SUFFICES ASSUME Init PROVE DeliveryInv
    OBVIOUS
  <1>1. TypeOK
    BY BrokerAssumption DEF Init, TypeOK, Sockets, Places, Roles
  <1>2. InboxNumbered /\ OutIsLast /\ GotHandled /\ DeliveredInOrder
    BY DEF Init, InboxNumbered, OutIsLast, GotHandled, DeliveredInOrder, busy, handled
  <1>3. QED
    BY <1>1, <1>2 DEF DeliveryInv

(* What was delivered comes from a connection. *)
LEMMA GotFrom ==
  ASSUME DeliveryInv
  PROVE  \A d \in Conns : \A i \in 1..Len(got[d]) : got[d][i].from \in Conns
  <1> SUFFICES ASSUME NEW d \in Conns, NEW i \in 1..Len(got[d]) PROVE got[d][i].from \in Conns
    OBVIOUS
  <1>1. got[d] \in Seq(Delivered)
    BY DEF DeliveryInv, TypeOK
  <1>2. got[d][i] \in Delivered
    BY <1>1
  <1>3. QED
    BY <1>2 DEF Delivered

(* The line taken is the next one, and it is then the last one handled. *)
LEMMA NextLineFacts ==
  ASSUME DeliveryInv, NEW c \in Conns, NextLine(c), UNCHANGED sent
  PROVE  /\ inbox' \in [Conns -> Seq(Line)]
         /\ Head(inbox[c]) \in Line
         /\ Head(inbox[c]).n = handled[c] + 1
         /\ handled'[c] = handled[c] + 1
         /\ handled[c] \in Nat
         /\ \A d \in Conns \ {c} : handled'[d] = handled[d]
         /\ InboxNumbered'
  <1>1. inbox \in [Conns -> Seq(Line)] /\ sent \in [Conns -> Nat]
    BY DEF DeliveryInv, TypeOK
  <1>2. inbox[c] # <<>> /\ inbox' = [inbox EXCEPT ![c] = Tail(inbox[c])] /\ sent' = sent
    BY DEF NextLine
  <1>3. /\ Len(inbox[c]) \in Nat \ {0} /\ Head(inbox[c]) = inbox[c][1] /\ Head(inbox[c]) \in Line
        /\ Tail(inbox[c]) \in Seq(Line) /\ Len(Tail(inbox[c])) = Len(inbox[c]) - 1
        /\ \A i \in 1..Len(Tail(inbox[c])) : Tail(inbox[c])[i] = inbox[c][i + 1]
    BY <1>1, <1>2
  <1>4. inbox' \in [Conns -> Seq(Line)]
    BY <1>1, <1>2, <1>3
  <1>5. inbox'[c] = Tail(inbox[c]) /\ \A d \in Conns \ {c} : inbox'[d] = inbox[d]
    BY <1>1, <1>2
  <1>6. Len(inbox[c]) <= sent[c] /\ \A i \in 1..Len(inbox[c]) : inbox[c][i].n = handled[c] + i
    BY DEF DeliveryInv, InboxNumbered
  <1>7. handled'[c] = handled[c] + 1 /\ handled[c] \in Nat
    BY <1>1, <1>2, <1>3, <1>5, <1>6 DEF handled
  <1>8. \A d \in Conns \ {c} : handled'[d] = handled[d]
    BY <1>2, <1>5 DEF handled
  <1>9. Head(inbox[c]).n = handled[c] + 1
    BY <1>3, <1>6, <1>7
  <1>10. ASSUME NEW d \in Conns
         PROVE  /\ Len(inbox'[d]) <= sent'[d]
                /\ \A i \in 1..Len(inbox'[d]) : inbox'[d][i].n = handled'[d] + i
    <2>1. CASE d # c
      BY <1>2, <1>5, <1>8, <2>1 DEF DeliveryInv, InboxNumbered
    <2>2. CASE d = c
      <3>1. Len(inbox'[c]) <= sent'[c]
        BY <1>1, <1>2, <1>3, <1>5, <1>6
      <3>2. ASSUME NEW i \in 1..Len(inbox'[c]) PROVE inbox'[c][i].n = handled'[c] + i
        <4>0. i \in Nat /\ i <= Len(inbox[c]) - 1 /\ 1 <= i /\ i \in 1..Len(Tail(inbox[c]))
          BY <1>3, <1>5, <3>2
        <4>1. inbox'[c][i] = inbox[c][i + 1] /\ i + 1 \in 1..Len(inbox[c])
          BY <1>3, <1>5, <4>0
        <4>2. QED
          BY <1>6, <1>7, <4>0, <4>1
      <3>3. QED
        BY <2>2, <3>1, <3>2
    <2>3. QED
      BY <2>1, <2>2
  <1>11. InboxNumbered'
    BY <1>10 DEF InboxNumbered
  <1>12. QED
    BY <1>3, <1>4, <1>7, <1>8, <1>9, <1>11

(* What was delivered before a line is taken has smaller numbers than it. *)
LEMMA GotAfterLine ==
  ASSUME DeliveryInv, NEW c \in Conns, NextLine(c), UNCHANGED <<sent, got>>,
         \A e \in Conns \ {c} : (e \in busy' <=> e \in busy)
  PROVE  GotHandled' /\ DeliveredInOrder'
  <1>1. /\ handled[c] \in Nat /\ handled'[c] = handled[c] + 1
        /\ \A e \in Conns \ {c} : handled'[e] = handled[e]
    BY NextLineFacts
  <1>2. got \in [Conns -> Seq(Delivered)] /\ got' = got
    BY DEF DeliveryInv, TypeOK
  <1>3. ASSUME NEW e \in Conns, NEW i \in 1..Len(got'[e])
        PROVE  /\ got'[e][i].n <= handled'[got'[e][i].from]
               /\ got'[e][i].from \in busy' => got'[e][i].n < handled'[got'[e][i].from]
    <2>1. got'[e][i] = got[e][i] /\ got[e][i] \in Delivered
      BY <1>2, <1>3
    <2>2. got[e][i].from \in Conns /\ got[e][i].n \in Nat
      BY <2>1 DEF Delivered
    <2>3. /\ got[e][i].n <= handled[got[e][i].from]
          /\ got[e][i].from \in busy => got[e][i].n < handled[got[e][i].from]
      BY <1>2, <1>3 DEF DeliveryInv, GotHandled
    <2>4. CASE got[e][i].from = c
      BY <1>1, <2>1, <2>2, <2>3, <2>4
    <2>5. CASE got[e][i].from # c
      BY <1>1, <2>1, <2>2, <2>3, <2>5
    <2>6. QED
      BY <2>4, <2>5
  <1>4. DeliveredInOrder'
    BY <1>2 DEF DeliveryInv, DeliveredInOrder
  <1>5. QED
    BY <1>3, <1>4 DEF GotHandled

(* A line that is answered or routed becomes the message about to be sent. *)
LEMMA AnswerStep ==
  ASSUME DeliveryInv, NEW c \in Conns, NextLine(c), UNCHANGED <<sent, got>>,
         NEW place \in {"close_old", "send"}, thread' = [thread EXCEPT ![c] = place],
         NEW d \in Conns, NEW type \in {"hello_ack", "error", "routed"},
         out' = [out EXCEPT ![c] = [to |-> d, msg |-> [type |-> type, from |-> c,
                                                       n |-> Head(inbox[c]).n]]]
  PROVE  /\ inbox' \in [Conns -> Seq(Line)]
         /\ out' \in [Conns -> [to : Conns, msg : Delivered] \cup {NoOut}]
         /\ InboxNumbered' /\ OutIsLast' /\ GotHandled' /\ DeliveredInOrder'
  <1> DEFINE m == [to |-> d, msg |-> [type |-> type, from |-> c, n |-> Head(inbox[c]).n]]
  <1>1. /\ inbox' \in [Conns -> Seq(Line)] /\ InboxNumbered'
        /\ Head(inbox[c]).n = handled[c] + 1 /\ handled[c] \in Nat
        /\ handled'[c] = handled[c] + 1
        /\ \A e \in Conns \ {c} : handled'[e] = handled[e]
    BY NextLineFacts
  <1>2. /\ out \in [Conns -> [to : Conns, msg : Delivered] \cup {NoOut}]
        /\ thread \in [Conns -> Places]
    BY DEF DeliveryInv, TypeOK
  <1>3. m \in [to : Conns, msg : Delivered] /\ m.msg.from = c /\ m.msg.n = handled'[c]
    BY <1>1 DEF Delivered
  <1>4. out'[c] = m /\ out' = [out EXCEPT ![c] = m] /\ \A e \in Conns \ {c} : out'[e] = out[e]
    BY <1>2
  <1> HIDE DEF m
  <1>5. out' \in [Conns -> [to : Conns, msg : Delivered] \cup {NoOut}]
    BY <1>2, <1>3, <1>4
  <1>6. \A e \in Conns \ {c} : (e \in busy' <=> e \in busy)
    BY <1>2 DEF busy
  <1>7. OutIsLast'
    BY <1>1, <1>3, <1>4, <1>6 DEF DeliveryInv, OutIsLast
  <1>8. QED
    BY <1>1, <1>5, <1>6, <1>7, GotAfterLine

(* A line that leads to no message only counts as handled. *)
LEMMA DropStep ==
  ASSUME DeliveryInv, NEW c \in Conns, NextLine(c), UNCHANGED <<sent, got, out>>,
         thread' = thread \/ thread' = [thread EXCEPT ![c] = "remove"]
  PROVE  /\ inbox' \in [Conns -> Seq(Line)]
         /\ InboxNumbered' /\ OutIsLast' /\ GotHandled' /\ DeliveredInOrder'
  <1>1. /\ inbox' \in [Conns -> Seq(Line)] /\ InboxNumbered'
        /\ \A e \in Conns \ {c} : handled'[e] = handled[e]
    BY NextLineFacts
  <1>2. thread \in [Conns -> Places] /\ thread[c] = "read"
    BY DEF DeliveryInv, TypeOK, NextLine
  <1>3. c \notin busy' /\ \A e \in Conns \ {c} : (e \in busy' <=> e \in busy)
    BY <1>2 DEF busy
  <1>4. OutIsLast'
    BY <1>1, <1>3 DEF DeliveryInv, OutIsLast
  <1>5. QED
    BY <1>1, <1>3, <1>4, GotAfterLine

(* A message is sent with a greater number than every earlier one of its    *)
(* connection, wherever they went.                                          *)
LEMMA SendStep ==
  ASSUME DeliveryInv, NEW c \in Conns, Send(c)
  PROVE  /\ got' \in [Conns -> Seq(Delivered)]
         /\ InboxNumbered' /\ OutIsLast' /\ GotHandled' /\ DeliveredInOrder'
  <1> DEFINE d == out[c].to
             m == out[c].msg
  <1>1. /\ got \in [Conns -> Seq(Delivered)] /\ thread \in [Conns -> Places]
        /\ out \in [Conns -> [to : Conns, msg : Delivered] \cup {NoOut}]
    BY DEF DeliveryInv, TypeOK
  <1>2. c \in busy
    BY DEF Send, busy
  <1>3. d \in Conns /\ m \in Delivered /\ m.from = c /\ m.n = handled[c]
    BY <1>2 DEF DeliveryInv, OutIsLast
  <1>4. /\ got' = got \/ got' = [got EXCEPT ![d] = Append(got[d], m)]
        /\ out' = [out EXCEPT ![c] = NoOut]
        /\ thread' = [thread EXCEPT ![c] = "read"]
        /\ inbox' = inbox /\ sent' = sent
    BY DEF Send
  <1> HIDE DEF d, m
  <1>5. got' \in [Conns -> Seq(Delivered)]
    <2>1. Append(got[d], m) \in Seq(Delivered)
      BY <1>1, <1>3
    <2>2. CASE got' = [got EXCEPT ![d] = Append(got[d], m)]
      BY <1>1, <2>1, <2>2
    <2>3. QED
      BY <1>1, <1>4, <2>2
  <1>6. c \notin busy' /\ \A e \in Conns \ {c} : (e \in busy' <=> e \in busy) /\ out'[e] = out[e]
    BY <1>1, <1>4 DEF busy
  <1>7. \A e \in Conns : handled'[e] = handled[e]
    BY <1>4 DEF handled
  <1>8. InboxNumbered' /\ OutIsLast'
    BY <1>4, <1>6, <1>7 DEF DeliveryInv, InboxNumbered, OutIsLast
  <1>9. m.n <= handled[m.from]
    BY <1>1, <1>3 DEF DeliveryInv, TypeOK, handled, Delivered
  <1>10. ASSUME NEW e \in Conns, NEW i \in 1..Len(got'[e])
         PROVE  \/ i \in 1..Len(got[e]) /\ got'[e][i] = got[e][i]
                \/ e = d /\ i = Len(got[d]) + 1 /\ got'[e][i] = m
    <2>1. CASE got' = [got EXCEPT ![d] = Append(got[d], m)] /\ e = d
      <3>1. got'[e] = Append(got[d], m) /\ got[d] \in Seq(Delivered)
        BY <1>1, <1>3, <2>1
      <3>2. /\ Len(got[d]) \in Nat /\ Len(Append(got[d], m)) = Len(got[d]) + 1
            /\ Append(got[d], m)[Len(got[d]) + 1] = m
            /\ \A k \in 1..Len(got[d]) : Append(got[d], m)[k] = got[d][k]
        BY <1>3, <3>1
      <3>3. i \in 1..Len(got[d]) \/ i = Len(got[d]) + 1
        BY <3>1, <3>2
      <3>4. QED
        BY <2>1, <3>1, <3>2, <3>3
    <2>2. CASE got' = [got EXCEPT ![d] = Append(got[d], m)] /\ e # d
      BY <1>1, <2>2
    <2>3. CASE got' = got
      BY <2>3
    <2>4. QED
      BY <1>4, <2>1, <2>2, <2>3
  <1>11. ASSUME NEW e \in Conns, NEW i \in 1..Len(got'[e])
         PROVE  /\ got'[e][i].n <= handled'[got'[e][i].from]
                /\ got'[e][i].from \in busy' => got'[e][i].n < handled'[got'[e][i].from]
    <2>1. CASE i \in 1..Len(got[e]) /\ got'[e][i] = got[e][i]
      <3>1. got[e][i].from \in Conns
        BY <2>1, GotFrom
      <3>2. QED
        BY <1>6, <1>7, <2>1, <3>1 DEF DeliveryInv, GotHandled
    <2>2. CASE e = d /\ i = Len(got[d]) + 1 /\ got'[e][i] = m
      BY <1>3, <1>6, <1>7, <1>9, <2>2
    <2>3. QED
      BY <1>10, <2>1, <2>2
  <1>12. ASSUME NEW e \in Conns, NEW i \in 1..Len(got'[e]), NEW j \in 1..Len(got'[e]),
                i < j, got'[e][i].type = "routed", got'[e][j].type = "routed",
                got'[e][i].from = got'[e][j].from
         PROVE  got'[e][i].n < got'[e][j].n
    <2>0. Len(got[e]) \in Nat /\ Len(got[d]) \in Nat
      BY <1>1, <1>3
    <2>1. CASE j \in 1..Len(got[e]) /\ got'[e][j] = got[e][j]
      <3>1. i \in 1..Len(got[e])
        BY <1>12, <2>0, <2>1
      <3>2. got'[e][i] = got[e][i]
        BY <1>10, <2>0, <3>1
      <3>3. DOMAIN got[e] = 1..Len(got[e])
        BY <1>1
      <3>4. QED
        BY <1>12, <2>1, <3>1, <3>2, <3>3 DEF DeliveryInv, DeliveredInOrder
    <2>2. CASE e = d /\ j = Len(got[d]) + 1 /\ got'[e][j] = m
      <3>1. i \in 1..Len(got[e])
        BY <1>12, <2>0, <2>2
      <3>2. got'[e][i] = got[e][i]
        BY <1>10, <2>0, <2>2, <3>1
      <3>3. got[e][i].from = c
        BY <1>3, <1>12, <2>2, <3>2
      <3>4. got[e][i].n < handled[c]
        BY <1>2, <3>1, <3>3 DEF DeliveryInv, GotHandled
      <3>5. QED
        BY <1>3, <2>2, <3>2, <3>4
    <2>3. QED
      BY <1>10, <2>1, <2>2
  <1>13. GotHandled'
    BY <1>11 DEF GotHandled
  <1>14. DeliveredInOrder'
    <2>1. \A e \in Conns : DOMAIN got'[e] = 1..Len(got'[e])
      BY <1>5
    <2>2. QED
      BY <1>12, <2>1 DEF DeliveredInOrder
  <1>15. QED
    BY <1>5, <1>8, <1>13, <1>14

(* A line a client sends is the last one of its connection. *)
LEMMA ClientSendStep ==
  ASSUME DeliveryInv, NEW c \in Conns, NEW kind \in Kinds, ClientSend(c, kind)
  PROVE  DeliveryInv'
  <1> DEFINE line == [kind |-> kind, n |-> sent[c] + 1]
  <1>1. inbox \in [Conns -> Seq(Line)] /\ sent \in [Conns -> Nat]
    BY DEF DeliveryInv, TypeOK
  <1>2. /\ sent' = [sent EXCEPT ![c] = sent[c] + 1]
        /\ inbox' = [inbox EXCEPT ![c] = Append(inbox[c], line)]
        /\ UNCHANGED <<sock, thread, session, out, replaces, clients, got>>
    BY DEF ClientSend
  <1>3. line \in Line /\ line.n = sent[c] + 1
    BY <1>1 DEF Line
  <1> HIDE DEF line
  <1>4. inbox' \in [Conns -> Seq(Line)] /\ sent' \in [Conns -> Nat]
    BY <1>1, <1>2, <1>3
  <1>5. /\ sent'[c] = sent[c] + 1 /\ inbox'[c] = Append(inbox[c], line)
        /\ \A d \in Conns \ {c} : sent'[d] = sent[d] /\ inbox'[d] = inbox[d]
    BY <1>1, <1>2
  <1>6. /\ Len(inbox[c]) \in Nat /\ Len(inbox'[c]) = Len(inbox[c]) + 1
        /\ inbox'[c][Len(inbox[c]) + 1] = line
        /\ \A i \in 1..Len(inbox[c]) : inbox'[c][i] = inbox[c][i]
    BY <1>1, <1>3, <1>5
  <1>7. Len(inbox[c]) <= sent[c] /\ \A i \in 1..Len(inbox[c]) : inbox[c][i].n = handled[c] + i
    BY DEF DeliveryInv, InboxNumbered
  <1>8. \A d \in Conns : handled'[d] = handled[d]
    <2>1. handled'[c] = handled[c]
      <3>1. handled'[c] = sent'[c] - Len(inbox'[c]) /\ handled[c] = sent[c] - Len(inbox[c])
        BY DEF handled
      <3>2. sent[c] \in Nat
        BY <1>1
      <3>3. QED
        BY <1>5, <1>6, <3>1, <3>2
    <2>2. \A d \in Conns \ {c} : handled'[d] = handled[d]
      BY <1>5 DEF handled
    <2>3. QED
      BY <2>1, <2>2
  <1>9. ASSUME NEW i \in 1..Len(inbox'[c]) PROVE inbox'[c][i].n = handled'[c] + i
    <2>1. CASE i \in 1..Len(inbox[c])
      BY <1>6, <1>7, <1>8, <2>1
    <2>2. CASE i = Len(inbox[c]) + 1
      <3>1. handled[c] + i = sent[c] + 1
        BY <1>1, <1>6, <2>2 DEF handled
      <3>2. QED
        BY <1>3, <1>6, <1>8, <2>2, <3>1
    <2>3. QED
      BY <1>6, <1>9, <2>1, <2>2
  <1>10. InboxNumbered'
    <2>1. Len(inbox'[c]) <= sent'[c]
      BY <1>1, <1>5, <1>6, <1>7
    <2>2. ASSUME NEW d \in Conns \ {c}
          PROVE  /\ Len(inbox'[d]) <= sent'[d]
                 /\ \A i \in 1..Len(inbox'[d]) : inbox'[d][i].n = handled'[d] + i
      BY <1>5, <1>8 DEF DeliveryInv, InboxNumbered
    <2>3. QED
      BY <1>9, <2>1, <2>2 DEF InboxNumbered
  <1>11. \A d \in Conns : (d \in busy' <=> d \in busy)
    BY <1>2 DEF busy
  <1>12. OutIsLast'
    BY <1>2, <1>8, <1>11 DEF DeliveryInv, OutIsLast
  <1>13. GotHandled'
    <2>1. \A d \in Conns : \A i \in 1..Len(got[d]) : got[d][i].from \in Conns
      BY GotFrom
    <2>2. QED
      BY <1>2, <1>8, <1>11, <2>1 DEF DeliveryInv, GotHandled
  <1>14. DeliveredInOrder'
    BY <1>2 DEF DeliveryInv, DeliveredInOrder
  <1>15. TypeOK'
    BY <1>2, <1>4 DEF DeliveryInv, TypeOK
  <1>16. QED
    BY <1>10, <1>12, <1>13, <1>14, <1>15 DEF DeliveryInv

(* Steps that neither take nor send anything. *)
LEMMA QuietStep ==
  ASSUME DeliveryInv, UNCHANGED <<inbox, sent, out, got>>,
         \A e \in Conns : (e \in busy' <=> e \in busy)
  PROVE  InboxNumbered' /\ OutIsLast' /\ GotHandled' /\ DeliveredInOrder'
  <1>1. \A e \in Conns : handled'[e] = handled[e]
    BY DEF handled
  <1>2. \A d \in Conns : \A i \in 1..Len(got[d]) : got[d][i].from \in Conns
    BY GotFrom
  <1>3. InboxNumbered' /\ OutIsLast'
    BY <1>1 DEF DeliveryInv, InboxNumbered, OutIsLast
  <1>4. GotHandled'
    BY <1>1, <1>2 DEF DeliveryInv, GotHandled
  <1>5. DeliveredInOrder'
    BY DEF DeliveryInv, DeliveredInOrder
  <1>6. QED
    BY <1>3, <1>4, <1>5

(* Every step preserves the invariant. *)
LEMMA DeliveryNext == DeliveryInv /\ RegistryInv /\ [Next]_brokerVars => DeliveryInv'
  <1> SUFFICES ASSUME DeliveryInv, RegistryInv, [Next]_brokerVars PROVE DeliveryInv'
    OBVIOUS
  <1>0. TypeOK
    BY DEF DeliveryInv
  <1>1. CASE UNCHANGED brokerVars
    BY <1>1, QuietStep DEF brokerVars, DeliveryInv, TypeOK, busy
  <1>2. ASSUME NEW c \in Conns, Client(c) PROVE DeliveryInv'
    <2>1. ASSUME Accept(c) PROVE DeliveryInv'
      <3>1. TypeOK'
        BY <1>0, <2>1 DEF Accept, TypeOK, Sockets, Places
      <3>2. thread[c] # "send" /\ thread[c] # "close_old"
        BY <2>1 DEF Accept, RegistryInv, NotAccepted
      <3>3. QED
        BY <1>0, <2>1, <3>1, <3>2, QuietStep DEF Accept, DeliveryInv, busy, TypeOK
    <2>2. ASSUME ClientClose(c) PROVE DeliveryInv'
      <3>1. TypeOK'
        BY <1>0, <2>2 DEF ClientClose, TypeOK, Sockets
      <3>2. QED
        BY <2>2, <3>1, QuietStep DEF ClientClose, DeliveryInv, busy
    <2>3. QED
      BY <1>2, <2>1, <2>2, ClientSendStep DEF Client
  <1>3. ASSUME NEW c \in Conns, HandleClient(c) PROVE DeliveryInv'
    <2>1. ASSUME NEW d \in Conns, NEW type \in {"hello_ack", "error", "routed"},
                 NextLine(c), Reply(c, d, type),
                 UNCHANGED <<sock, sent, session, replaces, clients, got>>
          PROVE  DeliveryInv'
      <3>1. /\ thread' = [thread EXCEPT ![c] = "send"]
            /\ out' = [out EXCEPT ![c] = [to |-> d, msg |-> [type |-> type, from |-> c,
                                                             n |-> Head(inbox[c]).n]]]
        BY <2>1 DEF Reply
      <3>2. /\ inbox' \in [Conns -> Seq(Line)]
            /\ out' \in [Conns -> [to : Conns, msg : Delivered] \cup {NoOut}]
            /\ InboxNumbered' /\ OutIsLast' /\ GotHandled' /\ DeliveredInOrder'
        BY <2>1, <3>1, AnswerStep
      <3>3. TypeOK'
        BY <1>0, <2>1, <3>1, <3>2 DEF TypeOK, Places
      <3>4. QED
        BY <3>2, <3>3 DEF DeliveryInv
    <2>2. CASE InvalidLine(c) \/ Unregistered(c) \/ Answered(c)
      BY <2>1, <2>2 DEF InvalidLine, Unregistered, Answered
    <2>3. CASE route_message(c)
      <3> DEFINE role == Destination(c, Head(inbox[c]))
      <3>1. /\ NextLine(c) /\ UNCHANGED <<sock, sent, session, replaces, clients, got>>
            /\ \/ UNCHANGED <<out, thread>>
               \/ Reply(c, c, "error")
               \/ role # None /\ get(role) # None /\ Reply(c, get(role), "routed")
        BY <2>3 DEF route_message
      <3>2. CASE UNCHANGED <<out, thread>>
        <4>1. /\ inbox' \in [Conns -> Seq(Line)]
              /\ InboxNumbered' /\ OutIsLast' /\ GotHandled' /\ DeliveredInOrder'
          BY <3>1, <3>2, DropStep
        <4>2. TypeOK'
          BY <1>0, <3>1, <3>2, <4>1 DEF TypeOK
        <4>3. QED
          BY <4>1, <4>2 DEF DeliveryInv
      <3>3. CASE role # None /\ get(role) # None /\ Reply(c, get(role), "routed")
        <4>1. get(role) \in Conns
          BY <1>0, <3>3 DEF TypeOK
        <4>2. QED
          BY <2>1, <3>1, <3>3, <4>1
      <3>4. QED
        BY <2>1, <3>1, <3>2, <3>3
    <2>4. CASE UndecodableLine(c)
      <3>1. /\ inbox' \in [Conns -> Seq(Line)]
            /\ InboxNumbered' /\ OutIsLast' /\ GotHandled' /\ DeliveredInOrder'
        BY <2>4, DropStep DEF UndecodableLine
      <3>2. TypeOK'
        BY <1>0, <2>4, <3>1 DEF UndecodableLine, TypeOK, Places
      <3>3. QED
        BY <3>1, <3>2 DEF DeliveryInv
    <2>5. CASE Register(c)
      <3> DEFINE place == IF get(RoleOf[c]) = None THEN "send" ELSE "close_old"
      <3>1. /\ NextLine(c) /\ UNCHANGED <<sock, sent, got>>
            /\ place \in {"close_old", "send"} /\ thread' = [thread EXCEPT ![c] = place]
            /\ out' = [out EXCEPT ![c] = [to |-> c, msg |-> [type |-> "hello_ack", from |-> c,
                                                             n |-> Head(inbox[c]).n]]]
        BY <2>5 DEF Register
      <3>2. /\ session' = [session EXCEPT ![c] = RoleOf[c]]
            /\ clients' = [r \in DOMAIN clients \cup {RoleOf[c]} |->
                             IF r = RoleOf[c] THEN c ELSE clients[r]]
            /\ replaces' = [replaces EXCEPT ![c] = get(RoleOf[c])]
        BY <2>5 DEF Register
      <3> HIDE DEF place
      <3>3. /\ inbox' \in [Conns -> Seq(Line)]
            /\ out' \in [Conns -> [to : Conns, msg : Delivered] \cup {NoOut}]
            /\ InboxNumbered' /\ OutIsLast' /\ GotHandled' /\ DeliveredInOrder'
        BY <3>1, AnswerStep
      <3>4. RoleOf[c] \in Roles
        BY BrokerAssumption
      <3>5. /\ session' \in [Conns -> Roles \cup {None}]
            /\ DOMAIN clients' \subseteq Roles /\ clients' \in [DOMAIN clients' -> Conns]
            /\ replaces' \in [Conns -> Conns \cup {None}]
        BY <1>0, <3>2, <3>4 DEF TypeOK
      <3>6. TypeOK'
        BY <1>0, <3>1, <3>3, <3>5 DEF TypeOK, Places
      <3>7. QED
        BY <3>3, <3>6 DEF DeliveryInv
    <2>6. CASE Send(c)
      <3>1. /\ got' \in [Conns -> Seq(Delivered)]
            /\ InboxNumbered' /\ OutIsLast' /\ GotHandled' /\ DeliveredInOrder'
        BY <2>6, SendStep
      <3>2. TypeOK'
        BY <1>0, <2>6, <3>1 DEF Send, TypeOK, Places
      <3>3. QED
        BY <3>1, <3>2 DEF DeliveryInv
    <2>7. CASE CloseOld(c)
      <3>1. TypeOK'
        BY <1>0, <2>7 DEF CloseOld, TypeOK, Places, Sockets
      <3>2. QED
        BY <1>0, <2>7, <3>1, QuietStep DEF CloseOld, DeliveryInv, busy, TypeOK
    <2>8. CASE ReceiveEnds(c)
      <3>1. TypeOK'
        BY <1>0, <2>8 DEF ReceiveEnds, TypeOK, Places
      <3>2. QED
        BY <1>0, <2>8, <3>1, QuietStep DEF ReceiveEnds, DeliveryInv, busy, TypeOK
    <2>9. CASE Remove(c)
      <3>1. TypeOK'
        BY <1>0, <2>9 DEF Remove, TypeOK, Places
      <3>2. QED
        BY <1>0, <2>9, <3>1, QuietStep DEF Remove, DeliveryInv, busy, TypeOK
    <2>10. CASE Close(c)
      <3>1. TypeOK'
        BY <1>0, <2>10 DEF Close, TypeOK, Places, Sockets
      <3>2. QED
        BY <1>0, <2>10, <3>1, QuietStep DEF Close, DeliveryInv, busy, TypeOK
    <2>11. QED
      BY <1>3, <2>2, <2>3, <2>4, <2>5, <2>6, <2>7, <2>8, <2>9, <2>10 DEF HandleClient
  <1>4. QED
    BY <1>1, <1>2, <1>3 DEF Next

(***************************************************************************)
(* However many clients are connected and however their threads interleave, *)
(* what the broker routes from one client to another arrives in the order   *)
(* in which it was sent, and once (route_message, send_to_session).         *)
(***************************************************************************)
THEOREM Delivery == Spec => []DeliveredInOrder
  <1>1. DeliveryInv => DeliveredInOrder
    BY DEF DeliveryInv
  <1>2. QED
    BY <1>1, RegistryInit, RegistryNext, DeliveryInit, DeliveryNext, PTL DEF Spec

(***************************************************************************)
(* The broker's variables keep their types.                                 *)
(***************************************************************************)
THEOREM BrokerTypeCorrect == Spec => []TypeOK
  <1>1. DeliveryInv => TypeOK
    BY DEF DeliveryInv
  <1>2. QED
    BY <1>1, RegistryInit, RegistryNext, DeliveryInit, DeliveryNext, PTL DEF Spec
=============================================================================
