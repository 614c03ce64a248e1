-------------------------------- MODULE Broker --------------------------------
(***************************************************************************)
(* The broker (broker/dayvar_broker.py, sessions.py, protocol.py): one      *)
(* thread per accepted connection, a registry of one active session per     *)
(* role that all threads share, and routing between the two roles.          *)
(*                                                                          *)
(* A thread's steps are cut where it lets another one in: at a receive,     *)
(* after the registry's lock is released, and at a send.  A line is reduced *)
(* to what decides its handling, and a number that tells the lines of one   *)
(* connection apart.  Sending to a socket that is closed fails silently     *)
(* (send_to_socket); a send that would block is not modelled.               *)
(***************************************************************************)
EXTENDS Naturals, Sequences, FiniteSets

CONSTANTS
  Conns,      \* connections, each accepted at most once
  RoleOf,     \* RoleOf[c]: the role the client at c claims
  Kinds,      \* the kinds of lines clients send, a subset of AllKinds
  MaxLines    \* MaxLines[c], a bound: lines sent on connection c

Roles == {"ida", "windbg"}
None == "none"

(***************************************************************************)
(* hello        - with the client's role;                                   *)
(* foreign      - hello with a role that cannot register;                   *)
(* forward      - a type that ROUTES sends to the other role, or error;     *)
(* backward     - a type that ROUTES sends to the sender's own role;        *)
(* unrouted     - a supported type with no route (hello_ack);               *)
(* mismatch     - a message with another role than the registered one;      *)
(* invalid      - decode_jsonl_line or validate_message_shape raise         *)
(*                ProtocolError;                                            *)
(* undecodable  - they raise something else: the bytes are not UTF-8, or    *)
(*                the type cannot be looked up in a set.                    *)
(***************************************************************************)
AllKinds == {"hello", "foreign", "forward", "backward", "unrouted", "mismatch",
             "invalid", "undecodable"}

ASSUME BrokerAssumption ==
  /\ None \notin Conns
  /\ RoleOf \in [Conns -> Roles]
  /\ Kinds \subseteq AllKinds
  /\ MaxLines \in [Conns -> Nat]

VARIABLES
  sock,      \* "none", "open", "eof" (the peer closed it), "shut" (another
             \* thread closed it), "closed"
  inbox,     \* lines sent to the broker and not yet handled
  sent,      \* number of lines the client has sent
  thread,    \* where handle_client is
  session,   \* handle_client's session: a role, or None
  out,       \* what the thread is about to send, and to which connection
  replaces,  \* the session register() has replaced and is about to close
  clients,   \* ClientRegistry._clients: the roles that have a session, and its connection
  got        \* what has been delivered to the client

brokerVars == <<sock, inbox, sent, thread, session, out, replaces, clients, got>>

Line == [kind : Kinds, n : Nat]
Delivered == [type : {"hello_ack", "error", "routed"}, from : Conns, n : Nat]
Sockets == {"none", "open", "eof", "shut", "closed"}
Places == {"none", "read", "close_old", "send", "remove", "close", "done"}
NoOut == [to |-> None, msg |-> <<>>]

Init ==
  /\ sock = [c \in Conns |-> "none"]
  /\ inbox = [c \in Conns |-> <<>>]
  /\ sent = [c \in Conns |-> 0]
  /\ thread = [c \in Conns |-> "none"]
  /\ session = [c \in Conns |-> None]
  /\ out = [c \in Conns |-> NoOut]
  /\ replaces = [c \in Conns |-> None]
  /\ clients = [r \in {} |-> None]
  /\ got = [c \in Conns |-> <<>>]

TypeOK ==
  /\ sock \in [Conns -> Sockets]
  /\ inbox \in [Conns -> Seq(Line)]
  /\ sent \in [Conns -> Nat]
  /\ thread \in [Conns -> Places]
  /\ session \in [Conns -> Roles \cup {None}]
  /\ out \in [Conns -> [to : Conns, msg : Delivered] \cup {NoOut}]
  /\ replaces \in [Conns -> Conns \cup {None}]
  /\ DOMAIN clients \subseteq Roles /\ clients \in [DOMAIN clients -> Conns]
  /\ got \in [Conns -> Seq(Delivered)]

-----------------------------------------------------------------------------
(* Clients *)

\* serve_forever accepts the connection and starts its thread.
Accept(c) ==
  /\ sock[c] = "none"
  /\ sock' = [sock EXCEPT ![c] = "open"]
  /\ thread' = [thread EXCEPT ![c] = "read"]
  /\ UNCHANGED <<inbox, sent, session, out, replaces, clients, got>>

ClientSend(c, kind) ==
  /\ sock[c] = "open"
  /\ sent[c] < MaxLines[c]
  /\ sent' = [sent EXCEPT ![c] = @ + 1]
  /\ inbox' = [inbox EXCEPT ![c] = Append(@, [kind |-> kind, n |-> sent[c] + 1])]
  /\ UNCHANGED <<sock, thread, session, out, replaces, clients, got>>

ClientClose(c) ==
  /\ sock[c] = "open"
  /\ sock' = [sock EXCEPT ![c] = "eof"]
  /\ UNCHANGED <<inbox, sent, thread, session, out, replaces, clients, got>>

-----------------------------------------------------------------------------
(* handle_client *)

\* ClientRegistry.get
get(role) == IF role \in DOMAIN clients THEN clients[role] ELSE None

Opposite(role) == IF role = "ida" THEN "windbg" ELSE "ida"

\* The next line of the thread's buffer or of its socket.
NextLine(c) ==
  /\ thread[c] = "read"
  /\ inbox[c] # <<>>
  /\ inbox' = [inbox EXCEPT ![c] = Tail(@)]

\* The thread goes on to send a message of that type to connection d.
Reply(c, d, type) ==
  /\ out' = [out EXCEPT ![c] = [to |-> d, msg |-> [type |-> type, from |-> c,
                                                   n |-> Head(inbox[c]).n]]]
  /\ thread' = [thread EXCEPT ![c] = "send"]

\* A ProtocolError: logged, answered, and the session goes on.
InvalidLine(c) ==
  /\ NextLine(c)
  /\ Head(inbox[c]).kind = "invalid"
  /\ Reply(c, c, "error")
  /\ UNCHANGED <<sock, sent, session, replaces, clients, got>>

\* Any other exception leaves the loop through the finally clause.
UndecodableLine(c) ==
  /\ NextLine(c)
  /\ Head(inbox[c]).kind = "undecodable"
  /\ thread' = [thread EXCEPT ![c] = "remove"]
  /\ UNCHANGED <<sock, sent, session, out, replaces, clients, got>>

Valid(line) == line.kind \notin {"invalid", "undecodable"}

\* handle_message without a session: hello_required, invalid_role.
Unregistered(c) ==
  /\ NextLine(c)
  /\ session[c] = None
  /\ Valid(Head(inbox[c])) /\ Head(inbox[c]).kind # "hello"
  /\ Reply(c, c, "error")
  /\ UNCHANGED <<sock, sent, session, replaces, clients, got>>

\* ClientRegistry.register, up to the release of its lock; the old session is
\* closed, and hello_ack sent, in later steps.
Register(c) ==
  LET old == get(RoleOf[c]) IN
  /\ NextLine(c)
  /\ session[c] = None
  /\ Head(inbox[c]).kind = "hello"
  /\ session' = [session EXCEPT ![c] = RoleOf[c]]
  /\ clients' = [r \in DOMAIN clients \cup {RoleOf[c]} |->
                   IF r = RoleOf[c] THEN c ELSE clients[r]]
  /\ replaces' = [replaces EXCEPT ![c] = old]
  /\ out' = [out EXCEPT ![c] = [to |-> c, msg |-> [type |-> "hello_ack", from |-> c,
                                                   n |-> Head(inbox[c]).n]]]
  /\ thread' = [thread EXCEPT ![c] = IF old = None THEN "send" ELSE "close_old"]
  /\ UNCHANGED <<sock, sent, got>>

\* ClientSession.close on the replaced session.
CloseOld(c) ==
  /\ thread[c] = "close_old"
  /\ sock' = [sock EXCEPT ![replaces[c]] = IF @ = "closed" THEN @ ELSE "shut"]
  /\ replaces' = [replaces EXCEPT ![c] = None]
  /\ thread' = [thread EXCEPT ![c] = "send"]
  /\ UNCHANGED <<inbox, sent, session, out, clients, got>>

\* handle_message with a session: role_mismatch, or hello again.
Answered(c) ==
  /\ NextLine(c)
  /\ session[c] # None
  /\ \/ Head(inbox[c]).kind \in {"mismatch", "foreign"} /\ Reply(c, c, "error")
     \/ Head(inbox[c]).kind = "hello" /\ Reply(c, c, "hello_ack")
  /\ UNCHANGED <<sock, sent, session, replaces, clients, got>>

\* ROUTES, or the opposite role for an error.
Destination(c, line) ==
  CASE line.kind = "forward" -> Opposite(session[c])
    [] line.kind = "backward" -> session[c]
    [] OTHER -> None

\* Mutant: the session that was looked up is not compared with None.
Mut_RouteUnchecked(c) ==
  LET role == Destination(c, Head(inbox[c])) IN
  /\ NextLine(c)
  /\ session[c] # None
  /\ Head(inbox[c]).kind \in {"forward", "backward", "unrouted"}
  /\ \/ role = None /\ UNCHANGED <<out, thread>>
     \/ role # None /\ Reply(c, get(role), "routed")
  /\ UNCHANGED <<sock, sent, session, replaces, clients, got>>

\* route_message, up to the lookup of the destination's session.
route_message(c) ==
  LET role == Destination(c, Head(inbox[c])) IN
  /\ NextLine(c)
  /\ session[c] # None
  /\ Head(inbox[c]).kind \in {"forward", "backward", "unrouted"}
  /\ \/ role = None /\ UNCHANGED <<out, thread>>
     \/ role # None /\ get(role) = None /\ Reply(c, c, "error")
     \/ role # None /\ get(role) # None /\ Reply(c, get(role), "routed")
  /\ UNCHANGED <<sock, sent, session, replaces, clients, got>>

\* Mutant: a message may be sent again.
Mut_SendAgain(c) ==
  LET d == out[c].to IN
  /\ thread[c] = "send"
  /\ \/ sock[d] = "open" /\ got' = [got EXCEPT ![d] = Append(@, out[c].msg)]
     \/ sock[d] # "open" /\ UNCHANGED got
  /\ \/ UNCHANGED <<out, thread>> /\ Len(got[d]) < 3
     \/ out' = [out EXCEPT ![c] = NoOut] /\ thread' = [thread EXCEPT ![c] = "read"]
  /\ UNCHANGED <<sock, inbox, sent, session, replaces, clients>>

\* send_to_session or send_to_socket: an OSError is only logged.
Send(c) ==
  LET d == out[c].to IN
  /\ thread[c] = "send"
  /\ \/ sock[d] = "open" /\ got' = [got EXCEPT ![d] = Append(@, out[c].msg)]
     \/ sock[d] # "open" /\ UNCHANGED got
  /\ out' = [out EXCEPT ![c] = NoOut]
  /\ thread' = [thread EXCEPT ![c] = "read"]
  /\ UNCHANGED <<sock, inbox, sent, session, replaces, clients>>

\* End of stream once every line is handled, or an error at once: lines that
\* are still unread are lost.
ReceiveEnds(c) ==
  /\ thread[c] = "read"
  /\ sock[c] # "open"
  /\ thread' = [thread EXCEPT ![c] = "remove"]
  /\ UNCHANGED <<sock, inbox, sent, session, out, replaces, clients, got>>

\* Mutant: the role is freed whoever holds it.
Mut_RemoveByRole(c) ==
  /\ thread[c] = "remove"
  /\ clients' = [r \in DOMAIN clients \ {session[c]} |-> clients[r]]
  /\ thread' = [thread EXCEPT ![c] = "close"]
  /\ UNCHANGED <<sock, inbox, sent, session, out, replaces, got>>

\* Mutant: the registry is left alone.
Mut_RemoveNothing(c) ==
  /\ thread[c] = "remove"
  /\ thread' = [thread EXCEPT ![c] = "close"]
  /\ UNCHANGED <<sock, inbox, sent, session, out, replaces, clients, got>>

\* ClientRegistry.remove: only if the session is still the active one.
Remove(c) ==
  /\ thread[c] = "remove"
  /\ clients' = [r \in {q \in DOMAIN clients : ~(q = session[c] /\ clients[q] = c)} |->
                   clients[r]]
  /\ thread' = [thread EXCEPT ![c] = "close"]
  /\ UNCHANGED <<sock, inbox, sent, session, out, replaces, got>>

Close(c) ==
  /\ thread[c] = "close"
  /\ sock' = [sock EXCEPT ![c] = "closed"]
  /\ thread' = [thread EXCEPT ![c] = "done"]
  /\ UNCHANGED <<inbox, sent, session, out, replaces, clients, got>>

HandleClient(c) ==
  \/ InvalidLine(c) \/ UndecodableLine(c) \/ Unregistered(c) \/ Register(c)
  \/ CloseOld(c) \/ Answered(c) \/ route_message(c) \/ Send(c)
  \/ ReceiveEnds(c) \/ Remove(c) \/ Close(c)

Client(c) == Accept(c) \/ ClientClose(c) \/ \E kind \in Kinds : ClientSend(c, kind)

Next == \E c \in Conns : HandleClient(c) \/ Client(c)

Spec == Init /\ [][Next]_brokerVars

\* Every thread keeps running.
FairSpec == Spec /\ \A c \in Conns : WF_brokerVars(HandleClient(c))

-----------------------------------------------------------------------------
Running(c) == thread[c] \in {"read", "close_old", "send"}

(***************************************************************************)
(* The registry names, for each role, exactly the session that is served:   *)
(* a session whose thread has cleaned up is never registered, and a session *)
(* that is served is registered until another one replaces it, whatever the *)
(* order in which the old thread's cleanup (remove) and the new client's    *)
(* hello (register) run.                                                    *)
(***************************************************************************)
RegistryIsServed ==
  /\ \A r \in DOMAIN clients :
       /\ session[clients[r]] = r
       /\ thread[clients[r]] \notin {"none", "close", "done"}
  /\ \A c \in Conns : session[c] # None /\ Running(c) /\ sock[c] = "open" =>
       \/ get(session[c]) = c
       \/ \E d \in Conns : replaces[d] = c

(***************************************************************************)
(* What one client sends reaches another one in the order it was sent, and  *)
(* at most once, although each connection has a thread of its own.          *)
(***************************************************************************)
DeliveredInOrder ==
  \A d \in Conns : \A i, j \in DOMAIN got[d] :
    /\ i < j
    /\ got[d][i].type = "routed" /\ got[d][j].type = "routed"
    /\ got[d][i].from = got[d][j].from
    => got[d][i].n < got[d][j].n

(***************************************************************************)
(* A client that has gone or was replaced leaves the registry, so that its  *)
(* peer is told destination_not_connected instead of sending into a dead    *)
(* socket.                                                                  *)
(***************************************************************************)
GoneIsUnregistered ==
  \A c \in Conns : sock[c] \in {"eof", "shut"} ~> \A r \in DOMAIN clients : clients[r] # c
=============================================================================
