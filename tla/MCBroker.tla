------------------------------- MODULE MCBroker -------------------------------
(***************************************************************************)
(* Instances of Broker for TLC: WinDbg connects once or twice, IDA once.    *)
(***************************************************************************)
EXTENDS Broker

MCRoleOf == [c \in Conns |-> IF c \in {"w1", "w2"} THEN "windbg" ELSE "ida"]

\* Enough for one connection to register and route two messages, for its
\* replacement to register, and for IDA to register and route one.
MCMaxLines == [c \in Conns |-> CASE c = "w1" -> 3 [] c = "w2" -> 1 [] OTHER -> 2]
=============================================================================
