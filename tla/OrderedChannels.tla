--------------------------- MODULE OrderedChannels ---------------------------
(***************************************************************************)
(* What the two ends of a connection may rely on, for a set of connections: *)
(* messages come out in the order they were put in, each at most once and   *)
(* none before it was put in.  A connection may stop at any point, so that  *)
(* the last messages never come out.  A message is named by its place in    *)
(* the order in which the messages of its connection were put in.           *)
(***************************************************************************)
EXTENDS Naturals, Sequences

CONSTANT Connections

VARIABLES
  given,   \* how many messages were put in, per connection
  taken    \* the messages that came out, per connection

Init ==
  /\ given = [c \in Connections |-> 0]
  /\ taken = [c \in Connections |-> <<>>]

Give(c) ==
  /\ given' = [given EXCEPT ![c] = @ + 1]
  /\ UNCHANGED taken

Take(c) ==
  /\ Len(taken[c]) < given[c]
  /\ taken' = [taken EXCEPT ![c] = Append(@, Len(@) + 1)]
  /\ UNCHANGED given

Next == \E c \in Connections : Give(c) \/ Take(c)

Spec == Init /\ [][Next]_<<given, taken>>
=============================================================================
