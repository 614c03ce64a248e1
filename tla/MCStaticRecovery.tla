-------------------------- MODULE MCStaticRecovery --------------------------
(***************************************************************************)
(* Instances of StaticRecovery for TLC: every choice of instructions, stop  *)
(* and home in a few graphs of three blocks behind the entry block.         *)
(***************************************************************************)
EXTENDS StaticRecovery

MCBlocks == 1..4

Plain == [whole |-> FALSE, overlap |-> FALSE, use |-> FALSE, located |-> TRUE,
          writes |-> {}, known |-> TRUE, call |-> FALSE, const |-> "none"]
Definition(ws) == [Plain EXCEPT !.whole = TRUE, !.writes = ws]

Nop == Plain
Use == [Plain EXCEPT !.use = TRUE]
DefFull == Definition({<<0, 8>>})
DefZeroExtended == Definition({<<0, 4>>})
DefConst == [Definition({<<0, 4>>}) EXCEPT !.const = "native"]
DefConstMicro == [Definition({<<0, 8>>}) EXCEPT !.const = "micro"]
DefDisputed == [Definition({<<0, 8>>}) EXCEPT !.const = "disputed"]
DefNowhere == [Definition({}) EXCEPT !.located = FALSE]
DefByCall == [Definition({<<0, 8>>}) EXCEPT !.call = TRUE]
DefUse == [Definition({<<0, 8>>}) EXCEPT !.use = TRUE]
Partial == [Plain EXCEPT !.overlap = TRUE, !.writes = {<<0, 1>>}]
Reuse == [Plain EXCEPT !.writes = {<<1, 1>>}]
Call == [Plain EXCEPT !.call = TRUE]
Opaque == [Plain EXCEPT !.known = FALSE]
UseNowhere == [Use EXCEPT !.located = FALSE]

\* Block 3 always or on one way only, loops over one and two blocks, a loop to
\* the first block, two loops that share a block, and a function that ends.
Shapes ==
  { <<{2}, s2, s3, s4>> :
      s2 \in {{3}, {3, 4}}, s3 \in {{4}, {2, 4}, {3, 4}}, s4 \in {{}, {3}} }

Converse(g) == [b \in MCBlocks |-> {c \in MCBlocks : b \in g[c]}]

\* Hex-Rays's and IDA's edge lists are each other's converse, or block 4
\* does not know that block 2 precedes it.
MCGraphs ==
  {[succs |-> g, preds |-> Converse(g)] : g \in Shapes}
    \cup {[succs |-> g, preds |-> [Converse(g) EXCEPT ![4] = @ \ {2}]] :
             g \in {<<{2}, {3, 4}, {4}, {}>>}}

MCCodes ==
  { << <<>>, <<i>>, <<j, k>>, <<l>> >> :
      i \in {Nop, DefFull, DefZeroExtended, DefConst, DefNowhere},
      j \in {Nop, DefFull, DefByCall, Reuse, Call, Opaque},
      k \in {Nop, Partial, DefConstMicro, Reuse, Use},
      l \in {Nop, Use, UseNowhere, DefUse, DefDisputed} }

MCPoints == {<<3, 0>>, <<3, 1>>, <<4, 0>>}

MCLocals ==
  { [usable |-> TRUE, storage |-> "register", home |-> <<0, 8>>],
    [usable |-> TRUE, storage |-> "register", home |-> <<1, 1>>],
    [usable |-> TRUE, storage |-> "stack", home |-> <<0, 4>>],
    [usable |-> TRUE, storage |-> "frame", home |-> <<0, 4>>],
    [usable |-> FALSE, storage |-> "register", home |-> <<0, 8>>] }
=============================================================================
