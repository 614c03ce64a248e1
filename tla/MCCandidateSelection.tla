------------------------ MODULE MCCandidateSelection ------------------------
(***************************************************************************)
(* Function f has more locals than a stop analyses, two of them recoverable *)
(* and one watched; g has fewer, and shares indexes with f.  One watched    *)
(* index is a local of neither.                                             *)
(***************************************************************************)
EXTENDS CandidateSelection

MCLocalsOf == [f \in Funcs |-> IF f = "f" THEN 1..5 ELSE {0, 2}]
MCNamed == [f \in Funcs |-> LocalsOf[f] \cap {2, 4, 5}]
MCRecoverable == [f \in Funcs |-> LocalsOf[f] \cap {2, 4}]
=============================================================================
