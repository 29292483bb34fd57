----------------------------- MODULE MCEvaluation -----------------------------
(***************************************************************************)
(* Expressions of at most four leaves, over six ints and four chars: all   *)
(* their values, and answers of the solver beyond both.                    *)
(***************************************************************************)
EXTENDS Evaluation

MCHalf == [w \in {"i8", "i32"} |-> IF w = "i8" THEN 2 ELSE 3]
MCSolverInts == -4 .. 3
=============================================================================
