------------------------------ MODULE MCNested ------------------------------
(***************************************************************************)
(* Instances of Concolic for a function  f(bool b, int[][] m): rows of at  *)
(* most 2 elements, sizes generated level by level.                        *)
(***************************************************************************)
EXTENDS Concolic

b == Root("b")
m == Root("m")
Row(i) == [in |-> "m", path |-> <<i>>]
At(i, j) == [in |-> "m", path |-> <<i, j>>]
Val(sym) == [how |-> "val", sym |-> sym]
LenOf(sym) == [how |-> "len", sym |-> sym]

MCDepth == [i \in {"b", "m"} |-> IF i = "m" THEN 2 ELSE 0]
MCKind == [i \in {"b", "m"} |-> IF i = "m" THEN "int" ELSE "bool"]
MCRandVals == [k \in Kinds |-> {0, 1}]
OneRandVal == [k \in Kinds |-> IF k = "bool" THEN {0, 1} ELSE {1}]
MCRandLens == 0 .. 2
MCHalf == [k \in Kinds |-> IF k = "int" THEN 4 ELSE 1]
MCSolverInts == {-1, 0, 1, 5}

\* A row is read as a whole, a length, an element.
MCAccesses == {Val(b), Val(Row(1)), Val(At(0, 1)), LenOf(m)}

\* [prob = 0; m[0][0] < 1]  if b && m[1][0] > m[0][0]
Rows == [id |-> "rows", reads |-> <<Val(b), Val(At(1, 0)), Val(At(0, 0)), Val(At(0, 0))>>,
         ncond |-> 3, prob |-> 0]
\* [prob = 50;]  if m.len == 1
Single == [id |-> "single", reads |-> <<LenOf(m)>>, ncond |-> 1, prob |-> 50]
\* [prob = 50;]  if m[0] == m[1]       (no term for a whole row: generation fails)
SameRows == [id |-> "same", reads |-> <<Val(Row(0)), Val(Row(1))>>, ncond |-> 2, prob |-> 50]

MCSide(c, v) ==
  IF CASE c.id = "rows"   -> v[1] = 1 /\ v[2] > v[3]
       [] c.id = "single" -> v[1] = 1
       [] c.id = "same"   -> v[1] = v[2]
  THEN "then" ELSE "else"

MCPreHolds(c, v) == IF c.id = "rows" THEN v[4] < 1 ELSE TRUE

MCConds == {Rows, Single, SameRows}

ASSUME \A c \in MCConds : LenSafe(c)
=============================================================================
