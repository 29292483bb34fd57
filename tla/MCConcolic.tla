----------------------------- MODULE MCConcolic -----------------------------
(***************************************************************************)
(* Instances of Concolic for a function  f(int x, string s):  an int of 3  *)
(* bits, chars of 2 bits, strings of at most 2 characters when random.     *)
(***************************************************************************)
EXTENDS Concolic

x == Root("x")
s == Root("s")
At(i) == [in |-> "s", path |-> <<i>>]
Val(sym) == [how |-> "val", sym |-> sym]
LenOf(sym) == [how |-> "len", sym |-> sym]

MCDepth == [i \in {"x", "s"} |-> IF i = "s" THEN 1 ELSE 0]
MCKind == [i \in {"x", "s"} |-> IF i = "s" THEN "char" ELSE "int"]
MCRandVals == [k \in Kinds |-> {0, 1}]
MCRandLens == 0 .. 2
MCHalf == [k \in Kinds |-> CASE k = "int" -> 4 [] k = "char" -> 2 [] OTHER -> 1]
\* Negative, zero, small, too large for char, for int and for int64.
MCSolverInts == {-1, 0, 1, 2, 5, 9}

MCAccesses == {Val(x), Val(At(-1)), Val(At(0)), Val(At(1)), LenOf(s), Val(s)}

\* [prob = 30; x < s.len]  if s[0] == s[1]
Equal == [id |-> "equal", reads |-> <<Val(At(0)), Val(At(1)), Val(x), LenOf(s)>>,
          ncond |-> 2, prob |-> 30]
\* [prob = 100;]  if x < s.len
Short == [id |-> "short", reads |-> <<Val(x), LenOf(s)>>, ncond |-> 2, prob |-> 100]
\* [s[0] > 0]  while x == 1
Loop == [id |-> "loop", reads |-> <<Val(x), Val(At(0))>>, ncond |-> 1, prob |-> -1]

\* [prob = 50;]  if s.len > 0 && s[0] == 1     (the length comes first)
LenFirst == [id |-> "lenfirst", reads |-> <<LenOf(s), Val(At(0))>>, ncond |-> 2, prob |-> 50]
\* [prob = 50;]  if s.len < 2
Bounded == [id |-> "bounded", reads |-> <<LenOf(s)>>, ncond |-> 1, prob |-> 50]

MCSide(c, v) ==
  IF CASE c.id = "equal"    -> v[1] = v[2]
       [] c.id = "short"    -> v[1] < v[2]
       [] c.id = "loop"     -> v[1] = 1
       [] c.id = "lenfirst" -> v[1] > 0 /\ v[2] = 1
       [] c.id = "bounded"  -> v[1] < 2
  THEN "then" ELSE "else"

MCPreHolds(c, v) ==
  CASE c.id = "equal" -> v[3] < v[4]
    [] c.id = "loop"  -> v[2] > 0
    [] OTHER          -> TRUE

SafeConds == {Equal, Short, Loop}
LenFirstConds == {LenFirst}
BoundedConds == {Bounded}
InBounds == {LenOf(s), Val(s)}

\* The branches of SafeConds satisfy the hypothesis of the theorems.
ASSUME \A c \in SafeConds : LenSafe(c)

-----------------------------------------------------------------------------
(* Violated by the code: what a document or a message of it claims.        *)

\* "d_gen will generate appropriate values for input variables inside the
\* condition expression" (README.md:108): a generation whose program reads no
\* element never fails.  The solver is not told that a length is not negative.
ProperLengths == pc # "failed"
=============================================================================
