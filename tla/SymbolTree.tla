----------------------------- MODULE SymbolTree -----------------------------
(***************************************************************************)
(* The tree of input symbols (src/src/Symbol.h, Symbol.cpp).               *)
(*                                                                         *)
(* An input of type  kind[]..[]  with Depth[i] dimensions is a tree of     *)
(* Symbol objects: an ArraySym holds a vector of element symbols and a     *)
(* scalar symbol (NumberSym, CharSym, BoolSym) a std::optional value.  A   *)
(* symbol is named by the input it belongs to and the path of indices that *)
(* leads to it, <<>> for the input itself; a StringSym is an ArraySym of   *)
(* char.  A binding maps every symbol that has a value to it: a scalar to  *)
(* its value (FALSE and TRUE are 0 and 1), an array to its inited_size.    *)
(***************************************************************************)
EXTENDS Integers, Sequences, FiniteSets

CONSTANTS Inputs,     \* the parameters of the d_gen function
          Depth,      \* their number of array dimensions
          Kind,       \* the kind of their scalars, a member of Kinds
          RandVals,   \* what std::rand() makes of a scalar of each kind
          RandLens,   \* what std::rand() makes of an array size
          Half        \* 2^(w-1) for the w bits of a scalar of each kind

Kinds == {"int", "char", "bool"}

ASSUME TreeAssumption ==
  /\ Depth \in [Inputs -> Nat]
  /\ Kind \in [Inputs -> Kinds]
  /\ RandVals \in [Kinds -> SUBSET Int]
  /\ RandLens \in SUBSET Nat
  /\ Half \in [Kinds -> Nat \ {0}]

Sym == [in : Inputs, path : Seq(Int)]

Root(i) == [in |-> i, path |-> <<>>]

\* The ancestor of s that the first k indices lead to.
Up(s, k) == [in |-> s.in, path |-> SubSeq(s.path, 1, k)]

IsArray(s) == Len(s.path) < Depth[s.in]

\* t is an element of array a, at any nesting.
Below(t, a) == Len(t.path) > Len(a.path) /\ Up(t, Len(a.path)) = a

\* The element vectors on the way to s exist and are long enough.
Live(b, s) ==
  \A k \in 0 .. Len(s.path) - 1 :
     Up(s, k) \in DOMAIN b /\ s.path[k + 1] \in 0 .. b[Up(s, k)] - 1

\* Giving s the value v.  For an array this is init_arr: the vector is
\* emptied and refilled with new symbols, so no element keeps a value.
Assign(b, s, v) ==
  [t \in {u \in DOMAIN b : ~Below(u, s)} \cup {s} |-> IF t = s THEN v ELSE b[t]]

Elements(b, a) ==
  {[in |-> a.in, path |-> Append(a.path, i)] : i \in 0 .. b[a] - 1}

\* The symbols without a value that forcing s to be generated comes to next:
\* s itself, or elements of the arrays in it that already have their size.
Frontier(b, s) ==
  LET arrays == {a \in DOMAIN b : IsArray(a) /\ (a = s \/ Below(a, s))}
  IN  ({s} \cup UNION {Elements(b, a) : a \in arrays}) \ DOMAIN b

RandOf(s) == IF IsArray(s) THEN RandLens ELSE RandVals[Kind[s.in]]

\* What is left of integer z in the member the symbol stores it in.
Wrap(s, z) ==
  LET kind == IF IsArray(s) THEN "int" ELSE Kind[s.in]
  IN  IF kind = "bool" THEN z
      ELSE ((z + Half[kind]) % (2 * Half[kind])) - Half[kind]

-----------------------------------------------------------------------------
NoBinding == <<>>

IsBinding(b) == b \in [DOMAIN b -> Int] /\ DOMAIN b \subseteq Sym

\* Every symbol with a value is still an object of the tree.
Closed(b) == \A s \in DOMAIN b : Live(b, s)

\* c gives a value to every symbol that b does, and the same one.
Extends(c, b) == DOMAIN b \subseteq DOMAIN c /\ \A s \in DOMAIN b : c[s] = b[s]

\* Every symbol of every input has a value.
Complete(b) == \A i \in Inputs : Frontier(b, Root(i)) = {}
=============================================================================
