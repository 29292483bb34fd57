------------------------------- MODULE MCOutput -------------------------------
(***************************************************************************)
(* Programs for Output, chosen by the shapes of their inputs and results.  *)
(***************************************************************************)
EXTENDS Output

MCInputs == {"x", "y", "s", "a", "m", "w"}
MCDepth == [i \in MCInputs |->
              CASE i \in {"s", "a"} -> 1 [] i \in {"m", "w"} -> 2 [] OTHER -> 0]
MCKind == [i \in MCInputs |->
             CASE i \in {"s", "w"} -> "char" [] i = "y" -> "bool" [] i = "a" -> "char"
               [] OTHER -> "int"]
\* y is declared with the name of x.
MCName == [i \in MCInputs |-> <<IF i = "y" THEN "x" ELSE i>>]
MCTexts == {"s", "w"}

\* Chars have three bits here: 'a', 'b', the quote, the backslash, the comma
\* and the line feed, negative or not.
MCChars == -4 :> "," @@ -3 :> "lf" @@ -2 :> "b" @@ -1 :> "\\" @@ 0 :> "a" @@ 1 :> "\""
             @@ 2 :> "c" @@ 3 :> "d"
MCControl == {"lf"}
MCHalf == [k \in Kinds |-> CASE k = "int" -> 8 [] k = "char" -> 4 [] OTHER -> 1]
MCRandVals == [k \in Kinds |-> IF k = "bool" THEN {0, 1} ELSE {0}]
MCKnownVals == [k \in Kinds |-> CASE k = "bool" -> {0, 1} [] k = "int" -> {-1, 0}
                                  [] k = "char" -> {-1, 0, 1}]
MCRandLens == 0 .. 2

Num(n) == [int |-> n]
Str(s) == [string |-> s]
Arr(a) == [array |-> a]

F == [name |-> <<"f">>, args |-> <<"x", "s">>]        \* string f(int x, string s)
G == [name |-> <<"g">>, args |-> <<"m">>]             \* int[][] g(int[][] m)
H == [name |-> <<"h">>, args |-> <<"x", "y">>]        \* bool h(int x, bool x)
X == [name |-> <<"x">>, args |-> <<"x">>]             \* int x(int x)
C == [name |-> <<"c">>, args |-> <<"a">>]             \* char c(char[] a)
W == [name |-> <<"v">>, args |-> <<"w">>]             \* string[] v(string[] w)
MCPrograms == {F, G, H, X, C, W}

\* A quote, a comma and a quote make one string look like two.
MCResults == [p \in MCPrograms |->
  CASE p = F -> {Str(<<>>), Str(<<0, 7>>), Str(<<0, 5>>)}
    [] p = G -> {Arr(<<>>), Arr(<<Arr(<<>>), Arr(<<Num(-1), Num(0)>>)>>)}
    [] p = H -> {[bool |-> b] : b \in {0, 1}}
    [] p = X -> {Num(-1), Num(0)}
    [] p = C -> {[char |-> c] : c \in {0, 7}}
    [] p = W -> {Arr(<<Str(<<1, 4, 1>>)>>), Arr(<<Str(<<>>), Str(<<0>>)>>)}]

Opt(o, v) == [opt |-> o, val |-> v]
MCCommandLines ==
  {<<Opt("f", "there"), Opt("n", n)>> : n \in -1 .. 2}
    \cup {<<Opt("n", 1)>>, <<Opt("f", "there"), Opt("q", 0)>>, <<Opt("n", 1), Opt("f", "missing")>>,
          <<Opt("n", -1), Opt("q", 0), Opt("f", "missing"), Opt("f", "there"), Opt("n", 1)>>}
=============================================================================
