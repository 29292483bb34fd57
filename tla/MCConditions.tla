---------------------------- MODULE MCConditions ----------------------------
(***************************************************************************)
(* Instances of Conditions: conditions over a scalar i and an array p of   *)
(* the program and inputs x and m, one or two branches each.               *)
(***************************************************************************)
EXTENDS Conditions

N(kind, sym, kids) == [kind |-> kind, sym |-> sym, kids |-> kids]
Cond(cond, pre) == [cond |-> cond, pre |-> pre]
Program(nodes, branches) == [nodes |-> nodes, branches |-> branches]

\* if i                        [i == 1] if i
Scalar == Program(<<N("local", "i", <<>>),
                    N("local", "i", <<>>), N("const", 1, <<>>), N("op", "==", <<2, 3>>)>>,
                  {Cond(1, 0), Cond(1, 4)})
\* if p[i]                     if p[i] == p.len
Element == Program(<<N("array", "p", <<>>), N("local", "i", <<>>), N("at", "", <<1, 2>>),
                     N("array", "p", <<>>), N("local", "i", <<>>), N("at", "", <<4, 5>>),
                     N("array", "p", <<>>), N("len", "", <<7>>), N("op", "==", <<6, 8>>)>>,
                   {Cond(3, 0), Cond(9, 0)})
\* [m[x] < i] if m[m[x]]
Inner == Program(<<N("inputs", "m", <<>>), N("input", "x", <<>>), N("at", "", <<1, 2>>),
                   N("local", "i", <<>>), N("op", "<", <<3, 4>>),
                   N("inputs", "m", <<>>), N("inputs", "m", <<>>), N("input", "x", <<>>),
                   N("at", "", <<7, 8>>), N("at", "", <<6, 9>>)>>,
                 {Cond(10, 5)})
\* [x == i] if m[p[m[i]]] == x
Deep == Program(<<N("input", "x", <<>>), N("local", "i", <<>>), N("op", "==", <<1, 2>>),
                  N("inputs", "m", <<>>), N("array", "p", <<>>), N("inputs", "m", <<>>),
                  N("local", "i", <<>>), N("at", "", <<6, 7>>), N("at", "", <<5, 8>>),
                  N("at", "", <<4, 9>>), N("input", "x", <<>>), N("op", "==", <<10, 11>>)>>,
                {Cond(12, 3)})

MCPrograms == {Scalar, Element, Inner, Deep}
MCSlots == 1 .. 3
MCBlocks == {11, 12}
MCLengths == 11 :> 0 @@ 12 :> 1
MCValues == {0, 1}
=============================================================================
