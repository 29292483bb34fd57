---------------------------- MODULE MCControlFlow ----------------------------
(***************************************************************************)
(* Instances of ControlFlow: all the programs of three levels of nesting   *)
(* whose bodies are among a few, written as nested statements.             *)
(***************************************************************************)
EXTENDS ControlFlow

Simple(op) == [op |-> op, inc |-> FALSE, bodies |-> << >>]
If(then, else) == [op |-> "if", inc |-> FALSE, bodies |-> <<then, else>>]
While(body) == [op |-> "for", inc |-> FALSE, bodies |-> <<body>>]
For(body) == [op |-> "for", inc |-> TRUE, bodies |-> <<body>>]

\* The program that a body of nested statements is, its paths beginning with q.
RECURSIVE Flatten(_, _)
Flatten(q, body) ==
  LET own == {q \o <<i>> : i \in DOMAIN body}
      inner == UNION {{Flatten(q \o <<i, b>>, body[i].bodies[b]) :
                         b \in DOMAIN body[i].bodies} : i \in DOMAIN body}
      stmt(p) == body[p[Len(p)]]
  IN  [p \in own \cup UNION {DOMAIN f : f \in inner} |->
         IF p \in own THEN [op |-> stmt(p).op, inc |-> stmt(p).inc]
         ELSE (CHOOSE f \in inner : p \in DOMAIN f)[p]]

act == Simple("act")
ret == Simple("return")
brk == Simple("break")
cont == Simple("continue")

Short == {<<>>, <<act>>, <<ret>>, <<brk>>, <<cont>>, <<act, brk>>, <<cont, act>>, <<brk, cont>>}
Few == {<<>>, <<act>>, <<ret>>, <<brk>>, <<cont>>}
Nested ==
  {If(t, e) : t, e \in Short} \cup {While(b) : b \in Short} \cup {For(b) : b \in {<<>>, <<act>>, <<act, brk>>, <<ret>>}}
Middle == UNION {{<<s>>, <<s, act>>, <<s, cont>>, <<act, s>>} : s \in Nested} \cup Short
Outer ==
  {While(m) : m \in Middle} \cup {If(m, f) : m \in Middle, f \in Few} \cup {If(f, m) : m \in Middle, f \in Few}
Bodies == {<<o, ret>> : o \in Outer} \cup {<<o>> : o \in Outer} \cup {<<act, ret, act>>, <<brk>>}
MCPrograms == {Flatten(<<>>, b) : b \in Bodies}

\* for ...; ...; i++ { if ... { continue } ... }  return
ForContinue ==
  {Flatten(<<>>, <<For(m), ret>>) :
     m \in UNION {{<<If(t, e)>>, <<If(t, e), act>>} : t, e \in Short}}
=============================================================================
