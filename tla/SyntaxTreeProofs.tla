--------------------------- MODULE SyntaxTreeProofs ---------------------------
(***************************************************************************)
(* Proofs about SyntaxTree, for every program: the nodes that the visitor  *)
(* creates are one tree, deleting the function deletes every node of it,   *)
(* once, and the expressions that code is generated for are typed.         *)
(***************************************************************************)
EXTENDS SyntaxTree, Induction

Args == DOMAIN prog.args
HasParent(n) == \E m \in DOMAIN nodes : n \in Kids(m)
WorkNodes == {work[i].node : i \in DOMAIN work}

\* Children are created before their parents.
NodesOK ==
  /\ prog \in Programs
  /\ \E T : nodes \in Seq(T)
  /\ Len(prog.args) <= Len(nodes)
  /\ \A n \in DOMAIN nodes : "kids" \in DOMAIN nodes[n] /\ nodes[n].kids \in Seq(0 .. n - 1)

\* The rules in front of position k were visited.
Visited(k) ==
  LET left == Returned(prog.text)[k]
  IN  /\ text = SubSeq(prog.text, k + 1, Len(prog.text))
      /\ Len(stack) = Len(left) /\ \A i \in 1 .. Len(left) : stack[i] = 0 <=> left[i] = "null"

\* No node is lost: it is an argument, it waits on the stack or has a parent.
ParseOK ==
  pc = "parse" =>
    /\ stack \in Seq(0 .. Len(nodes))
    /\ \E k \in 0 .. Len(prog.text) : Visited(k)
    /\ \A n \in DOMAIN nodes : n \in Args \/ n \in ToSet(stack) \/ HasParent(n)
    /\ freed = {}

RootOK ==
  pc # "parse" => nodes # <<>> /\ \A n \in DOMAIN nodes : n = Root \/ HasParent(n)

\* What is deleted has its children deleted, or they are next.
DeleteOK ==
  /\ pc \in {"type", "eliminate", "codegen"} => freed = {}
  /\ pc \in {"delete", "done"} =>
       /\ work \in Seq([node : DOMAIN nodes, in : {0}]) /\ freed \subseteq DOMAIN nodes
       /\ Root \in freed \cup WorkNodes
       /\ \A n \in freed : Kids(n) \subseteq freed \cup WorkNodes
  /\ pc = "done" => work = <<>>
  /\ pc \in {"parse", "type", "eliminate", "codegen", "delete", "done",
             "undeclared", "rejected", "undefined"}

IInv == NodesOK /\ ParseOK /\ RootOK /\ DeleteOK

-----------------------------------------------------------------------------
\* copy() copies the whole left side of a compound assignment, as the classes
\* of all its nodes override it.
WholeCopied ==
  Parsing({"op=", "++"}) =>
    LET lhs == Operands[1]
    IN  lhs \in Copies[lhs] /\ \A m \in Copies[lhs] : Kids(m) \subseteq Copies[lhs]

\* No node is the child of two, or twice the child of one.
OneParent ==
  \A m, n \in DOMAIN nodes :
    \A i \in DOMAIN nodes[m].kids, j \in DOMAIN nodes[n].kids :
      nodes[m].kids[i] # 0 /\ nodes[m].kids[i] = nodes[n].kids[j] => m = n /\ i = j

\* What waits on the stack has no parent, and waits there once.
Waiting ==
  pc = "parse" =>
    /\ \A i, j \in DOMAIN stack : stack[i] # 0 /\ stack[i] = stack[j] => i = j
    /\ \A i \in DOMAIN stack : stack[i] # 0 => stack[i] \notin Args /\ ~ HasParent(stack[i])
    /\ \A a \in Args : ~ HasParent(a)

\* What is deleted, or next, is the root or has a parent that is deleted.
DeletedDown ==
  pc = "delete" =>
    /\ \A i, j \in DOMAIN work : work[i].node = work[j].node => i = j
    /\ WorkNodes \cap freed = {}
    /\ \A n \in freed \cup WorkNodes : n = Root \/ \E m \in freed : n \in Kids(m)

OnceInv == IInv /\ OneParent /\ Waiting /\ DeletedDown /\ DeletedOnce

-----------------------------------------------------------------------------
(* The elements of a sequence that are in a set, in their order.           *)

Ordered(s, R) == \A i, j \in 1 .. Len(s) : i < j => <<s[i], s[j]>> \in R

LEMMA OrderedAppend ==
  ASSUME NEW T, NEW s \in Seq(T), NEW x \in T, NEW R, Ordered(s, R),
         \A i \in 1 .. Len(s) : <<s[i], x>> \in R
  PROVE  Ordered(s \o <<x>>, R)
<1> DEFINE t == s \o <<x>>
<1>1. /\ Len(s) \in Nat /\ Len(t) = Len(s) + 1 /\ t[Len(s) + 1] = x
      /\ \A i \in 1 .. Len(s) : t[i] = s[i]
  OBVIOUS
<1> HIDE DEF t
<1>2. ASSUME NEW i \in 1 .. Len(t), NEW j \in 1 .. Len(t), i < j
      PROVE  <<t[i], t[j]>> \in R
  <2>1. i \in 1 .. Len(s) /\ (j \in 1 .. Len(s) \/ j = Len(s) + 1)
    BY <1>1, <1>2
  <2> QED
    BY <1>1, <1>2, <2>1 DEF Ordered
<1> QED
  BY <1>2 DEF Ordered, t

LEMMA ConcatEmpty ==
  ASSUME NEW T, NEW s \in Seq(T)
  PROVE  s \o <<>> = s
OBVIOUS

LEMMA AmongFacts ==
  ASSUME NEW T, NEW s \in Seq(T), NEW S, NEW R, Ordered(s, R)
  PROVE  /\ Among(s, S) \in Seq(T)
         /\ ToSet(Among(s, S)) = ToSet(s) \cap S
         /\ Ordered(Among(s, S), R)
<1> DEFINE parts == [i \in DOMAIN s |-> IF s[i] \in S THEN <<s[i]>> ELSE <<>>]
           f == FlattenRec(parts)
           Upto(n) == /\ f[n] \in Seq(T) /\ Ordered(f[n], R)
                      /\ \A x : x \in ToSet(f[n]) <=> \E i \in 1 .. n : x = s[i] /\ s[i] \in S
           P == {n \in Nat : n \in 1 .. Len(s) => Upto(n)}
<1>0. Len(s) \in Nat /\ DOMAIN s = 1 .. Len(s) /\ \A i \in 1 .. Len(s) : s[i] \in T
  OBVIOUS
<1>1. /\ Len(parts) = Len(s)
      /\ \A i \in 1 .. Len(s) : parts[i] = IF s[i] \in S THEN <<s[i]>> ELSE <<>>
  BY <1>0
<1> HIDE DEF parts
<1>2. f = [i \in 1 .. Len(s) |-> IF i = 1 THEN parts[i] ELSE f[i - 1] \o parts[i]]
  BY <1>0, <1>1, FlattenRecDef
<1> HIDE DEF f
<1>3. ASSUME NEW x \in T
      PROVE  <<x>> \in Seq(T) /\ Ordered(<<x>>, R) /\ \A y : y \in ToSet(<<x>>) <=> y = x
  BY DEF Ordered, ToSet
<1>4. <<>> \in Seq(T) /\ Ordered(<<>>, R) /\ \A y : y \notin ToSet(<<>>)
  BY DEF Ordered, ToSet
<1>5. 0 \in P
  OBVIOUS
<1>6. ASSUME NEW n \in Nat, n \in P
      PROVE  n + 1 \in P
  <2> SUFFICES ASSUME n + 1 \in 1 .. Len(s)
               PROVE  Upto(n + 1)
    OBVIOUS
  <2>0. s[n + 1] \in T
    BY <1>0
  <2>1. CASE n = 0
    <3>1. f[n + 1] = parts[n + 1]
      BY <1>2, <2>1
    <3>2. \A i : i \in 1 .. n + 1 <=> i = n + 1
      BY <2>1
    <3>3. CASE s[n + 1] \in S
      <4>1. f[n + 1] = <<s[n + 1]>>
        BY <1>1, <3>1, <3>3
      <4>2. <<s[n + 1]>> \in Seq(T) /\ Ordered(<<s[n + 1]>>, R)
            /\ \A y : y \in ToSet(<<s[n + 1]>>) <=> y = s[n + 1]
        BY <1>3, <2>0
      <4> QED
        BY <3>2, <3>3, <4>1, <4>2
    <3>4. CASE s[n + 1] \notin S
      <4>1. f[n + 1] = <<>>
        BY <1>1, <3>1, <3>4
      <4> QED
        BY <1>4, <3>2, <3>4, <4>1
    <3> QED
      BY <3>3, <3>4
  <2>2. CASE n # 0
    <3>1. n \in 1 .. Len(s) /\ n + 1 # 1 /\ (n + 1) - 1 = n
      BY <1>0, <2>2
    <3>2. Upto(n)
      BY <1>6, <3>1
    <3>3. f[n + 1] = f[n] \o parts[n + 1]
      BY <1>2, <3>1
    <3>4. \A i : i \in 1 .. n + 1 <=> i \in 1 .. n \/ i = n + 1
      OBVIOUS
    <3>5. CASE s[n + 1] \in S
      <4> DEFINE one == <<s[n + 1]>>
      <4>1. f[n + 1] = f[n] \o one
        BY <1>1, <3>3, <3>5
      <4>2. one \in Seq(T) /\ \A y : y \in ToSet(one) <=> y = s[n + 1]
        BY <1>3, <2>0
      <4>3. Ordered(f[n + 1], R)
        <5>1. ASSUME NEW i \in 1 .. Len(f[n])
              PROVE  <<f[n][i], s[n + 1]>> \in R
          <6>1. f[n][i] \in ToSet(f[n])
            BY <3>2 DEF ToSet
          <6>2. PICK j \in 1 .. n : f[n][i] = s[j]
            BY <3>2, <6>1
          <6>3. j \in 1 .. Len(s) /\ j < n + 1
            BY <3>1
          <6> QED
            BY <6>2, <6>3 DEF Ordered
        <5>2. Ordered(f[n] \o <<s[n + 1]>>, R)
          BY <2>0, <3>2, <5>1, OrderedAppend
        <5> QED
          BY <4>1, <5>2
      <4> HIDE DEF one
      <4>4. f[n + 1] \in Seq(T) /\ ToSet(f[n + 1]) = ToSet(f[n]) \cup ToSet(one)
        BY <3>2, <4>1, <4>2, ConcatElements
      <4>5. ASSUME NEW x
            PROVE  x \in ToSet(f[n + 1]) <=> \E i \in 1 .. n + 1 : x = s[i] /\ s[i] \in S
        BY <3>2, <3>4, <3>5, <4>2, <4>4
      <4> QED
        BY <4>3, <4>4, <4>5
    <3>6. CASE s[n + 1] \notin S
      <4>1. f[n + 1] = f[n]
        <5>1. f[n + 1] = f[n] \o <<>>
          BY <1>1, <3>3, <3>6
        <5> QED
          BY <3>2, <5>1, ConcatEmpty
      <4>2. ASSUME NEW x
            PROVE  x \in ToSet(f[n + 1]) <=> \E i \in 1 .. n + 1 : x = s[i] /\ s[i] \in S
        BY <3>2, <3>4, <3>6, <4>1
      <4> QED
        BY <3>2, <4>1, <4>2
    <3> QED
      BY <3>5, <3>6
  <2> QED
    BY <2>1, <2>2
<1>7. \A n \in Nat : n \in P
  <2> HIDE DEF P
  <2> QED
    BY <1>5, <1>6, Induction
<1>8. Among(s, S) = FlattenSeq(parts)
  BY DEF Among, parts
<1>9. CASE Len(s) = 0
  <2>1. Among(s, S) = parts
    BY <1>1, <1>8, <1>9, FlattenIs
  <2>2. parts = <<>> /\ \A i \in 1 .. Len(s) : FALSE
    BY <1>0, <1>9 DEF parts
  <2>3. ToSet(s) = {}
    BY <1>9 DEF ToSet
  <2> QED
    BY <1>4, <2>1, <2>2, <2>3
<1>10. CASE Len(s) # 0
  <2>1. Among(s, S) = f[Len(s)]
    BY <1>1, <1>8, <1>10, FlattenIs DEF f
  <2>2. Upto(Len(s))
    BY <1>0, <1>7, <1>10
  <2>3. \A x : x \in ToSet(s) <=> \E i \in 1 .. Len(s) : x = s[i]
    BY <1>0 DEF ToSet
  <2> QED
    BY <2>1, <2>2, <2>3
<1> QED
  BY <1>9, <1>10

\* What is visited of a sequence of nodes: those that are not null.
LEMMA VisitsFacts ==
  ASSUME NEW ids \in Seq(Nat), NEW t
  PROVE  /\ Visits(ids, t) \in Seq([node : DOMAIN nodes, in : {t}])
         /\ {Visits(ids, t)[i].node : i \in DOMAIN Visits(ids, t)} = ToSet(ids) \cap DOMAIN nodes
<1> DEFINE there == Among(ids, DOMAIN nodes)
           all == Nat \X Nat
<1>1. Ordered(ids, all)
  BY DEF Ordered
<1>2. there \in Seq(Nat) /\ ToSet(there) = ToSet(ids) \cap DOMAIN nodes
  <2> HIDE DEF all
  <2> QED
    BY <1>1, AmongFacts
<1>3. Visits(ids, t) = [i \in DOMAIN there |-> [node |-> there[i], in |-> t]]
  BY DEF Visits
<1> HIDE DEF there
<1>4. DOMAIN there = 1 .. Len(there) /\ Len(there) \in Nat
  BY <1>2
<1>5. \A i \in DOMAIN there : there[i] \in DOMAIN nodes
  BY <1>2 DEF ToSet
<1>6. Visits(ids, t) \in Seq([node : DOMAIN nodes, in : {t}])
  BY <1>3, <1>4, <1>5
<1>7. DOMAIN Visits(ids, t) = DOMAIN there /\ \A i \in DOMAIN there : Visits(ids, t)[i].node = there[i]
  BY <1>3
<1>8. {Visits(ids, t)[i].node : i \in DOMAIN Visits(ids, t)} = {there[i] : i \in DOMAIN there}
  BY <1>7
<1> QED
  BY <1>2, <1>6, <1>8 DEF ToSet

\* Nothing is visited twice when nothing is there twice.
LEMMA VisitsOnce ==
  ASSUME NEW ids \in Seq(Nat), NEW t, 0 \notin DOMAIN nodes,
         \A i, j \in DOMAIN ids : ids[i] # 0 /\ ids[i] = ids[j] => i = j
  PROVE  \A i, j \in DOMAIN Visits(ids, t) : Visits(ids, t)[i].node = Visits(ids, t)[j].node => i = j
<1> DEFINE there == Among(ids, DOMAIN nodes)
           R == {p \in Nat \X Nat : p[1] = p[2] => p[1] = 0}
<1>1. Ordered(ids, R)
  <2>1. ASSUME NEW i \in 1 .. Len(ids), NEW j \in 1 .. Len(ids), i < j
        PROVE  <<ids[i], ids[j]>> \in R
    <3>1. i \in DOMAIN ids /\ j \in DOMAIN ids /\ ids[i] \in Nat /\ ids[j] \in Nat /\ i # j
      BY <2>1
    <3> QED
      BY <3>1
  <2> HIDE DEF R
  <2> QED
    BY <2>1 DEF Ordered
<1>2. there \in Seq(Nat) /\ ToSet(there) = ToSet(ids) \cap DOMAIN nodes /\ Ordered(there, R)
  <2> HIDE DEF R
  <2> QED
    BY <1>1, AmongFacts
<1>3. Visits(ids, t) = [i \in DOMAIN there |-> [node |-> there[i], in |-> t]]
  BY DEF Visits
<1> HIDE DEF there
<1>4. DOMAIN there = 1 .. Len(there) /\ Len(there) \in Nat
  BY <1>2
<1>5. \A i \in DOMAIN there : there[i] # 0
  BY <1>2 DEF ToSet
<1>6. ASSUME NEW i \in DOMAIN there, NEW j \in DOMAIN there, i < j
      PROVE  there[i] # there[j]
  <2>1. <<there[i], there[j]>> \in R
    BY <1>2, <1>4, <1>6 DEF Ordered
  <2>2. there[i] = there[j] => there[i] = 0
    BY <2>1
  <2> QED
    BY <1>5, <2>2
<1>7. \A i, j \in DOMAIN there : there[i] = there[j] => i = j
  <2> SUFFICES ASSUME NEW i \in DOMAIN there, NEW j \in DOMAIN there, i # j
               PROVE  there[i] # there[j]
    OBVIOUS
  <2>1. i < j \/ j < i
    BY <1>4
  <2> QED
    BY <1>6, <2>1
<1>8. DOMAIN Visits(ids, t) = DOMAIN there /\ \A i \in DOMAIN there : Visits(ids, t)[i].node = there[i]
  BY <1>3
<1> QED
  BY <1>7, <1>8

-----------------------------------------------------------------------------
(* What the visitor returns, rule by rule.                                 *)

ReturnedStep(rules, f, i) ==
  IF i = 0 THEN <<>>
  ELSE Append(SubSeq(f[i - 1], 1, Len(f[i - 1]) - rules[i].n),
              IF rules[i].do \in {"op=", "++"} THEN "asg" ELSE rules[i].do)

LEMMA ReturnedDef ==
  ASSUME NEW rules, Len(rules) \in Nat
  PROVE  Returned(rules) = [i \in 0 .. Len(rules) |-> ReturnedStep(rules, Returned(rules), i)]
<1> DEFINE Def(f, n) == /\ f = [i \in 0 .. n |-> f[i]]
                        /\ \A i \in 0 .. n : f[i] = ReturnedStep(rules, f, i)
           S == {n \in Nat : \E f : Def(f, n)}
<1>1. 0 \in S
  <2>1. Def([i \in 0 .. 0 |-> <<>>], 0)
    BY DEF ReturnedStep
  <2> QED
    BY <2>1
<1>2. ASSUME NEW n \in Nat, n \in S
      PROVE  n + 1 \in S
  <2>1. PICK f : Def(f, n)
    BY <1>2
  <2> DEFINE g == [i \in 0 .. n + 1 |-> IF i = n + 1 THEN ReturnedStep(rules, f, n + 1) ELSE f[i]]
  <2>2. g = [i \in 0 .. n + 1 |-> g[i]]
    OBVIOUS
  <2>3. g[n + 1] = ReturnedStep(rules, f, n + 1) /\ \A i \in 0 .. n : g[i] = f[i]
    OBVIOUS
  <2> HIDE DEF g
  <2>4. ASSUME NEW i \in 0 .. n + 1
        PROVE  g[i] = ReturnedStep(rules, g, i)
    <3>1. i # 0 => i - 1 \in 0 .. n
      OBVIOUS
    <3>2. i # 0 => g[i - 1] = f[i - 1]
      BY <2>3, <3>1
    <3>3. ReturnedStep(rules, g, i) = ReturnedStep(rules, f, i)
      BY <3>2 DEF ReturnedStep
    <3>4. CASE i = n + 1
      BY <2>3, <3>3, <3>4
    <3>5. CASE i # n + 1
      <4>1. i \in 0 .. n
        BY <3>5
      <4> QED
        BY <2>1, <2>3, <3>3, <4>1
    <3> QED
      BY <3>4, <3>5
  <2>5. Def(g, n + 1)
    BY <2>2, <2>4
  <2> HIDE DEF Def
  <2> QED
    BY <2>5
<1>3. \A n \in Nat : n \in S
  <2> HIDE DEF S
  <2> QED
    BY <1>1, <1>2, Induction
<1>4. PICK f : Def(f, Len(rules))
  BY <1>3
<1>5. f = [i \in 0 .. Len(rules) |-> ReturnedStep(rules, f, i)]
  BY <1>4
<1> QED
  BY <1>5 DEF Returned, ReturnedStep

\* The parts of the rule that comes after k rules.
PartsAt(k) ==
  LET left == Returned(prog.text)[k]
  IN  SubSeq(left, Len(left) - prog.text[k + 1].n + 1, Len(left))

\* The facts about a rule and what was returned before and after it.
LEMMA RuleFacts ==
  ASSUME prog \in Programs, NEW k \in 0 .. Len(prog.text), k < Len(prog.text)
  PROVE  LET left == Returned(prog.text)[k]
             next == Returned(prog.text)[k + 1]
             rule == prog.text[k + 1]
         IN  /\ Len(left) \in Nat /\ rule.n \in 0 .. Len(left) /\ Len(next) = Len(left) - rule.n + 1
             /\ \A i \in 1 .. Len(left) - rule.n : next[i] = left[i]
             /\ next[Len(next)] = IF rule.do \in {"op=", "++"} THEN "asg" ELSE rule.do
             /\ rule.do = "null" => rule.n = 0
             /\ rule.do = "op=" => rule.n = 2 /\ left[Len(left) - 2 + 1] # "null"
             /\ rule.do = "++" => rule.n = 1 /\ left[Len(left) - 1 + 1] # "null"
             /\ Shape(rule.do, PartsAt(k))
             /\ PartsAt(k) = [j \in 1 .. rule.n |-> left[Len(left) - rule.n + j]]
             /\ rule.do \in Expr \cup Stmts \cup {"op=", "++", "precond", "body", "null"}
             /\ rule.do \in {"const", "create", "def"} => IsType(rule.type)
<1> DEFINE rules == prog.text
           r == Returned(rules)
           kinds == {"asg"} \cup {rules[i].do : i \in DOMAIN rules}
           S == {i \in Nat : i \in 0 .. Len(rules) => r[i] \in Seq(kinds)}
<1>0. rules \in Seq(ToSet(rules))
  BY ProgramsAssumption DEF WellFormed
<1>1. /\ Len(rules) \in Nat /\ DOMAIN rules = 1 .. Len(rules)
      /\ \A i \in DOMAIN rules :
           /\ rules[i].n \in 0 .. Len(r[i - 1])
           /\ Shape(rules[i].do, SubSeq(r[i - 1], Len(r[i - 1]) - rules[i].n + 1, Len(r[i - 1])))
           /\ rules[i].do \in Expr \cup Stmts \cup {"op=", "++", "precond", "body", "null"}
           /\ rules[i].do \in {"const", "create", "def"} => IsType(rules[i].type)
  <2>1. \A i \in DOMAIN rules :
           /\ rules[i].n \in 0 .. Len(r[i - 1])
           /\ Shape(rules[i].do, SubSeq(r[i - 1], Len(r[i - 1]) - rules[i].n + 1, Len(r[i - 1])))
           /\ rules[i].do \in Expr \cup Stmts \cup {"op=", "++", "precond", "body", "null"}
           /\ rules[i].do \in {"const", "create", "def"} => IsType(rules[i].type)
    BY ProgramsAssumption DEF WellFormed
  <2> HIDE DEF rules, r
  <2>2. Len(rules) \in Nat /\ DOMAIN rules = 1 .. Len(rules)
    BY <1>0
  <2> QED
    BY <2>1, <2>2
<1>2. r = [i \in 0 .. Len(rules) |-> ReturnedStep(rules, r, i)]
  BY <1>1, ReturnedDef
<1> HIDE DEF r
<1>3. ASSUME NEW i \in 0 .. Len(rules), i < Len(rules), r[i] \in Seq(kinds)
      PROVE  \E kept \in Seq(kinds), kind \in kinds :
               /\ kind = IF rules[i + 1].do \in {"op=", "++"} THEN "asg" ELSE rules[i + 1].do
               /\ i + 1 \in DOMAIN rules /\ r[i + 1] = Append(kept, kind)
               /\ Len(kept) = Len(r[i]) - rules[i + 1].n
               /\ \A j \in 1 .. Len(kept) : kept[j] = r[i][j]
  <2> DEFINE n == rules[i + 1].n
             kind == IF rules[i + 1].do \in {"op=", "++"} THEN "asg" ELSE rules[i + 1].do
             kept == SubSeq(r[i], 1, Len(r[i]) - n)
  <2>1. i + 1 \in DOMAIN rules /\ i + 1 \in 0 .. Len(rules) /\ i + 1 # 0 /\ (i + 1) - 1 = i
    BY <1>1, <1>3
  <2>2. n \in 0 .. Len(r[i])
    BY <1>1, <2>1
  <2>3. r[i + 1] = Append(kept, kind)
    BY <1>2, <2>1 DEF ReturnedStep
  <2>4. kind \in kinds
    BY <2>1
  <2> HIDE DEF n, kinds
  <2>5. /\ kept \in Seq(kinds) /\ Len(kept) = Len(r[i]) - n
        /\ \A j \in 1 .. Len(kept) : kept[j] = r[i][j]
    BY <1>3, <2>2
  <2>6. Len(kept) = Len(r[i]) - rules[i + 1].n
    BY <2>5 DEF n
  <2>7. kind = IF rules[i + 1].do \in {"op=", "++"} THEN "asg" ELSE rules[i + 1].do
    OBVIOUS
  <2> HIDE DEF kept, kind, rules
  <2> QED
    BY <2>1, <2>3, <2>4, <2>5, <2>6, <2>7
<1>4. 0 \in S
  <2>1. 0 \in 0 .. Len(rules) /\ <<>> \in Seq(kinds)
    BY <1>1
  <2> QED
    BY <1>2, <2>1 DEF ReturnedStep
<1>5. ASSUME NEW i \in Nat, i \in S
      PROVE  i + 1 \in S
  <2> SUFFICES ASSUME i + 1 \in 0 .. Len(rules)
               PROVE  r[i + 1] \in Seq(kinds)
    OBVIOUS
  <2>1. i \in 0 .. Len(rules) /\ i < Len(rules)
    BY <1>1
  <2>2. r[i] \in Seq(kinds)
    BY <1>5, <2>1
  <2> HIDE DEF rules, kinds
  <2>3. PICK kept \in Seq(kinds), kind \in kinds : r[i + 1] = Append(kept, kind)
    BY <1>3, <2>1, <2>2
  <2> QED
    BY <2>3
<1>6. \A i \in Nat : i \in S
  <2> HIDE DEF S
  <2> QED
    BY <1>4, <1>5, Induction
<1>7. r[k] \in Seq(kinds)
  BY <1>6
<1>8. PICK kept \in Seq(kinds), kind \in kinds :
        /\ kind = IF rules[k + 1].do \in {"op=", "++"} THEN "asg" ELSE rules[k + 1].do
        /\ k + 1 \in DOMAIN rules /\ r[k + 1] = Append(kept, kind)
        /\ Len(kept) = Len(r[k]) - rules[k + 1].n
        /\ \A j \in 1 .. Len(kept) : kept[j] = r[k][j]
  <2> HIDE DEF kinds
  <2> QED
    BY <1>3, <1>7
<1>9. (k + 1) - 1 = k
  OBVIOUS
<1> DEFINE rule == rules[k + 1]
           n == rule.n
           parts == SubSeq(r[k], Len(r[k]) - n + 1, Len(r[k]))
<1>10. /\ Len(r[k]) \in Nat /\ n \in 0 .. Len(r[k]) /\ Shape(rule.do, parts)
       /\ rule.do \in Expr \cup Stmts \cup {"op=", "++", "precond", "body", "null"}
       /\ rule.do \in {"const", "create", "def"} => IsType(rule.type)
  <2>1. Len(r[k]) \in Nat
    BY <1>7
  <2>2. /\ rules[k + 1].n \in 0 .. Len(r[(k + 1) - 1])
        /\ Shape(rules[k + 1].do, SubSeq(r[(k + 1) - 1], Len(r[(k + 1) - 1]) - rules[k + 1].n + 1,
                                         Len(r[(k + 1) - 1])))
        /\ rules[k + 1].do \in Expr \cup Stmts \cup {"op=", "++", "precond", "body", "null"}
        /\ rules[k + 1].do \in {"const", "create", "def"} => IsType(rules[k + 1].type)
    BY <1>1, <1>8
  <2> HIDE DEF rules
  <2> QED
    BY <1>9, <2>1, <2>2
<1>12. /\ Len(parts) = n /\ DOMAIN parts = 1 .. n
       /\ \A j \in 1 .. n : parts[j] = r[k][Len(r[k]) - n + j]
       /\ parts = [j \in 1 .. n |-> parts[j]]
  <2> HIDE DEF kinds, n
  <2>1. parts \in Seq(kinds) /\ Len(parts) = n /\ \A j \in 1 .. n : parts[j] = r[k][Len(r[k]) - n + j]
    BY <1>7, <1>10
  <2> HIDE DEF parts
  <2> QED
    BY <2>1
<1>13. parts = PartsAt(k)
  BY DEF PartsAt, r
<1>15. parts = [j \in 1 .. n |-> r[k][Len(r[k]) - n + j]]
  <2> DEFINE here == [j \in 1 .. n |-> r[k][Len(r[k]) - n + j]]
             there == [j \in 1 .. n |-> parts[j]]
  <2> HIDE DEF parts, n, kinds, rule
  <2>1. here = there
    BY <1>12
  <2> QED
    BY <1>12, <2>1
<1>14. /\ rule.do = "null" => n = 0
       /\ rule.do = "op=" => n = 2 /\ r[k][Len(r[k]) - 2 + 1] # "null"
       /\ rule.do = "++" => n = 1 /\ r[k][Len(r[k]) - 1 + 1] # "null"
  <2> HIDE DEF n, parts, rule
  <2>1. CASE rule.do = "null"
    <3>1. Parts("null") = <<>>
      BY DEF Parts
    <3>2. Len(parts) = Len(Parts("null"))
      BY <1>10, <2>1 DEF Shape
    <3> QED
      BY <1>12, <2>1, <3>1, <3>2
  <2>2. CASE rule.do = "op="
    <3> DEFINE want == Parts("op=")
    <3>1. Len(want) = 2 /\ want[1] = Lvalue
      BY DEF Parts
    <3>2. Len(parts) = Len(want) /\ \A j \in DOMAIN parts : parts[j] \in want[j]
      BY <1>10, <2>2 DEF Shape
    <3> HIDE DEF want
    <3>3. n = 2
      BY <1>12, <3>1, <3>2
    <3>4. 1 \in DOMAIN parts
      BY <1>12, <3>3
    <3>5. parts[1] \in Lvalue
      BY <3>1, <3>2, <3>4
    <3>6. parts[1] = r[k][Len(r[k]) - 2 + 1]
      BY <1>12, <3>3
    <3> QED
      BY <2>2, <3>3, <3>5, <3>6 DEF Lvalue
  <2>3. CASE rule.do = "++"
    <3> DEFINE want == Parts("++")
    <3>1. Len(want) = 1 /\ want[1] = Lvalue
      BY DEF Parts
    <3>2. Len(parts) = Len(want) /\ \A j \in DOMAIN parts : parts[j] \in want[j]
      BY <1>10, <2>3 DEF Shape
    <3> HIDE DEF want
    <3>3. n = 1
      BY <1>12, <3>1, <3>2
    <3>4. 1 \in DOMAIN parts
      BY <1>12, <3>3
    <3>5. parts[1] \in Lvalue
      BY <3>1, <3>2, <3>4
    <3>6. parts[1] = r[k][Len(r[k]) - 1 + 1]
      BY <1>12, <3>3
    <3> QED
      BY <2>3, <3>3, <3>5, <3>6 DEF Lvalue
  <2> QED
    BY <2>1, <2>2, <2>3
<1>11. /\ Len(r[k + 1]) = Len(kept) + 1 /\ r[k + 1][Len(r[k + 1])] = kind
       /\ \A i \in 1 .. Len(kept) : r[k + 1][i] = kept[i]
  <2> HIDE DEF rules, kinds
  <2> QED
    BY <1>8
<1> QED
  <2> HIDE DEF kinds, parts
  <2>1. Shape(rule.do, PartsAt(k)) /\ PartsAt(k) = [j \in 1 .. n |-> r[k][Len(r[k]) - n + j]]
    BY <1>10, <1>13, <1>15
  <2> QED
    BY <1>8, <1>10, <1>11, <1>14, <2>1 DEF r

Kept == SubSeq(stack, 1, Len(stack) - Rule.n)

\* What a rule takes from the stack, and what stays.
LEMMA PoppedFacts ==
  ASSUME NodesOK, ParseOK, pc = "parse", text # <<>>
  PROVE  /\ Len(stack) \in Nat /\ Rule.n \in 0 .. Len(stack)
         /\ Operands \in Seq(0 .. Len(nodes)) /\ Len(Operands) = Rule.n
         /\ \A j \in 1 .. Rule.n : Operands[j] = stack[Len(stack) - Rule.n + j]
         /\ Kept \in Seq(0 .. Len(nodes)) /\ Len(Kept) = Len(stack) - Rule.n
         /\ \A i \in 1 .. Len(Kept) : Kept[i] = stack[i]
         /\ ToSet(stack) = ToSet(Kept) \cup ToSet(Operands)
         /\ Rule.do = "null" => Rule.n = 0
         /\ Rule.do = "op=" => Rule.n = 2 /\ Operands[1] # 0
         /\ Rule.do = "++" => Rule.n = 1 /\ Operands[1] # 0
         /\ \E k \in 0 .. Len(prog.text) :
              /\ k < Len(prog.text) /\ Visited(k) /\ Rule = prog.text[k + 1]
              /\ Tail(text) = SubSeq(prog.text, k + 2, Len(prog.text))
<1>1. PICK k \in 0 .. Len(prog.text) : Visited(k)
  BY DEF ParseOK
<1>2. prog.text \in Seq(ToSet(prog.text)) /\ Len(prog.text) \in Nat /\ prog \in Programs
  BY ProgramsAssumption DEF NodesOK, WellFormed
<1> DEFINE left == Returned(prog.text)[k]
<1>3. /\ text = SubSeq(prog.text, k + 1, Len(prog.text))
      /\ Len(stack) = Len(left) /\ \A i \in 1 .. Len(left) : stack[i] = 0 <=> left[i] = "null"
  BY <1>1 DEF Visited
<1>4. k < Len(prog.text) /\ Rule = prog.text[k + 1] /\ Tail(text) = SubSeq(prog.text, k + 2, Len(prog.text))
  <2>1. PICK T : prog.text \in Seq(T)
    BY <1>2
  <2>2. CASE k = Len(prog.text)
    BY <1>2, <1>3, <2>1, <2>2
  <2>3. CASE k < Len(prog.text)
    <3>1. text # <<>> /\ Len(text) = Len(prog.text) - k /\ Head(text) = prog.text[k + 1]
      BY <1>2, <1>3, <2>1, <2>3
    <3>2. Tail(text) = SubSeq(prog.text, k + 2, Len(prog.text))
      BY <1>2, <1>3, <2>1, <2>3
    <3> QED
      BY <2>3, <3>1, <3>2 DEF Rule
  <2> QED
    BY <1>2, <2>2, <2>3
<1>5. /\ Len(left) \in Nat /\ Rule.n \in 0 .. Len(left)
      /\ Rule.do = "null" => Rule.n = 0
      /\ Rule.do = "op=" => Rule.n = 2 /\ left[Len(left) - 2 + 1] # "null"
      /\ Rule.do = "++" => Rule.n = 1 /\ left[Len(left) - 1 + 1] # "null"
  BY <1>2, <1>4, RuleFacts
<1> HIDE DEF left
<1>6. stack \in Seq(0 .. Len(nodes)) /\ Len(stack) \in Nat /\ Rule.n \in 0 .. Len(stack)
  BY <1>3, <1>5 DEF ParseOK
<1>7. /\ Operands \in Seq(0 .. Len(nodes)) /\ Len(Operands) = Rule.n
      /\ \A j \in 1 .. Rule.n : Operands[j] = stack[Len(stack) - Rule.n + j]
  <2> DEFINE n == Rule.n
  <2>1. n \in 0 .. Len(stack)
    BY <1>6
  <2>2. Operands = SubSeq(stack, Len(stack) - n + 1, Len(stack))
    BY DEF Operands
  <2> HIDE DEF n
  <2>3. Operands \in Seq(0 .. Len(nodes)) /\ Len(Operands) = n
        /\ \A j \in 1 .. n : Operands[j] = stack[Len(stack) - n + j]
    <3> DEFINE D == 0 .. Len(nodes)
               part == SubSeq(stack, Len(stack) - n + 1, Len(stack))
    <3>1. stack \in Seq(D) /\ Len(stack) \in Nat
      BY <1>6
    <3> HIDE DEF D
    <3>2. part \in Seq(D) /\ Len(part) = n
      BY <2>1, <3>1
    <3>3. \A j \in 1 .. n : part[j] = stack[Len(stack) - n + j]
      BY <2>1, <3>1
    <3> HIDE DEF part
    <3> QED
      BY <2>2, <3>2, <3>3 DEF D, part
  <2> QED
    BY <2>3 DEF n
<1>8. /\ Kept \in Seq(0 .. Len(nodes)) /\ Len(Kept) = Len(stack) - Rule.n
      /\ \A i \in 1 .. Len(Kept) : Kept[i] = stack[i]
  <2> DEFINE n == Rule.n
  <2>1. n \in 0 .. Len(stack)
    BY <1>6
  <2>2. Kept = SubSeq(stack, 1, Len(stack) - n)
    BY DEF Kept
  <2> HIDE DEF n
  <2>3. Kept \in Seq(0 .. Len(nodes)) /\ Len(Kept) = Len(stack) - n
        /\ \A i \in 1 .. Len(Kept) : Kept[i] = stack[i]
    <3> DEFINE D == 0 .. Len(nodes)
               part == SubSeq(stack, 1, Len(stack) - n)
    <3>1. stack \in Seq(D) /\ Len(stack) \in Nat
      BY <1>6
    <3> HIDE DEF D
    <3>2. part \in Seq(D) /\ Len(part) = Len(stack) - n
      BY <2>1, <3>1
    <3>3. \A i \in 1 .. Len(stack) - n : part[i] = stack[i]
      BY <2>1, <3>1
    <3> HIDE DEF part
    <3> QED
      BY <2>2, <3>2, <3>3 DEF D, part
  <2> QED
    BY <2>3 DEF n
<1>9. ToSet(stack) = ToSet(Kept) \cup ToSet(Operands)
  <2>1. DOMAIN stack = 1 .. Len(stack) /\ DOMAIN Kept = 1 .. Len(Kept) /\ DOMAIN Operands = 1 .. Len(Operands)
    BY <1>6, <1>7, <1>8
  <2>2. ToSet(Kept) \subseteq ToSet(stack)
    BY <1>6, <1>8, <2>1 DEF ToSet
  <2>3. ToSet(Operands) \subseteq ToSet(stack)
    <3>1. \A j \in 1 .. Rule.n : Len(stack) - Rule.n + j \in 1 .. Len(stack)
      BY <1>6
    <3> QED
      BY <1>7, <2>1, <3>1 DEF ToSet
  <2>4. ToSet(stack) \subseteq ToSet(Kept) \cup ToSet(Operands)
    <3> SUFFICES ASSUME NEW i \in 1 .. Len(stack)
                 PROVE  stack[i] \in ToSet(Kept) \cup ToSet(Operands)
      BY <2>1 DEF ToSet
    <3>1. CASE i <= Len(stack) - Rule.n
      <4>1. i \in DOMAIN Kept /\ Kept[i] = stack[i]
        BY <1>6, <1>8, <2>1, <3>1
      <4> QED
        BY <4>1 DEF ToSet
    <3>2. CASE ~ (i <= Len(stack) - Rule.n)
      <4> DEFINE j == i - (Len(stack) - Rule.n)
      <4>0. Len(stack) \in Nat /\ Rule.n \in 0 .. Len(stack)
        BY <1>6
      <4>1. j \in 1 .. Rule.n /\ Len(stack) - Rule.n + j = i
        BY <3>2, <4>0
      <4>2. j \in DOMAIN Operands /\ Operands[j] = stack[i]
        BY <1>7, <2>1, <4>1
      <4> QED
        BY <4>2 DEF ToSet
    <3> QED
      BY <3>1, <3>2
  <2> QED
    BY <2>2, <2>3, <2>4
<1>10. Rule.do = "op=" => Rule.n = 2 /\ Operands[1] # 0
  <2>1. ASSUME Rule.do = "op=" PROVE Operands[1] = stack[Len(stack) - 2 + 1]
    <3>1. Rule.n = 2 /\ 1 \in 1 .. Rule.n
      BY <1>5, <2>1
    <3>2. Operands[1] = stack[Len(stack) - Rule.n + 1]
      BY <1>7, <3>1
    <3> QED
      BY <3>1, <3>2
  <2>2. ASSUME Rule.do = "op=" PROVE Len(left) - 2 + 1 \in 1 .. Len(left)
    BY <1>5, <2>2
  <2> QED
    BY <1>3, <1>5, <2>1, <2>2
<1>11. Rule.do = "++" => Rule.n = 1 /\ Operands[1] # 0
  <2>1. ASSUME Rule.do = "++" PROVE Operands[1] = stack[Len(stack) - 1 + 1]
    <3>1. Rule.n = 1 /\ 1 \in 1 .. Rule.n
      BY <1>5, <2>1
    <3>2. Operands[1] = stack[Len(stack) - Rule.n + 1]
      BY <1>7, <3>1
    <3> QED
      BY <3>1, <3>2
  <2>2. ASSUME Rule.do = "++" PROVE Len(left) - 1 + 1 \in 1 .. Len(left)
    BY <1>5, <2>2
  <2> QED
    BY <1>3, <1>5, <2>1, <2>2
<1> QED
  BY <1>1, <1>4, <1>5, <1>6, <1>7, <1>8, <1>9, <1>10, <1>11

-----------------------------------------------------------------------------
(* Steps of the visitor.                                                   *)

\* Nodes that are added at the end, each with children before it.
LEMMA MoreNodes ==
  ASSUME NodesOK, prog' = prog, NEW T, NEW more \in Seq(T), nodes' = nodes \o more,
         \A i \in 1 .. Len(more) : "kids" \in DOMAIN more[i] /\ more[i].kids \in Seq(0 .. Len(nodes) + i - 1)
  PROVE  /\ NodesOK' /\ Len(nodes) \in Nat /\ Len(nodes') = Len(nodes) + Len(more)
         /\ DOMAIN nodes = 1 .. Len(nodes) /\ DOMAIN nodes' = 1 .. Len(nodes')
         /\ \A n \in DOMAIN nodes : nodes'[n] = nodes[n]
         /\ \A i \in 1 .. Len(more) : nodes'[Len(nodes) + i] = more[i]
<1>1. PICK T0 : nodes \in Seq(T0)
  BY DEF NodesOK
<1> DEFINE both == nodes \o more
<1>2. /\ Len(nodes) \in Nat /\ Len(more) \in Nat /\ both \in Seq(T0 \cup T)
      /\ Len(both) = Len(nodes) + Len(more)
      /\ \A n \in 1 .. Len(nodes) : both[n] = nodes[n]
      /\ \A i \in 1 .. Len(more) : both[Len(nodes) + i] = more[i]
  <2>1. nodes \in Seq(T0 \cup T) /\ more \in Seq(T0 \cup T)
    BY <1>1
  <2> QED
    BY <2>1
<1>3. DOMAIN nodes = 1 .. Len(nodes) /\ DOMAIN both = 1 .. Len(both) /\ nodes' = both
  BY <1>1, <1>2
<1> HIDE DEF both
<1>4. ASSUME NEW n \in DOMAIN nodes'
      PROVE  "kids" \in DOMAIN nodes'[n] /\ nodes'[n].kids \in Seq(0 .. n - 1)
  <2>1. CASE n \in 1 .. Len(nodes)
    BY <1>2, <1>3, <2>1 DEF NodesOK
  <2>2. CASE ~ (n \in 1 .. Len(nodes))
    <3>1. PICK i \in 1 .. Len(more) : n = Len(nodes) + i
      <4>1. n - Len(nodes) \in 1 .. Len(more) /\ n = Len(nodes) + (n - Len(nodes))
        BY <1>2, <1>3, <2>2
      <4> QED
        BY <4>1
    <3>2. nodes'[n] = more[i] /\ n - 1 = Len(nodes) + i - 1
      BY <1>2, <1>3, <3>1
    <3> QED
      BY <3>2
  <2> QED
    BY <2>1, <2>2
<1>5. prog \in Programs /\ Len(prog.args) <= Len(nodes)
  BY DEF NodesOK
<1>6. Len(prog.args) \in Nat
  BY <1>5, ProgramsAssumption DEF WellFormed
<1>7. Len(prog.args) <= Len(nodes')
  BY <1>2, <1>3, <1>5, <1>6
<1>8. \E S : nodes' \in Seq(S)
  BY <1>2, <1>3
<1>9. NodesOK'
  BY <1>4, <1>5, <1>7, <1>8 DEF NodesOK
<1> QED
  BY <1>2, <1>3, <1>9

\* What a rule does: it takes its parts from the stack, each gets a parent, and
\* leaves one node there; every other node it creates has a parent.
RuleDone(new) ==
  /\ pc' = pc /\ prog' = prog /\ freed' = freed /\ text' = Tail(text) /\ Push(new)
  /\ Len(nodes) <= Len(nodes') /\ \A n \in DOMAIN nodes : nodes'[n] = nodes[n]
  /\ new \in 0 .. Len(nodes') /\ (new = 0 <=> Rule.do = "null")
  /\ \A n \in ToSet(Operands) \ {0} : HasParent(n)'
  /\ \A n \in DOMAIN nodes' \ DOMAIN nodes : n = new \/ HasParent(n)'

LEMMA Parsed ==
  ASSUME IInv, pc = "parse", text # <<>>, NEW new, NodesOK', RuleDone(new)
  PROVE  IInv'
<1>0. /\ pc' = "parse" /\ prog' = prog /\ freed' = freed /\ text' = Tail(text) /\ stack' = Append(Kept, new)
      /\ Len(nodes) <= Len(nodes') /\ \A n \in DOMAIN nodes : nodes'[n] = nodes[n]
      /\ new \in 0 .. Len(nodes') /\ (new = 0 <=> Rule.do = "null")
  BY DEF RuleDone, Push, Kept
<1>1. /\ Len(nodes) \in Nat /\ Len(nodes') \in Nat
      /\ DOMAIN nodes = 1 .. Len(nodes) /\ DOMAIN nodes' = 1 .. Len(nodes')
  BY DEF IInv, NodesOK
<1>2. /\ Len(stack) \in Nat /\ Rule.n \in 0 .. Len(stack)
      /\ Kept \in Seq(0 .. Len(nodes)) /\ Len(Kept) = Len(stack) - Rule.n
      /\ \A i \in 1 .. Len(Kept) : Kept[i] = stack[i]
      /\ ToSet(stack) = ToSet(Kept) \cup ToSet(Operands)
  BY PoppedFacts DEF IInv
<1>3. /\ stack' \in Seq(0 .. Len(nodes')) /\ Len(stack') = Len(Kept) + 1 /\ stack'[Len(Kept) + 1] = new
      /\ \A i \in 1 .. Len(Kept) : stack'[i] = Kept[i]
      /\ ToSet(stack') = ToSet(Kept) \cup {new}
  <2> DEFINE D == 0 .. Len(nodes')
             one == <<new>>
             s == Kept \o one
  <2>0. 0 .. Len(nodes) \subseteq D /\ new \in D
    BY <1>0, <1>1
  <2>1. Kept \in Seq(D) /\ one \in Seq(D)
    <3> DEFINE C == 0 .. Len(nodes)
    <3>1. Kept \in Seq(C) /\ C \subseteq D
      BY <1>2, <2>0
    <3> HIDE DEF C, D
    <3>2. Kept \in Seq(D)
      BY <3>1
    <3>3. one \in Seq(D)
      BY <2>0
    <3> QED
      BY <3>2, <3>3
  <2>2. stack' = s
    <3> HIDE DEF D
    <3> QED
      BY <1>0, <2>1
  <2>3. s \in Seq(D) /\ ToSet(s) = ToSet(Kept) \cup ToSet(one)
    <3> HIDE DEF one, D
    <3> QED
      BY <2>1, ConcatElements
  <2>4. ToSet(one) = {new}
    BY DEF ToSet
  <2>5. /\ Len(s) = Len(Kept) + 1 /\ s[Len(Kept) + 1] = new
        /\ \A i \in 1 .. Len(Kept) : s[i] = Kept[i]
    <3> HIDE DEF D
    <3> QED
      BY <2>1
  <2> HIDE DEF s
  <2> QED
    BY <2>2, <2>3, <2>4, <2>5
<1>4. ASSUME NEW n \in DOMAIN nodes, HasParent(n)
      PROVE  HasParent(n)'
  BY <1>0, <1>1, <1>4 DEF HasParent, Kids
<1>5. ASSUME NEW n \in DOMAIN nodes'
      PROVE  n \in Args \/ n \in ToSet(stack') \/ HasParent(n)'
  <2>1. CASE n \in DOMAIN nodes
    <3>1. n \in Args \/ n \in ToSet(stack) \/ HasParent(n)
      BY <1>0, <2>1 DEF IInv, ParseOK
    <3>2. n \in ToSet(Operands) => HasParent(n)'
      BY <1>1, <2>1 DEF RuleDone
    <3> QED
      BY <1>2, <1>3, <1>4, <2>1, <3>1, <3>2
  <2>2. CASE n \notin DOMAIN nodes
    <3>1. n = new \/ HasParent(n)'
      BY <2>2 DEF RuleDone
    <3> QED
      BY <1>3, <3>1
  <2> QED
    BY <2>1, <2>2
<1>6. \E k \in 0 .. Len(prog.text) : Visited(k)'
  <2>1. PICK k \in 0 .. Len(prog.text) :
          /\ k < Len(prog.text) /\ Visited(k) /\ Rule = prog.text[k + 1]
          /\ Tail(text) = SubSeq(prog.text, k + 2, Len(prog.text))
    BY PoppedFacts DEF IInv
  <2> DEFINE left == Returned(prog.text)[k]
             next == Returned(prog.text)[k + 1]
  <2>2. /\ Len(left) \in Nat /\ Len(next) = Len(left) - Rule.n + 1
        /\ \A i \in 1 .. Len(left) - Rule.n : next[i] = left[i]
        /\ next[Len(next)] = IF Rule.do \in {"op=", "++"} THEN "asg" ELSE Rule.do
    BY <2>1, RuleFacts DEF IInv, NodesOK
  <2>3. Len(stack) = Len(left) /\ \A i \in 1 .. Len(left) : stack[i] = 0 <=> left[i] = "null"
    BY <2>1 DEF Visited
  <2>4. k + 1 \in 0 .. Len(prog.text) /\ (k + 1) + 1 = k + 2
    BY <2>1
  <2>5. next[Len(next)] = "null" <=> Rule.do = "null"
    BY <2>2
  <2> HIDE DEF left, next
  <2>6. Len(stack') = Len(next)
    BY <1>2, <1>3, <2>2, <2>3
  <2>7. ASSUME NEW i \in 1 .. Len(next)
        PROVE  stack'[i] = 0 <=> next[i] = "null"
    <3>1. CASE i = Len(next)
      BY <1>0, <1>3, <2>5, <2>6, <3>1
    <3>2. CASE i # Len(next)
      <4>0. /\ Len(stack) \in Nat /\ Rule.n \in 0 .. Len(stack) /\ Len(Kept) = Len(stack) - Rule.n
            /\ Len(left) = Len(stack) /\ Len(next) = Len(left) - Rule.n + 1
        BY <1>2, <2>2, <2>3
      <4>1. i \in 1 .. Len(Kept) /\ i \in 1 .. Len(left) /\ i \in 1 .. Len(left) - Rule.n
        BY <3>2, <4>0
      <4> QED
        BY <1>2, <1>3, <2>2, <2>3, <4>1
    <3> QED
      BY <3>1, <3>2
  <2>8. text' = SubSeq(prog'.text, (k + 1) + 1, Len(prog'.text))
    BY <1>0, <2>1, <2>4
  <2>9. Visited(k + 1)'
    BY <1>0, <2>6, <2>7, <2>8 DEF Visited, next
  <2> QED
    BY <2>4, <2>9
<1>7. freed' = {}
  BY <1>0 DEF IInv, ParseOK
<1>8. ParseOK'
  BY <1>0, <1>3, <1>5, <1>6, <1>7 DEF ParseOK, Args
<1> QED
  BY <1>0, <1>8 DEF IInv, RootOK, DeleteOK

LEMMA LeaveOutOK ==
  ASSUME IInv, LeaveOut
  PROVE  IInv' /\ RuleDone(0)
<1>1. /\ pc = "parse" /\ text # <<>> /\ Rule.do = "null" /\ Push(0) /\ text' = Tail(text)
      /\ UNCHANGED <<pc, prog, nodes, freed>>
  BY DEF LeaveOut, Parsing
<1>2. NodesOK'
  BY <1>1 DEF IInv, NodesOK
<1>3. Operands \in Seq(0 .. Len(nodes)) /\ Len(Operands) = 0
  BY <1>1, PoppedFacts DEF IInv
<1>4. ToSet(Operands) = {}
  BY <1>3 DEF ToSet
<1>5. Len(nodes) \in Nat
  BY DEF IInv, NodesOK
<1>6. RuleDone(0)
  BY <1>1, <1>4, <1>5 DEF RuleDone
<1> QED
  BY <1>1, <1>2, <1>6, Parsed

LEMMA ConstructOK ==
  ASSUME IInv, Construct
  PROVE  /\ IInv' /\ RuleDone(Len(nodes) + 1)
         /\ Len(nodes') = Len(nodes) + 1 /\ nodes'[Len(nodes) + 1].kids = Operands
<1>1. /\ pc = "parse" /\ text # <<>> /\ Rule.do \in Plain /\ text' = Tail(text) /\ Push(Len(nodes) + 1)
      /\ nodes' = Append(nodes, Node(Rule.do, Rule.name, Rule.type, Operands))
      /\ UNCHANGED <<pc, prog, freed>>
  BY DEF Construct, Parsing
<1>2. Operands \in Seq(0 .. Len(nodes)) /\ Len(nodes) \in Nat
  BY <1>1, PoppedFacts DEF IInv, NodesOK
<1> DEFINE node == Node(Rule.do, Rule.name, Rule.type, Operands)
           more == <<node>>
<1>3. node.kids = Operands /\ "kids" \in DOMAIN node
  BY DEF Node
<1> HIDE DEF node
<1>4. more \in Seq({node}) /\ Len(more) = 1 /\ more[1] = node /\ nodes' = nodes \o more
  <2>1. PICK T : nodes \in Seq(T)
    BY DEF IInv, NodesOK
  <2>2. nodes' = Append(nodes, node)
    BY <1>1 DEF node
  <2> QED
    BY <2>1, <2>2
<1> HIDE DEF more
<1>5. \A i \in 1 .. Len(more) : "kids" \in DOMAIN more[i] /\ more[i].kids \in Seq(0 .. Len(nodes) + i - 1)
  <2>1. Len(nodes) + 1 - 1 = Len(nodes)
    BY <1>2
  <2> QED
    BY <1>2, <1>3, <1>4, <2>1
<1>6. /\ NodesOK' /\ Len(nodes') = Len(nodes) + Len(more)
      /\ DOMAIN nodes = 1 .. Len(nodes) /\ DOMAIN nodes' = 1 .. Len(nodes')
      /\ \A n \in DOMAIN nodes : nodes'[n] = nodes[n]
      /\ \A i \in 1 .. Len(more) : nodes'[Len(nodes) + i] = more[i]
  BY <1>1, <1>4, <1>5, MoreNodes DEF IInv
<1>7. Len(nodes') = Len(nodes) + 1 /\ nodes'[Len(nodes) + 1].kids = Operands
  BY <1>3, <1>4, <1>6
<1>8. ASSUME NEW n \in ToSet(Operands) \ {0}
      PROVE  HasParent(n)'
  BY <1>2, <1>6, <1>7 DEF HasParent, Kids
<1>9. RuleDone(Len(nodes) + 1)
  <2>1. Rule.do # "null" /\ Len(nodes) + 1 # 0 /\ Len(nodes) + 1 \in 0 .. Len(nodes')
    BY <1>1, <1>2, <1>7 DEF Plain
  <2>2. \A n \in DOMAIN nodes' \ DOMAIN nodes : n = Len(nodes) + 1
    BY <1>2, <1>6, <1>7
  <2>3. Len(nodes) <= Len(nodes')
    BY <1>2, <1>7
  <2> QED
    BY <1>1, <1>6, <1>8, <2>1, <2>2, <2>3 DEF RuleDone
<1> QED
  BY <1>1, <1>6, <1>7, <1>9, Parsed

LEMMA ConstructLookupOK ==
  ASSUME IInv, ConstructLookup
  PROVE  /\ IInv' /\ RuleDone(Len(nodes) + 2)
         /\ Len(nodes') = Len(nodes) + 2 /\ nodes'[Len(nodes) + 1].kids = <<>>
         /\ nodes'[Len(nodes) + 2].kids = <<Len(nodes) + 1>> \o Operands
<1> DEFINE L == Len(nodes)
           kids == <<L + 1>> \o Operands
           ident == Node("ident", Rule.name, <<>>, <<>>)
           node == Node(Rule.do, Rule.type[1], <<>>, kids)
           more == <<ident, node>>
<1>1. /\ pc = "parse" /\ text # <<>> /\ Rule.do \in {"lookup", "prop"} /\ text' = Tail(text)
      /\ Push(L + 1 + 1) /\ nodes' = nodes \o more
      /\ UNCHANGED <<pc, prog, freed>>
  BY DEF ConstructLookup, Parsing
<1>2. Operands \in Seq(0 .. L) /\ L \in Nat
  BY <1>1, PoppedFacts DEF IInv, NodesOK
<1> HIDE DEF L
<1>3. /\ kids \in Seq(0 .. L + 1) /\ Len(kids) = Len(Operands) + 1 /\ kids[1] = L + 1
      /\ ToSet(kids) = {L + 1} \cup ToSet(Operands)
  <2> DEFINE one == <<L + 1>>
             D == 0 .. L + 1
  <2>1. Operands \in Seq(D) /\ one \in Seq(D)
    BY <1>2
  <2>2. ToSet(one) = {L + 1}
    BY DEF ToSet
  <2>3. Len(kids) = Len(Operands) + 1 /\ kids[1] = L + 1
    <3> HIDE DEF D
    <3> QED
      BY <2>1
  <2>4. kids = one \o Operands
    OBVIOUS
  <2> HIDE DEF one, D, kids
  <2>5. one \o Operands \in Seq(D) /\ ToSet(one \o Operands) = ToSet(one) \cup ToSet(Operands)
    BY <2>1, ConcatElements
  <2> QED
    BY <2>2, <2>3, <2>4, <2>5 DEF D
<1> HIDE DEF kids
<1>4. /\ ident.kids = <<>> /\ "kids" \in DOMAIN ident
      /\ node.kids = kids /\ "kids" \in DOMAIN node
  BY DEF Node
<1> HIDE DEF ident, node
<1>5. more \in Seq({ident, node}) /\ Len(more) = 2 /\ more[1] = ident /\ more[2] = node
  OBVIOUS
<1> HIDE DEF more
<1>6. \A i \in 1 .. Len(more) : "kids" \in DOMAIN more[i] /\ more[i].kids \in Seq(0 .. L + i - 1)
  <2>1. L + 2 - 1 = L + 1 /\ <<>> \in Seq(0 .. L + 1 - 1)
    BY <1>2
  <2>2. \A i \in 1 .. 2 : i = 1 \/ i = 2
    OBVIOUS
  <2> QED
    BY <1>3, <1>4, <1>5, <2>1, <2>2
<1>7. /\ NodesOK' /\ Len(nodes') = L + Len(more)
      /\ DOMAIN nodes = 1 .. L /\ DOMAIN nodes' = 1 .. Len(nodes')
      /\ \A n \in DOMAIN nodes : nodes'[n] = nodes[n]
      /\ \A i \in 1 .. Len(more) : nodes'[L + i] = more[i]
  BY <1>1, <1>5, <1>6, MoreNodes DEF IInv, L
<1>8. Len(nodes') = L + 2 /\ nodes'[L + 1].kids = <<>> /\ nodes'[L + 2].kids = kids
  BY <1>4, <1>5, <1>7
<1>9. ASSUME NEW n \in {L + 1} \cup (ToSet(Operands) \ {0})
      PROVE  HasParent(n)'
  <2>1. n \in ToSet(kids) /\ n # 0
    BY <1>2, <1>3
  <2>2. L + 2 \in DOMAIN nodes'
    BY <1>2, <1>7, <1>8
  <2>3. n \in ToSet(nodes'[L + 2].kids) \ {0}
    BY <1>8, <2>1
  <2> QED
    BY <2>2, <2>3 DEF HasParent, Kids
<1>10. RuleDone(L + 2)
  <2>1. Rule.do # "null" /\ L + 2 # 0 /\ L + 2 \in 0 .. Len(nodes') /\ L + 1 + 1 = L + 2
    BY <1>1, <1>2, <1>8
  <2>2. \A n \in DOMAIN nodes' \ DOMAIN nodes : n = L + 2 \/ n = L + 1
    BY <1>2, <1>7, <1>8
  <2>3. L <= Len(nodes')
    BY <1>2, <1>8
  <2> QED
    BY <1>1, <1>7, <1>9, <2>1, <2>2, <2>3 DEF RuleDone, L
<1>11. IInv'
  BY <1>1, <1>7, <1>10, Parsed
<1> QED
  BY <1>8, <1>10, <1>11 DEF L, kids

-----------------------------------------------------------------------------
(* copy().                                                                 *)

CopiesStep(f, n) == IF Copied(n) THEN {n} \cup UNION {f[k] : k \in Kids(n)} ELSE {}

LEMMA KidsBefore ==
  ASSUME NodesOK
  PROVE  /\ Len(nodes) \in Nat /\ DOMAIN nodes = 1 .. Len(nodes)
         /\ \A n \in DOMAIN nodes : Kids(n) \subseteq 1 .. n - 1
<1>1. Len(nodes) \in Nat /\ DOMAIN nodes = 1 .. Len(nodes)
  BY DEF NodesOK
<1>2. ASSUME NEW n \in DOMAIN nodes, NEW k \in Kids(n)
      PROVE  k \in 1 .. n - 1
  <2> DEFINE kids == nodes[n].kids
             D == 0 .. n - 1
  <2>1. kids \in Seq(D)
    BY DEF NodesOK
  <2>2. \A i \in DOMAIN kids : kids[i] \in D
    <3> HIDE DEF kids, D
    <3> QED
      BY <2>1
  <2>3. k # 0 /\ \E i \in DOMAIN kids : k = kids[i]
    BY DEF Kids, ToSet
  <2> HIDE DEF kids
  <2> QED
    BY <1>1, <2>2, <2>3
<1> QED
  BY <1>1, <1>2

\* The set of what is copied is what its recursion says, as children are created
\* before their parents.
LEMMA CopiesDef ==
  ASSUME NodesOK
  PROVE  Copies = [n \in DOMAIN nodes |-> CopiesStep(Copies, n)]
<1> DEFINE Def(f, n) == /\ f = [i \in 1 .. n |-> f[i]]
                        /\ \A i \in 1 .. n : f[i] = CopiesStep(f, i)
           S == {n \in Nat : n <= Len(nodes) => \E f : Def(f, n)}
<1>0. /\ Len(nodes) \in Nat /\ DOMAIN nodes = 1 .. Len(nodes)
      /\ \A n \in DOMAIN nodes : Kids(n) \subseteq 1 .. n - 1
  BY KidsBefore
<1>1. 0 \in S
  <2>1. Def([i \in 1 .. 0 |-> {}], 0)
    OBVIOUS
  <2> QED
    BY <2>1
<1>2. ASSUME NEW n \in Nat, n \in S
      PROVE  n + 1 \in S
  <2> SUFFICES ASSUME n + 1 <= Len(nodes)
               PROVE  \E g : Def(g, n + 1)
    OBVIOUS
  <2>1. PICK f : Def(f, n)
    BY <1>0, <1>2
  <2> DEFINE g == [i \in 1 .. n + 1 |-> IF i = n + 1 THEN CopiesStep(f, n + 1) ELSE f[i]]
  <2>2. g = [i \in 1 .. n + 1 |-> g[i]]
    OBVIOUS
  <2>3. g[n + 1] = CopiesStep(f, n + 1) /\ \A i \in 1 .. n : g[i] = f[i]
    OBVIOUS
  <2> HIDE DEF g
  <2>4. ASSUME NEW i \in 1 .. n + 1
        PROVE  g[i] = CopiesStep(g, i)
    <3>1. \A k \in Kids(i) : k \in 1 .. n
      BY <1>0
    <3>2. {g[k] : k \in Kids(i)} = {f[k] : k \in Kids(i)}
      BY <2>3, <3>1
    <3>3. CopiesStep(g, i) = CopiesStep(f, i)
      BY <3>2 DEF CopiesStep
    <3>4. CASE i = n + 1
      BY <2>3, <3>3, <3>4
    <3>5. CASE i # n + 1
      <4>1. i \in 1 .. n
        BY <3>5
      <4> QED
        BY <2>1, <2>3, <3>3, <4>1
    <3> QED
      BY <3>4, <3>5
  <2>5. Def(g, n + 1)
    BY <2>2, <2>4
  <2> HIDE DEF Def
  <2> QED
    BY <2>5
<1>3. \A n \in Nat : n \in S
  <2> HIDE DEF S
  <2> QED
    BY <1>1, <1>2, Induction
<1>4. PICK f : Def(f, Len(nodes))
  BY <1>0, <1>3
<1>5. f = [n \in DOMAIN nodes |-> CopiesStep(f, n)]
  BY <1>0, <1>4
<1> QED
  BY <1>5 DEF Copies, CopiesStep

\* The nodes that are copied: the last one is the node itself, and every other
\* one is a child of one of them.
LEMMA CopiesFacts ==
  ASSUME NodesOK, NEW n \in DOMAIN nodes
  PROVE  /\ Copies[n] \subseteq 1 .. n
         /\ Copies[n] # {} => n \in Copies[n]
         /\ \A k \in Copies[n] \ {n} : \E m \in Copies[n] : k \in Kids(m)
<1> DEFINE Fact(i) == /\ Copies[i] \subseteq 1 .. i
                      /\ Copies[i] # {} => i \in Copies[i]
                      /\ \A k \in Copies[i] \ {i} : \E m \in Copies[i] : k \in Kids(m)
           S == {i \in Nat : i \in DOMAIN nodes => Fact(i)}
<1>1. /\ Len(nodes) \in Nat /\ DOMAIN nodes = 1 .. Len(nodes)
      /\ \A i \in DOMAIN nodes : Kids(i) \subseteq 1 .. i - 1
  BY KidsBefore
<1>2. \A i \in DOMAIN nodes : Copies[i] = CopiesStep(Copies, i)
  BY CopiesDef
<1>3. ASSUME NEW i \in Nat, \A k \in Nat : k < i => k \in S
      PROVE  i \in S
  <2> SUFFICES ASSUME i \in DOMAIN nodes
               PROVE  Fact(i)
    OBVIOUS
  <2>1. \A k \in Kids(i) : k \in Nat /\ k < i /\ k \in DOMAIN nodes
    BY <1>1
  <2>2. \A k \in Kids(i) : Fact(k)
    BY <1>3, <2>1
  <2>3. CASE ~ Copied(i)
    BY <1>2, <2>3 DEF CopiesStep
  <2>4. CASE Copied(i)
    <3>1. Copies[i] = {i} \cup UNION {Copies[k] : k \in Kids(i)}
      BY <1>2, <2>4 DEF CopiesStep
    <3>2. Copies[i] \subseteq 1 .. i
      <4>1. \A k \in Kids(i) : 1 .. k \subseteq 1 .. i
        BY <2>1
      <4>2. i \in 1 .. i
        BY <1>1
      <4> QED
        BY <2>2, <3>1, <4>1, <4>2
    <3>3. ASSUME NEW k \in Copies[i] \ {i}
          PROVE  \E m \in Copies[i] : k \in Kids(m)
      <4>1. PICK c \in Kids(i) : k \in Copies[c]
        BY <3>1
      <4>2. CASE k = c
        BY <3>1, <4>2
      <4>3. CASE k # c
        BY <2>2, <3>1, <4>1, <4>3
      <4> QED
        BY <4>2, <4>3
    <3> QED
      BY <3>1, <3>2, <3>3
  <2> QED
    BY <2>3, <2>4
<1>4. \A i \in Nat : i \in S
  <2> HIDE DEF S
  <2> QED
    BY <1>3, StrongInduction
<1> QED
  BY <1>1, <1>4

Old(n) == Among([i \in DOMAIN nodes |-> i], Copies[n])
Place(n, k) == CHOOSE i \in DOMAIN Old(n) : Old(n)[i] = k
NewOf(n, k) == IF k \in Copies[n] THEN Len(nodes) + Place(n, k) ELSE k

\* The copied nodes in the order of their creation.
LEMMA OldFacts ==
  ASSUME NodesOK, NEW n \in DOMAIN nodes
  PROVE  /\ Old(n) \in Seq(Nat) /\ ToSet(Old(n)) = Copies[n]
         /\ Ordered(Old(n), Less)
<1> DEFINE s == [i \in DOMAIN nodes |-> i]
<1>1. /\ Len(nodes) \in Nat /\ DOMAIN nodes = 1 .. Len(nodes)
      /\ \A i \in DOMAIN nodes : Kids(i) \subseteq 1 .. i - 1
  BY KidsBefore
<1>2. s \in Seq(Nat) /\ Len(s) = Len(nodes) /\ \A i \in 1 .. Len(nodes) : s[i] = i
  BY <1>1
<1>3. ToSet(s) = 1 .. Len(nodes)
  BY <1>1 DEF ToSet
<1> HIDE DEF s
<1>4. Ordered(s, Less)
  <2>1. \A i, j \in 1 .. Len(s) : i < j => <<i, j>> \in Less
    BY <1>1, <1>2 DEF Less
  <2> QED
    BY <1>2, <2>1 DEF Ordered
<1>5. Old(n) = Among(s, Copies[n])
  BY DEF Old, s
<1>6. Copies[n] \subseteq 1 .. Len(nodes)
  <2>1. Copies[n] \subseteq 1 .. n
    BY CopiesFacts
  <2> QED
    BY <1>1, <2>1
<1>7. Among(s, Copies[n]) \in Seq(Nat) /\ ToSet(Among(s, Copies[n])) = ToSet(s) \cap Copies[n]
      /\ Ordered(Among(s, Copies[n]), Less)
  BY <1>2, <1>4, AmongFacts
<1> QED
  BY <1>3, <1>5, <1>6, <1>7

LEMMA PlaceFacts ==
  ASSUME NodesOK, NEW n \in DOMAIN nodes
  PROVE  /\ Len(Old(n)) \in Nat /\ DOMAIN Old(n) = 1 .. Len(Old(n))
         /\ \A i \in 1 .. Len(Old(n)) : Old(n)[i] \in Copies[n] /\ Old(n)[i] \in 1 .. n /\ Place(n, Old(n)[i]) = i
         /\ \A k \in Copies[n] : Place(n, k) \in 1 .. Len(Old(n)) /\ Old(n)[Place(n, k)] = k
         /\ \A k, m \in Copies[n] : k < m => Place(n, k) < Place(n, m)
         /\ Copies[n] # {} => Place(n, n) = Len(Old(n)) /\ Len(Old(n)) # 0
         /\ Copies[n] = {} => Len(Old(n)) = 0
<1> DEFINE old == Old(n)
           place(k) == Place(n, k)
<1>1. old \in Seq(Nat) /\ ToSet(old) = Copies[n] /\ Ordered(old, Less)
  BY OldFacts
<1>2. Copies[n] \subseteq 1 .. n /\ (Copies[n] # {} => n \in Copies[n]) /\ n \in Nat
  BY CopiesFacts, KidsBefore
<1> HIDE DEF old
<1>3. Len(old) \in Nat /\ DOMAIN old = 1 .. Len(old)
  BY <1>1
<1>4. \A i, j \in 1 .. Len(old) : i < j => old[i] < old[j]
  BY <1>1 DEF Ordered, Less
<1>5. \A i \in 1 .. Len(old) : old[i] \in Copies[n] /\ old[i] \in 1 .. n
  BY <1>1, <1>2, <1>3 DEF ToSet
<1>6. \A i, j \in 1 .. Len(old) : old[i] = old[j] => i = j
  <2> SUFFICES ASSUME NEW i \in 1 .. Len(old), NEW j \in 1 .. Len(old), i # j
               PROVE  old[i] # old[j]
    OBVIOUS
  <2>1. i < j \/ j < i
    BY <1>3
  <2>2. old[i] \in Nat /\ old[j] \in Nat
    BY <1>2, <1>5
  <2>3. old[i] < old[j] \/ old[j] < old[i]
    BY <1>4, <2>1
  <2> QED
    BY <2>2, <2>3
<1>7. ASSUME NEW k \in Copies[n]
      PROVE  place(k) \in 1 .. Len(old) /\ old[place(k)] = k
  <2>1. \E i \in DOMAIN old : old[i] = k
    BY <1>1 DEF ToSet
  <2>2. place(k) = CHOOSE i \in DOMAIN old : old[i] = k
    BY DEF Place, old
  <2> HIDE DEF place
  <2> QED
    BY <1>3, <2>1, <2>2
<1> HIDE DEF place
<1>8. \A i \in 1 .. Len(old) : place(old[i]) = i
  BY <1>5, <1>6, <1>7
<1>9. ASSUME NEW k \in Copies[n], NEW m \in Copies[n], k < m
      PROVE  place(k) < place(m)
  <2>1. place(k) \in 1 .. Len(old) /\ place(m) \in 1 .. Len(old) /\ k \in Nat /\ m \in Nat
    BY <1>2, <1>7
  <2>2. place(m) < place(k) => m < k
    BY <1>4, <1>7, <2>1
  <2>3. place(m) # place(k)
    BY <1>7, <1>9, <2>1
  <2> QED
    BY <1>3, <1>9, <2>1, <2>2, <2>3
<1>10. ASSUME Copies[n] # {}
       PROVE  place(n) = Len(old) /\ Len(old) # 0
  <2>1. n \in Copies[n] /\ place(n) \in 1 .. Len(old)
    BY <1>2, <1>7, <1>10
  <2>2. ASSUME place(n) # Len(old) PROVE FALSE
    <3>1. place(n) < Len(old) /\ Len(old) \in 1 .. Len(old)
      BY <1>3, <2>1, <2>2
    <3>2. n < old[Len(old)] /\ old[Len(old)] \in 1 .. n
      <4>1. old[place(n)] < old[Len(old)]
        BY <1>4, <2>1, <3>1
      <4> QED
        BY <1>5, <1>7, <2>1, <3>1, <4>1
    <3> QED
      BY <1>2, <3>2
  <2> QED
    BY <1>3, <2>1, <2>2
<1>11. Copies[n] = {} => Len(old) = 0
  <2> SUFFICES ASSUME Len(old) # 0 PROVE Copies[n] # {}
    OBVIOUS
  <2>1. 1 \in 1 .. Len(old)
    BY <1>3
  <2> QED
    BY <1>5, <2>1
<1> QED
  BY <1>3, <1>5, <1>7, <1>8, <1>9, <1>10, <1>11 DEF old, place

\* The copies: each has the children of the node it is a copy of, those that are
\* copied replaced by their copies, and all but the last are children of others.
LEMMA CopyFacts ==
  ASSUME NodesOK, NEW n \in DOMAIN nodes
  PROVE  /\ \E T : Copy(n) \in Seq(T)
         /\ Len(Copy(n)) = Len(Old(n))
         /\ \A i \in 1 .. Len(Copy(n)) :
              LET kids == nodes[Old(n)[i]].kids
              IN  /\ "kids" \in DOMAIN Copy(n)[i]
                  /\ Copy(n)[i].kids = [j \in DOMAIN kids |-> NewOf(n, kids[j])]
                  /\ Copy(n)[i].kids \in Seq(0 .. Len(nodes) + i - 1)
         /\ \A i \in 1 .. Len(Copy(n)) :
              i # Len(Copy(n)) =>
                \E m \in 1 .. Len(Copy(n)) : Len(nodes) + i \in ToSet(Copy(n)[m].kids)
<1> DEFINE old == Old(n)
           copy == Copy(n)
           kids(i) == nodes[old[i]].kids
<1>1. /\ Len(nodes) \in Nat /\ DOMAIN nodes = 1 .. Len(nodes)
      /\ \A i \in DOMAIN nodes : Kids(i) \subseteq 1 .. i - 1
  BY KidsBefore
<1>2. /\ Len(old) \in Nat /\ DOMAIN old = 1 .. Len(old)
      /\ \A i \in 1 .. Len(old) : old[i] \in Copies[n] /\ old[i] \in 1 .. n /\ Place(n, old[i]) = i
      /\ \A k \in Copies[n] : Place(n, k) \in 1 .. Len(old) /\ old[Place(n, k)] = k
      /\ \A k, m \in Copies[n] : k < m => Place(n, k) < Place(n, m)
      /\ Copies[n] # {} => Place(n, n) = Len(old) /\ Len(old) # 0
  BY PlaceFacts
<1>3. copy = [i \in DOMAIN old |->
                [nodes[old[i]] EXCEPT !.kids = [j \in DOMAIN kids(i) |-> NewOf(n, kids(i)[j])]]]
  BY DEF Copy, NewOf, Place, Old
<1> HIDE DEF old, copy
<1>4. \A i \in 1 .. Len(old) : old[i] \in DOMAIN nodes
  BY <1>1, <1>2
<1>5. Len(copy) = Len(old)
  BY <1>2, <1>3
<1>6. copy \in Seq({copy[i] : i \in 1 .. Len(old)})
  <2>1. copy = [i \in 1 .. Len(old) |-> copy[i]]
    BY <1>2, <1>3
  <2> DEFINE D == {copy[i] : i \in 1 .. Len(old)}
  <2>2. \A i \in 1 .. Len(old) : copy[i] \in D
    OBVIOUS
  <2> HIDE DEF D
  <2> QED
    BY <1>2, <2>1, <2>2 DEF D
<1>7. ASSUME NEW i \in 1 .. Len(old)
      PROVE  /\ "kids" \in DOMAIN copy[i]
             /\ copy[i].kids = [j \in DOMAIN kids(i) |-> NewOf(n, kids(i)[j])]
  <2> DEFINE new == [j \in DOMAIN kids(i) |-> NewOf(n, kids(i)[j])]
  <2>1. copy[i] = [nodes[old[i]] EXCEPT !.kids = new]
    BY <1>2, <1>3
  <2>2. "kids" \in DOMAIN nodes[old[i]]
    BY <1>4 DEF NodesOK
  <2> HIDE DEF new
  <2>3. "kids" \in DOMAIN copy[i] /\ copy[i].kids = new
    BY <2>1, <2>2
  <2> QED
    BY <2>3 DEF new
<1>8. ASSUME NEW i \in 1 .. Len(old)
      PROVE  copy[i].kids \in Seq(0 .. Len(nodes) + i - 1)
  <2>1. kids(i) \in Seq(0 .. old[i] - 1) /\ old[i] \in Nat /\ old[i] <= Len(nodes)
    BY <1>1, <1>2, <1>4 DEF NodesOK
  <2> HIDE DEF kids
  <2>2. Len(kids(i)) \in Nat /\ DOMAIN kids(i) = 1 .. Len(kids(i)) /\ \A j \in DOMAIN kids(i) : kids(i)[j] \in 0 .. old[i] - 1
    BY <2>1
  <2>3. ASSUME NEW j \in DOMAIN kids(i)
        PROVE  NewOf(n, kids(i)[j]) \in 0 .. Len(nodes) + i - 1
    <3> DEFINE k == kids(i)[j]
    <3>1. k \in 0 .. old[i] - 1
      BY <2>2
    <3> HIDE DEF k
    <3>2. CASE k \in Copies[n]
      <4>1. k < old[i] /\ Place(n, old[i]) = i /\ Place(n, k) \in 1 .. Len(old)
        BY <1>2, <2>1, <3>1, <3>2
      <4>2. Place(n, k) < i
        BY <1>2, <3>2, <4>1
      <4>3. NewOf(n, k) = Len(nodes) + Place(n, k)
        BY <3>2 DEF NewOf
      <4> QED
        BY <1>1, <1>2, <4>1, <4>2, <4>3 DEF k
    <3>3. CASE k \notin Copies[n]
      <4>1. NewOf(n, k) = k
        BY <3>3 DEF NewOf
      <4> QED
        BY <1>1, <2>1, <3>1, <4>1 DEF k
    <3> QED
      BY <3>2, <3>3
  <2>4. copy[i].kids = [j \in 1 .. Len(kids(i)) |-> NewOf(n, kids(i)[j])]
    BY <1>7, <2>2 DEF kids
  <2> QED
    BY <2>2, <2>3, <2>4
<1>9. ASSUME NEW i \in 1 .. Len(old), i # Len(old)
      PROVE  \E m \in 1 .. Len(old) : Len(nodes) + i \in ToSet(copy[m].kids)
  <2>1. old[i] \in Copies[n] /\ Place(n, old[i]) = i
    BY <1>2
  <2>2. old[i] # n
    BY <1>2, <1>9, <2>1
  <2>3. PICK p \in Copies[n] : old[i] \in Kids(p)
    BY <2>1, <2>2, CopiesFacts
  <2> DEFINE m == Place(n, p)
  <2>4. m \in 1 .. Len(old) /\ old[m] = p
    BY <1>2
  <2> HIDE DEF m
  <2>5. PICK j \in DOMAIN kids(m) : kids(m)[j] = old[i]
    BY <2>3, <2>4 DEF Kids, ToSet
  <2>6. NewOf(n, old[i]) = Len(nodes) + i
    BY <2>1 DEF NewOf
  <2>7. j \in DOMAIN copy[m].kids /\ copy[m].kids[j] = Len(nodes) + i
    <3> HIDE DEF kids
    <3>1. copy[m].kids = [x \in DOMAIN kids(m) |-> NewOf(n, kids(m)[x])]
      BY <1>7, <2>4 DEF kids
    <3> QED
      BY <2>5, <2>6, <3>1
  <2> QED
    BY <2>4, <2>7 DEF ToSet
<1>10. \E T : copy \in Seq(T)
  BY <1>6
<1> QED
  BY <1>5, <1>7, <1>8, <1>9, <1>10 DEF copy, old

LEMMA PairAtEnd ==
  ASSUME NEW T, NEW s \in Seq(T), NEW t \in Seq(T)
  PROVE  Len(t) = 2 =>
           /\ s \o t \in Seq(T) /\ Len(s \o t) = Len(s) + 2
           /\ \A i \in 1 .. Len(s) : (s \o t)[i] = s[i]
           /\ (s \o t)[Len(s) + 1] = t[1] /\ (s \o t)[Len(s) + 2] = t[2]
<1> DEFINE both == s \o t
<1>1. /\ both \in Seq(T) /\ Len(both) = Len(s) + Len(t)
      /\ \A i \in 1 .. Len(s) : both[i] = s[i]
      /\ \A i \in 1 .. Len(t) : both[Len(s) + i] = t[i]
  OBVIOUS
<1> HIDE DEF both
<1>2. 1 \in 1 .. 2 /\ 2 \in 1 .. 2
  OBVIOUS
<1> QED
  BY <1>1, <1>2 DEF both

LEMMA ConcatAssoc ==
  ASSUME NEW T, NEW s \in Seq(T), NEW t \in Seq(T), NEW u \in Seq(T)
  PROVE  (s \o t) \o u = s \o (t \o u)
OBVIOUS

-----------------------------------------------------------------------------
(* Compound assignments.                                                   *)

Lhs == Operands[1]
Ones == IF Rule.do = "++" THEN 1 ELSE 0
Size == Len(Copy(Lhs)) + Ones
CopiedLhs == IF Copy(Lhs) = <<>> THEN Lhs ELSE Len(nodes) + Len(Copy(Lhs))
Rhs == IF Rule.do = "++" THEN Len(nodes) + Size ELSE Operands[2]

\* The nodes that a compound assignment creates: the copies, the number 1 for
\* lhs++, the sum and the assignment.
LEMMA CompoundNodes ==
  ASSUME IInv, ConstructCompound
  PROVE  /\ Lhs \in DOMAIN nodes /\ Len(Copy(Lhs)) \in Nat /\ Size \in Nat
         /\ CopiedLhs \in 1 .. Len(nodes) + Size /\ Rhs \in 0 .. Len(nodes) + Size
         /\ Push(Len(nodes) + Size + 2)
         /\ \E T : \E more \in Seq(T) :
              /\ nodes' = nodes \o more /\ Len(more) = Size + 2
              /\ \A i \in 1 .. Len(Copy(Lhs)) : more[i] = Copy(Lhs)[i]
              /\ Rule.do = "++" => more[Size] = Node("const", "", <<"int">>, <<>>)
              /\ more[Size + 1] = Node("binop", "+", <<>>, <<CopiedLhs, Rhs>>)
              /\ more[Size + 2] = Node("asg", "", <<>>, <<Lhs, Len(nodes) + Size + 1>>)
<1> DEFINE L == Len(nodes)
           copy == Copy(Lhs)
           c == Len(copy)
           const == Node("const", "", <<"int">>, <<>>)
           one == IF Rule.do = "++" THEN <<const>> ELSE <<>>
           all == nodes \o copy \o one
           copied == IF copy = <<>> THEN Lhs ELSE L + c
           rhs == IF Rule.do = "++" THEN Len(all) ELSE Operands[2]
           binop == Node("binop", "+", <<>>, <<copied, rhs>>)
           asg == Node("asg", "", <<>>, <<Lhs, Len(all) + 1>>)
<1>1. /\ pc = "parse" /\ text # <<>> /\ Rule.do \in {"op=", "++"}
      /\ nodes' = all \o <<binop, asg>> /\ Push(Len(all) + 2)
  BY DEF ConstructCompound, Parsing, Lhs
<1>2. Operands \in Seq(0 .. L) /\ L \in Nat /\ DOMAIN nodes = 1 .. L /\ Len(Operands) = Rule.n
  BY <1>1, PoppedFacts, KidsBefore DEF IInv
<1>3. Lhs \in DOMAIN nodes
  <2>1. Rule.n \in {1, 2} /\ Lhs # 0
    BY <1>1, PoppedFacts DEF IInv, Lhs
  <2>2. 1 \in 1 .. Len(Operands)
    BY <1>2, <2>1
  <2>3. Lhs \in 0 .. L
    BY <1>2, <2>2 DEF Lhs
  <2> QED
    BY <1>2, <2>1, <2>3
<1>4. Rule.do = "op=" => Operands[2] \in 0 .. L
  <2> SUFFICES ASSUME Rule.do = "op=" PROVE Operands[2] \in 0 .. L
    OBVIOUS
  <2>1. Rule.n = 2
    BY <1>1, PoppedFacts DEF IInv
  <2>2. 2 \in 1 .. Len(Operands)
    BY <1>2, <2>1
  <2> QED
    BY <1>2, <2>2
<1>5. (\E T : copy \in Seq(T)) /\ c \in Nat
  BY <1>3, CopyFacts DEF IInv
<1> HIDE DEF copy
<1>6. PICK T1 : copy \in Seq(T1)
  BY <1>5
<1>7. PICK T0 : nodes \in Seq(T0)
  BY DEF IInv, NodesOK
<1> DEFINE T == T0 \cup T1 \cup {const, binop, asg}
           pair == <<binop, asg>>
           more == (copy \o one) \o pair
           size == Size
<1>8. size = c + Len(one) /\ Len(one) \in {0, 1} /\ (Rule.do = "++" => Len(one) = 1 /\ one[1] = const)
  <2>1. size = c + Ones
    BY DEF Size, copy
  <2>2. CASE Rule.do = "++"
    <3>1. one = <<const>> /\ Ones = 1
      BY <2>2 DEF Ones
    <3>2. Len(one) = 1 /\ one[1] = const
      BY <3>1
    <3> QED
      BY <2>1, <3>1, <3>2
  <2>3. CASE Rule.do # "++"
    <3>1. one = <<>> /\ Ones = 0
      BY <2>3 DEF Ones
    <3>2. Len(one) = 0
      BY <3>1
    <3> QED
      BY <2>1, <2>3, <3>1, <3>2
  <2> QED
    BY <2>2, <2>3
<1>9. one \in Seq({const})
  <2> HIDE DEF const
  <2>1. <<const>> \in Seq({const}) /\ <<>> \in Seq({const})
    OBVIOUS
  <2> QED
    BY <2>1
<1>10. pair \in Seq({binop, asg}) /\ Len(pair) = 2 /\ pair[1] = binop /\ pair[2] = asg
  <2> HIDE DEF binop, asg
  <2> QED
    OBVIOUS
<1> HIDE DEF const, one, binop, asg, pair, L
<1>11. nodes \in Seq(T) /\ copy \in Seq(T) /\ one \in Seq(T) /\ pair \in Seq(T)
  <2>1. T0 \subseteq T /\ T1 \subseteq T /\ {const} \subseteq T /\ {binop, asg} \subseteq T
    OBVIOUS
  <2> HIDE DEF T
  <2>2. nodes \in Seq(T)
    BY <1>7, <2>1
  <2>3. copy \in Seq(T)
    BY <1>6, <2>1
  <2>4. one \in Seq(T)
    BY <1>9, <2>1
  <2>5. pair \in Seq(T)
    BY <1>10, <2>1
  <2> QED
    BY <2>2, <2>3, <2>4, <2>5
<1> HIDE DEF T, size
<1>12. Len(all) = L + size
  BY <1>8, <1>11 DEF L
<1>13. nodes' = nodes \o more
  <2>1. nodes' = all \o pair
    BY <1>1 DEF pair
  <2>2. copy \o one \in Seq(T)
    BY <1>11
  <2>3. all = nodes \o (copy \o one)
    BY <1>11, ConcatAssoc
  <2>4. (nodes \o (copy \o one)) \o pair = nodes \o more
    <3> DEFINE s == copy \o one
    <3>1. s \in Seq(T)
      BY <2>2
    <3> HIDE DEF s
    <3>2. (nodes \o s) \o pair = nodes \o (s \o pair)
      BY <1>11, <3>1, ConcatAssoc
    <3> QED
      BY <3>2 DEF s
  <2> QED
    BY <2>1, <2>3, <2>4
<1>14. /\ more \in Seq(T) /\ Len(more) = size + 2
       /\ \A i \in 1 .. c : more[i] = copy[i]
       /\ Len(one) = 1 => more[size] = one[1]
       /\ more[size + 1] = pair[1] /\ more[size + 2] = pair[2]
  <2> DEFINE s == copy \o one
  <2>1. /\ s \in Seq(T) /\ Len(s) = size /\ \A i \in 1 .. c : s[i] = copy[i]
        /\ Len(one) = 1 => s[size] = one[1] /\ size \in 1 .. size
        /\ c \in Nat /\ size \in Nat /\ c <= size
    BY <1>5, <1>8, <1>11
  <2> HIDE DEF s
  <2>2. /\ s \o pair \in Seq(T) /\ Len(s \o pair) = size + 2 /\ \A i \in 1 .. size : (s \o pair)[i] = s[i]
        /\ (s \o pair)[size + 1] = pair[1] /\ (s \o pair)[size + 2] = pair[2]
    <3>1. s \in Seq(T) /\ pair \in Seq(T) /\ Len(s) = size /\ Len(pair) = 2
      BY <1>10, <1>11, <2>1
    <3> HIDE DEF pair
    <3> QED
      BY <3>1, PairAtEnd
  <2>3. \A i \in 1 .. c : i \in 1 .. size
    BY <2>1
  <2>4. more = s \o pair
    BY DEF s
  <2> QED
    BY <2>1, <2>2, <2>3, <2>4
<1> HIDE DEF more, all
<1>15. size \in Nat /\ c <= size
  BY <1>5, <1>8
<1>16. copied = CopiedLhs /\ copied \in 1 .. L + size
  <2>1. copied = CopiedLhs
    BY DEF CopiedLhs, L, copy
  <2>2. copy # <<>> => c # 0
    BY <1>6
  <2> QED
    BY <1>2, <1>3, <1>5, <1>15, <2>1, <2>2
<1>17. rhs = Rhs /\ rhs \in 0 .. L + size
  <2>1. rhs = Rhs
    BY <1>12 DEF Rhs, L, size
  <2> QED
    BY <1>1, <1>2, <1>4, <1>12, <1>15, <2>1
<1>18. binop = Node("binop", "+", <<>>, <<CopiedLhs, Rhs>>)
  BY <1>16, <1>17 DEF binop
<1>19. asg = Node("asg", "", <<>>, <<Lhs, L + size + 1>>)
  BY <1>12 DEF asg
<1>20. Push(L + size + 2)
  BY <1>1, <1>12
<1>21. /\ nodes' = nodes \o more /\ Len(more) = size + 2
       /\ \A i \in 1 .. c : more[i] = copy[i]
       /\ Rule.do = "++" => more[size] = const
       /\ more[size + 1] = Node("binop", "+", <<>>, <<CopiedLhs, Rhs>>)
       /\ more[size + 2] = Node("asg", "", <<>>, <<Lhs, L + size + 1>>)
  BY <1>8, <1>10, <1>13, <1>14, <1>18, <1>19
<1>22. \E S : \E seq \in Seq(S) :
              /\ nodes' = nodes \o seq /\ Len(seq) = size + 2
              /\ \A i \in 1 .. c : seq[i] = copy[i]
              /\ Rule.do = "++" => seq[size] = const
              /\ seq[size + 1] = Node("binop", "+", <<>>, <<CopiedLhs, Rhs>>)
              /\ seq[size + 2] = Node("asg", "", <<>>, <<Lhs, L + size + 1>>)
  BY <1>14, <1>21
<1> QED
  BY <1>3, <1>5, <1>15, <1>16, <1>17, <1>20, <1>22 DEF L, size, copy, const

LEMMA ConstructCompoundOK ==
  ASSUME IInv, ConstructCompound
  PROVE  /\ IInv' /\ RuleDone(Len(nodes) + Size + 2)
         /\ Lhs \in DOMAIN nodes /\ Len(Copy(Lhs)) \in Nat
         /\ CopiedLhs \in 1 .. Len(nodes) + Size /\ Rhs \in 0 .. Len(nodes) + Size
         /\ Len(nodes') = Len(nodes) + Size + 2
         /\ \A i \in 1 .. Len(Copy(Lhs)) : nodes'[Len(nodes) + i].kids = Copy(Lhs)[i].kids
         /\ Rule.do = "++" => nodes'[Len(nodes) + Size].kids = <<>>
         /\ nodes'[Len(nodes) + Size + 1].kids = <<CopiedLhs, Rhs>>
         /\ nodes'[Len(nodes) + Size + 2].kids = <<Lhs, Len(nodes) + Size + 1>>
<1> DEFINE L == Len(nodes)
           c == Len(Copy(Lhs))
           copy == Copy(Lhs)
           size == Size
           const == Node("const", "", <<"int">>, <<>>)
           sum == <<CopiedLhs, Rhs>>
           both == <<Lhs, L + size + 1>>
           binop == Node("binop", "+", <<>>, sum)
           asg == Node("asg", "", <<>>, both)
<1>0. /\ pc = "parse" /\ text # <<>> /\ Rule.do \in {"op=", "++"} /\ text' = Tail(text)
      /\ UNCHANGED <<pc, prog, freed>>
  BY DEF ConstructCompound, Parsing
<1>1. /\ Lhs \in DOMAIN nodes /\ c \in Nat /\ size \in Nat
      /\ CopiedLhs \in 1 .. L + size /\ Rhs \in 0 .. L + size
      /\ Push(L + size + 2)
      /\ \E T : \E more \in Seq(T) :
           /\ nodes' = nodes \o more /\ Len(more) = size + 2
           /\ \A i \in 1 .. c : more[i] = copy[i]
           /\ Rule.do = "++" => more[size] = const
           /\ more[size + 1] = binop /\ more[size + 2] = asg
  BY CompoundNodes
<1>2. L \in Nat /\ DOMAIN nodes = 1 .. L
  BY KidsBefore DEF IInv
<1>3. /\ \A i \in 1 .. c : "kids" \in DOMAIN copy[i] /\ copy[i].kids \in Seq(0 .. L + i - 1)
      /\ \A i \in 1 .. c : i # c => \E m \in 1 .. c : L + i \in ToSet(copy[m].kids)
  BY <1>1, CopyFacts DEF IInv
<1>4. /\ size = c + Ones /\ Ones \in {0, 1} /\ (Rule.do = "++" => Ones = 1) /\ (Rule.do # "++" => Ones = 0)
      /\ CopiedLhs = IF c = 0 THEN Lhs ELSE L + c
      /\ Rule.do = "++" => Rhs = L + size
      /\ Rule.do = "op=" => Rhs = Operands[2]
  <2>1. copy = <<>> <=> c = 0
    <3>1. \E T : copy \in Seq(T)
      BY <1>1, CopyFacts DEF IInv
    <3> HIDE DEF copy
    <3>2. copy = <<>> <=> Len(copy) = 0
      BY <3>1
    <3> QED
      BY <3>2 DEF copy
  <2>2. size = c + Ones
    BY DEF Size
  <2>3. Ones \in {0, 1} /\ (Rule.do = "++" => Ones = 1) /\ (Rule.do # "++" => Ones = 0)
    BY DEF Ones
  <2>4. CopiedLhs = IF c = 0 THEN Lhs ELSE L + c
    <3>1. CopiedLhs = IF copy = <<>> THEN Lhs ELSE L + c
      BY DEF CopiedLhs
    <3> HIDE DEF copy, c
    <3> QED
      BY <2>1, <3>1
  <2>5. (Rule.do = "++" => Rhs = L + size) /\ (Rule.do = "op=" => Rhs = Operands[2])
    BY DEF Rhs
  <2> HIDE DEF c, size, copy, L
  <2> QED
    BY <2>2, <2>3, <2>4, <2>5
<1> HIDE DEF copy, c, size, L
<1>0a. c \in Nat /\ size \in Nat
  BY <1>1
<1>5. /\ const.kids = <<>> /\ "kids" \in DOMAIN const
      /\ binop.kids = sum /\ "kids" \in DOMAIN binop
      /\ asg.kids = both /\ "kids" \in DOMAIN asg
  <2> HIDE DEF sum, both
  <2> QED
    BY DEF Node
<1>6. /\ sum \in Seq(0 .. L + size) /\ both \in Seq(0 .. L + size + 1)
      /\ ToSet(sum) = {CopiedLhs, Rhs} /\ ToSet(both) = {Lhs, L + size + 1}
  <2>0. CopiedLhs \in 1 .. L + size /\ Lhs \in 1 .. L
    BY <1>1, <1>2
  <2>1. CopiedLhs \in 0 .. L + size /\ Lhs \in 0 .. L + size + 1 /\ L + size + 1 \in 0 .. L + size + 1
    BY <1>0a, <1>2, <2>0
  <2>2. \A x, y : ToSet(<<x, y>>) = {x, y}
    BY DEF ToSet
  <2>3. \A x, y, D : x \in D /\ y \in D => <<x, y>> \in Seq(D)
    OBVIOUS
  <2> QED
    BY <1>1, <2>1, <2>2, <2>3
<1> HIDE DEF const, binop, asg, sum, both
<1>7. PICK T : \E more \in Seq(T) :
           /\ nodes' = nodes \o more /\ Len(more) = size + 2
           /\ \A i \in 1 .. c : more[i] = copy[i]
           /\ Rule.do = "++" => more[size] = const
           /\ more[size + 1] = binop /\ more[size + 2] = asg
  BY <1>1
<1>8. PICK more \in Seq(T) :
           /\ nodes' = nodes \o more /\ Len(more) = size + 2
           /\ \A i \in 1 .. c : more[i] = copy[i]
           /\ Rule.do = "++" => more[size] = const
           /\ more[size + 1] = binop /\ more[size + 2] = asg
  BY <1>7
<1>9. ASSUME NEW i \in 1 .. size + 2
      PROVE  \/ i \in 1 .. c
             \/ Rule.do = "++" /\ i = size /\ i = c + 1
             \/ i = size + 1
             \/ i = size + 2
  BY <1>0a, <1>4
<1>10. ASSUME NEW i \in 1 .. Len(more)
       PROVE  "kids" \in DOMAIN more[i] /\ more[i].kids \in Seq(0 .. L + i - 1)
  <2>1. i \in 1 .. size + 2
    BY <1>8
  <2>2. CASE i \in 1 .. c
    BY <1>3, <1>8, <2>2
  <2>3. CASE Rule.do = "++" /\ i = size
    <3>1. <<>> \in Seq(0 .. L + i - 1)
      OBVIOUS
    <3> QED
      BY <1>5, <1>8, <2>3, <3>1
  <2>4. CASE i = size + 1
    <3>1. L + i - 1 = L + size
      BY <1>1, <1>2, <2>4
    <3> QED
      BY <1>5, <1>6, <1>8, <2>4, <3>1
  <2>5. CASE i = size + 2
    <3>1. L + i - 1 = L + size + 1
      BY <1>1, <1>2, <2>5
    <3> QED
      BY <1>5, <1>6, <1>8, <2>5, <3>1
  <2> QED
    BY <1>9, <2>1, <2>2, <2>3, <2>4, <2>5
<1>11. /\ NodesOK' /\ Len(nodes') = L + Len(more)
       /\ DOMAIN nodes' = 1 .. Len(nodes')
       /\ \A n \in DOMAIN nodes : nodes'[n] = nodes[n]
       /\ \A i \in 1 .. Len(more) : nodes'[L + i] = more[i]
  BY <1>0, <1>8, <1>10, MoreNodes DEF IInv, L
<1>12. Len(nodes') = L + size + 2
  BY <1>1, <1>2, <1>8, <1>11
<1>13. \A i \in 1 .. size + 2 : nodes'[L + i] = more[i]
  BY <1>8, <1>11
<1>14. /\ \A i \in 1 .. c : nodes'[L + i].kids = copy[i].kids
       /\ Rule.do = "++" => nodes'[L + size].kids = <<>>
       /\ nodes'[L + size + 1].kids = sum
       /\ nodes'[L + size + 2].kids = both
  <2>1. /\ \A i \in 1 .. c : i \in 1 .. size + 2
        /\ Rule.do = "++" => size \in 1 .. size + 2
        /\ size + 1 \in 1 .. size + 2 /\ size + 2 \in 1 .. size + 2
    BY <1>0a, <1>4
  <2>2. \A i \in 1 .. c : nodes'[L + i] = copy[i]
    BY <1>8, <1>13, <2>1
  <2>3. Rule.do = "++" => nodes'[L + size] = const
    BY <1>8, <1>13, <2>1
  <2>4. L + size + 1 = L + (size + 1) /\ L + size + 2 = L + (size + 2)
    BY <1>1, <1>2
  <2>5. nodes'[L + size + 1] = binop /\ nodes'[L + size + 2] = asg
    BY <1>8, <1>13, <2>1, <2>4
  <2> QED
    BY <1>5, <2>2, <2>3, <2>5
<1>15. ASSUME NEW i \in 1 .. size + 2, NEW n, n # 0, n \in ToSet(nodes'[L + i].kids)
       PROVE  HasParent(n)'
  <2>1. L + i \in DOMAIN nodes'
    BY <1>1, <1>2, <1>11, <1>12
  <2>2. n \in ToSet(nodes'[L + i].kids) \ {0}
    BY <1>15
  <2> QED
    BY <2>1, <2>2 DEF HasParent, Kids
<1>16. \A n : n # 0 /\ n \in {CopiedLhs, Rhs, Lhs, L + size + 1} => HasParent(n)'
  <2>1. size + 1 \in 1 .. size + 2 /\ size + 2 \in 1 .. size + 2
        /\ L + size + 1 = L + (size + 1) /\ L + size + 2 = L + (size + 2)
    BY <1>1, <1>2
  <2> QED
    BY <1>6, <1>14, <1>15, <2>1
<1>17. ASSUME NEW n \in ToSet(Operands) \ {0}
       PROVE  HasParent(n)'
  <2>1. /\ Operands \in Seq(0 .. L) /\ Len(Operands) = Rule.n
        /\ (Rule.do = "op=" => Rule.n = 2) /\ (Rule.do = "++" => Rule.n = 1)
    BY <1>0, PoppedFacts DEF IInv, L
  <2>2. PICK i \in 1 .. Len(Operands) : n = Operands[i]
    BY <2>1 DEF ToSet
  <2>3. i = 1 \/ (Rule.do = "op=" /\ i = 2)
    BY <1>0, <2>1
  <2>4. n = Lhs \/ n = Rhs
    BY <1>4, <2>2, <2>3 DEF Lhs
  <2> QED
    BY <1>16, <2>4
<1>18. ASSUME NEW n \in DOMAIN nodes' \ DOMAIN nodes
       PROVE  n = L + size + 2 \/ HasParent(n)'
  <2> DEFINE i == n - L
  <2>1. i \in 1 .. size + 2 /\ n = L + i /\ n # 0
    BY <1>1, <1>2, <1>11, <1>12
  <2> HIDE DEF i
  <2>2. CASE i \in 1 .. c /\ i # c
    <3>1. PICK m \in 1 .. c : L + i \in ToSet(copy[m].kids)
      BY <1>3, <2>2
    <3>2. m \in 1 .. size + 2
      BY <1>0a, <1>4
    <3>3. n \in ToSet(nodes'[L + m].kids)
      BY <1>14, <2>1, <3>1
    <3> QED
      BY <1>15, <2>1, <3>2, <3>3
  <2>3. CASE i \in 1 .. c /\ i = c
    <3>1. n = CopiedLhs
      BY <1>0a, <1>4, <2>1, <2>3
    <3> QED
      BY <1>16, <2>1, <3>1
  <2>4. CASE Rule.do = "++" /\ i = size
    BY <1>4, <1>16, <2>1, <2>4
  <2>5. CASE i = size + 1
    <3>1. n = L + size + 1
      BY <1>1, <1>2, <2>1, <2>5
    <3> QED
      BY <1>16, <2>1, <3>1
  <2>6. CASE i = size + 2
    BY <1>1, <1>2, <2>1, <2>6
  <2> QED
    BY <1>9, <2>1, <2>2, <2>3, <2>4, <2>5, <2>6
<1>19. RuleDone(L + size + 2)
  <2>1. L <= Len(nodes') /\ L + size + 2 \in 0 .. Len(nodes') /\ L + size + 2 # 0 /\ Rule.do # "null"
    BY <1>0, <1>1, <1>2, <1>12
  <2> QED
    BY <1>0, <1>1, <1>11, <1>17, <1>18, <2>1 DEF RuleDone, L
<1>20. IInv'
  BY <1>0, <1>11, <1>19, Parsed
<1> QED
  BY <1>1, <1>12, <1>14, <1>19, <1>20 DEF L, size, c, copy, sum, both

-----------------------------------------------------------------------------
(* The function node and the passes over the tree.                         *)

\* When every rule was visited, the body is all that waits.
LEMMA BodyWaits ==
  ASSUME NodesOK, ParseOK, pc = "parse", text = <<>>
  PROVE  /\ ToSet(stack) = {stack[1]} /\ stack[1] \in DOMAIN nodes /\ Len(stack) = 1
<1>1. PICK k \in 0 .. Len(prog.text) : Visited(k)
  BY DEF ParseOK
<1> DEFINE left == Returned(prog.text)[k]
<1>2. /\ text = SubSeq(prog.text, k + 1, Len(prog.text))
      /\ Len(stack) = Len(left) /\ \A i \in 1 .. Len(left) : stack[i] = 0 <=> left[i] = "null"
  BY <1>1 DEF Visited
<1>3. /\ prog.text \in Seq(ToSet(prog.text)) /\ Len(prog.text) \in Nat
      /\ Returned(prog.text)[Len(prog.text)] = <<"body">>
  BY ProgramsAssumption DEF NodesOK, WellFormed
<1>4. k = Len(prog.text)
  <2>1. PICK T : prog.text \in Seq(T)
    BY <1>3
  <2>2. k \in Nat /\ Len(prog.text) \in Nat /\ k <= Len(prog.text)
    BY <1>3
  <2>3. CASE k < Len(prog.text)
    <3> DEFINE rest == SubSeq(prog.text, k + 1, Len(prog.text))
    <3>1. Len(rest) = Len(prog.text) - k
      BY <2>1, <2>2, <2>3
    <3>2. rest = <<>>
      BY <1>2
    <3> HIDE DEF rest
    <3> QED
      BY <2>2, <2>3, <3>1, <3>2
  <2> QED
    BY <2>2, <2>3
<1>5. Len(left) = 1 /\ left[1] # "null"
  <2>1. left = <<"body">>
    BY <1>3, <1>4
  <2> HIDE DEF left
  <2> QED
    BY <2>1
<1> HIDE DEF left
<1>6. stack \in Seq(0 .. Len(nodes)) /\ Len(stack) = 1 /\ stack[1] # 0
  BY <1>2, <1>5 DEF ParseOK
<1>7. DOMAIN stack = {1} /\ stack[1] \in 0 .. Len(nodes)
  <2>1. DOMAIN stack = 1 .. Len(stack) /\ \A i \in DOMAIN stack : stack[i] \in 0 .. Len(nodes)
    <3> DEFINE D == 0 .. Len(nodes)
    <3>1. stack \in Seq(D)
      BY <1>6
    <3> HIDE DEF D
    <3>2. DOMAIN stack = 1 .. Len(stack) /\ \A i \in DOMAIN stack : stack[i] \in D
      BY <3>1
    <3> QED
      BY <3>2 DEF D
  <2>2. \A i : i \in 1 .. 1 <=> i = 1
    OBVIOUS
  <2> QED
    BY <1>6, <2>1, <2>2
<1> QED
  BY <1>6, <1>7, KidsBefore DEF ToSet

LEMMA ConstructFunctionOK ==
  ASSUME IInv, ConstructFunction
  PROVE  /\ IInv' /\ Len(nodes') = Len(nodes) + 1
         /\ nodes'[Len(nodes) + 1].kids = <<stack[1]>> \o [i \in Args |-> i]
         /\ \A n \in DOMAIN nodes : nodes'[n] = nodes[n]
<1> DEFINE L == Len(nodes)
           args == [i \in Args |-> i]
           kids == <<stack[1]>> \o args
           node == Node("function", "", prog.ret, kids)
           more == <<node>>
<1>1. /\ pc = "parse" /\ text = <<>> /\ nodes' = Append(nodes, node) /\ pc' = "type"
      /\ prog' = prog /\ freed' = freed
  BY DEF ConstructFunction, Args
<1>2. ToSet(stack) = {stack[1]} /\ stack[1] \in DOMAIN nodes
  BY <1>1, BodyWaits DEF IInv
<1>3. L \in Nat /\ DOMAIN nodes = 1 .. L
  BY KidsBefore DEF IInv
<1>4. Args = 1 .. Len(prog.args) /\ Len(prog.args) \in Nat /\ Len(prog.args) <= L
  BY ProgramsAssumption DEF IInv, NodesOK, WellFormed, Args
<1>5. args \in Seq(0 .. L) /\ ToSet(args) = Args
  <2>1. args \in Seq(0 .. L)
    BY <1>3, <1>4
  <2>2. ToSet(args) = Args
    BY DEF ToSet
  <2> QED
    BY <2>1, <2>2
<1>6. kids \in Seq(0 .. L) /\ ToSet(kids) = {stack[1]} \cup Args
  <2> DEFINE one == <<stack[1]>>
             D == 0 .. L
  <2>1. one \in Seq(D)
    BY <1>2, <1>3
  <2>2. ToSet(one) = {stack[1]}
    BY DEF ToSet
  <2> HIDE DEF args, one, D
  <2>3. one \o args \in Seq(D) /\ ToSet(one \o args) = ToSet(one) \cup ToSet(args)
    BY <1>5, <2>1, ConcatElements DEF D
  <2>4. kids = one \o args
    BY DEF one
  <2> HIDE DEF kids
  <2> QED
    BY <1>5, <2>2, <2>3, <2>4 DEF D
<1> HIDE DEF kids
<1>7. node.kids = kids /\ "kids" \in DOMAIN node
  BY DEF Node
<1> HIDE DEF node, L
<1>8. more \in Seq({node}) /\ Len(more) = 1 /\ more[1] = node /\ nodes' = nodes \o more
  <2>1. PICK T : nodes \in Seq(T)
    BY DEF IInv, NodesOK
  <2> QED
    BY <1>1, <2>1
<1> HIDE DEF more
<1>9. \A i \in 1 .. Len(more) : "kids" \in DOMAIN more[i] /\ more[i].kids \in Seq(0 .. L + i - 1)
  <2>1. L + 1 - 1 = L
    BY <1>3
  <2> QED
    BY <1>6, <1>7, <1>8, <2>1
<1>10. /\ NodesOK' /\ Len(nodes') = L + Len(more)
       /\ DOMAIN nodes' = 1 .. Len(nodes')
       /\ \A n \in DOMAIN nodes : nodes'[n] = nodes[n]
       /\ \A i \in 1 .. Len(more) : nodes'[L + i] = more[i]
  BY <1>1, <1>8, <1>9, MoreNodes DEF IInv, L
<1>11. Len(nodes') = L + 1 /\ nodes'[L + 1].kids = kids
  BY <1>7, <1>8, <1>10
<1>12. ASSUME NEW n \in DOMAIN nodes', n # Root'
       PROVE  HasParent(n)'
  <2>1. n \in DOMAIN nodes /\ n # 0
    BY <1>3, <1>10, <1>11, <1>12 DEF Root
  <2>2. n \in Args \/ n \in ToSet(stack) \/ HasParent(n)
    BY <1>1, <2>1 DEF IInv, ParseOK
  <2>3. CASE n \in Args \/ n \in ToSet(stack)
    <3>1. n \in ToSet(kids) /\ L + 1 \in DOMAIN nodes'
      BY <1>2, <1>3, <1>6, <1>10, <1>11, <2>3
    <3> QED
      BY <1>11, <2>1, <3>1 DEF HasParent, Kids
  <2>4. CASE HasParent(n)
    <3>1. \A m \in DOMAIN nodes : m \in DOMAIN nodes'
      BY <1>3, <1>10, <1>11
    <3> QED
      BY <1>10, <2>4, <3>1 DEF HasParent, Kids
  <2> QED
    BY <2>2, <2>3, <2>4
<1>13. nodes' # <<>>
  <2>1. L + 1 \in DOMAIN nodes'
    BY <1>3, <1>10, <1>11
  <2> QED
    BY <2>1
<1>14. RootOK'
  BY <1>12, <1>13 DEF RootOK
<1>15. ParseOK' /\ DeleteOK'
  BY <1>1 DEF IInv, ParseOK, DeleteOK
<1> QED
  BY <1>10, <1>11, <1>14, <1>15 DEF IInv, L, kids

\* The passes before the deletion leave the tree as it is.
LEMMA PassOK ==
  ASSUME IInv, TypeDef \/ TypeIdent \/ TypeBody \/ TypeOther \/ TypeCheck \/ Eliminate \/ Generate
  PROVE  /\ IInv' /\ UNCHANGED <<parsing, freed>>
         /\ pc \in {"type", "eliminate", "codegen"}
         /\ pc' \in {"type", "eliminate", "codegen", "undeclared", "rejected"}
<1>1. /\ UNCHANGED <<parsing, freed>>
      /\ pc \in {"type", "eliminate", "codegen"}
      /\ pc' \in {"type", "eliminate", "codegen", "undeclared", "rejected"}
  <2>1. CASE TypeDef
    BY <2>1 DEF TypeDef, Typing
  <2>2. CASE TypeIdent
    BY <2>2 DEF TypeIdent, Typing
  <2>3. CASE TypeBody
    BY <2>3 DEF TypeBody, Typing
  <2>4. CASE TypeOther
    BY <2>4 DEF TypeOther
  <2>5. CASE TypeCheck
    BY <2>5 DEF TypeCheck
  <2>6. CASE Eliminate
    BY <2>6 DEF Eliminate
  <2>7. CASE Generate
    BY <2>7 DEF Generate
  <2> QED
    BY <2>1, <2>2, <2>3, <2>4, <2>5, <2>6, <2>7
<1>2. prog' = prog /\ nodes' = nodes /\ freed' = freed
  BY <1>1 DEF parsing
<1>3. NodesOK'
  BY <1>2 DEF IInv, NodesOK
<1>4. ParseOK' /\ DeleteOK'
  BY <1>1, <1>2 DEF IInv, ParseOK, DeleteOK
<1>5. RootOK'
  BY <1>1, <1>2 DEF IInv, RootOK, Root, HasParent, Kids
<1> QED
  BY <1>1, <1>3, <1>4, <1>5 DEF IInv

NodesOf(s) == {s[i].node : i \in DOMAIN s}

\* The root is what is deleted first.
LEMMA StartDeleteOK ==
  ASSUME IInv, StartDelete
  PROVE  /\ IInv' /\ UNCHANGED <<parsing, freed>> /\ freed = {}
         /\ WorkNodes' = {Root} /\ work' = Visits(<<Root>>, 0)
<1>1. /\ pc = "codegen" /\ pc' = "delete" /\ work' = Visits(<<Root>>, 0)
      /\ UNCHANGED <<parsing, freed>> /\ freed = {}
  BY DEF StartDelete, IInv, DeleteOK
<1>2. prog' = prog /\ nodes' = nodes /\ freed' = freed
  BY <1>1 DEF parsing
<1>3. NodesOK'
  BY <1>2 DEF IInv, NodesOK
<1>4. Root \in DOMAIN nodes /\ Root \in Nat
  <2>1. nodes # <<>>
    BY <1>1 DEF IInv, RootOK
  <2>2. PICK T : nodes \in Seq(T)
    BY DEF IInv, NodesOK
  <2> QED
    BY <2>1, <2>2 DEF Root
<1> DEFINE one == <<Root>>
<1>5. one \in Seq(Nat) /\ ToSet(one) = {Root}
  BY <1>4 DEF ToSet
<1> HIDE DEF one
<1>6. /\ Visits(one, 0) \in Seq([node : DOMAIN nodes, in : {0}])
      /\ {Visits(one, 0)[i].node : i \in DOMAIN Visits(one, 0)} = {Root}
  BY <1>4, <1>5, VisitsFacts
<1>7. work' = Visits(one, 0)
  BY <1>1 DEF one
<1>8. work' \in Seq([node : DOMAIN nodes, in : {0}]) /\ WorkNodes' = {Root}
  BY <1>6, <1>7 DEF WorkNodes
<1>9. DeleteOK'
  BY <1>1, <1>2, <1>8 DEF DeleteOK, Root
<1>10. RootOK'
  BY <1>1, <1>2 DEF IInv, RootOK, Root, HasParent, Kids
<1> QED
  BY <1>1, <1>3, <1>8, <1>9, <1>10 DEF IInv, ParseOK

\* The node that is visited next leaves its children to be visited.
LEMMA WorkFacts ==
  ASSUME NodesOK, NEW I, NEW J, I \subseteq J, NEW t \in J,
         work \in Seq([node : DOMAIN nodes, in : I]), work # <<>>
  PROVE  LET below == Visits(nodes[Next1].kids, t)
         IN  /\ Next1 \in DOMAIN nodes /\ nodes[Next1].kids \in Seq(Nat) /\ In \in I
             /\ below \in Seq([node : DOMAIN nodes, in : J])
             /\ Tail(work) \in Seq([node : DOMAIN nodes, in : J])
             /\ NodesOf(below) = Kids(Next1)
             /\ WorkNodes = {Next1} \cup NodesOf(Tail(work))
             /\ below \o Tail(work) \in Seq([node : DOMAIN nodes, in : J])
             /\ NodesOf(below \o Tail(work)) = Kids(Next1) \cup NodesOf(Tail(work))
<1> DEFINE D == [node : DOMAIN nodes, in : J]
           kids == nodes[Next1].kids
           below == Visits(kids, t)
           rest == Tail(work)
<1>1. work \in Seq(D) /\ work # <<>>
  <2> DEFINE C == [node : DOMAIN nodes, in : I]
  <2>1. C \subseteq D /\ work \in Seq(C)
    OBVIOUS
  <2> HIDE DEF C, D
  <2> QED
    BY <2>1
<1>2. Len(work) \in Nat /\ work[1] \in D /\ rest \in Seq(D) /\ Next1 = work[1].node
  <2> HIDE DEF D
  <2> QED
    BY <1>1 DEF Next1
<1>3. Next1 \in DOMAIN nodes
  BY <1>2
<1>4. kids \in Seq(0 .. Next1 - 1) /\ Next1 \in Nat /\ Kids(Next1) \subseteq DOMAIN nodes
      /\ Next1 - 1 \in Nat /\ 0 \notin DOMAIN nodes
  <2>1. kids \in Seq(0 .. Next1 - 1)
    BY <1>3 DEF NodesOK
  <2>2. /\ Len(nodes) \in Nat /\ DOMAIN nodes = 1 .. Len(nodes)
        /\ Kids(Next1) \subseteq 1 .. Next1 - 1
    BY <1>3, KidsBefore
  <2> HIDE DEF kids
  <2> QED
    BY <1>3, <2>1, <2>2
<1>5. kids \in Seq(Nat)
  <2> HIDE DEF kids
  <2>1. 0 .. Next1 - 1 \subseteq Nat
    BY <1>4
  <2> QED
    BY <1>4, <2>1
<1>6. below \in Seq(D) /\ NodesOf(below) = ToSet(kids) \cap DOMAIN nodes
  <2> DEFINE C == [node : DOMAIN nodes, in : {t}]
  <2> HIDE DEF kids
  <2>1. below \in Seq(C) /\ NodesOf(below) = ToSet(kids) \cap DOMAIN nodes
    BY <1>5, VisitsFacts DEF NodesOf
  <2>2. C \subseteq D
    OBVIOUS
  <2> HIDE DEF C, D, below
  <2> QED
    BY <2>1, <2>2
<1>7. ToSet(kids) \cap DOMAIN nodes = Kids(Next1)
  BY <1>4 DEF Kids
<1> HIDE DEF below, kids, rest
<1>8. \A s : NodesOf(s) = {x.node : x \in ToSet(s)}
  BY DEF NodesOf, ToSet
<1>9. below \o rest \in Seq(D) /\ ToSet(below \o rest) = ToSet(below) \cup ToSet(rest)
  <2> HIDE DEF D
  <2> QED
    BY <1>2, <1>6, ConcatElements
<1>10. NodesOf(below \o rest) = NodesOf(below) \cup NodesOf(rest)
  BY <1>8, <1>9
<1>11. WorkNodes = {Next1} \cup NodesOf(rest)
  <2>1. ToSet(work) = {work[1]} \cup ToSet(rest)
    <3> HIDE DEF D
    <3>1. /\ DOMAIN work = 1 .. Len(work) /\ DOMAIN rest = 1 .. Len(work) - 1 /\ 1 \in 1 .. Len(work)
          /\ \A i \in 1 .. Len(work) - 1 : rest[i] = work[i + 1]
      BY <1>1 DEF rest
    <3>2. \A i \in 1 .. Len(work) : i # 1 => i - 1 \in 1 .. Len(work) - 1 /\ i = (i - 1) + 1
      BY <1>2
    <3>3. \A i \in 1 .. Len(work) - 1 : i + 1 \in 1 .. Len(work)
      BY <1>2
    <3>4. ToSet(work) \subseteq {work[1]} \cup ToSet(rest)
      <4> SUFFICES ASSUME NEW i \in 1 .. Len(work), i # 1
                   PROVE  work[i] \in ToSet(rest)
        BY <3>1 DEF ToSet
      <4>1. i - 1 \in 1 .. Len(work) - 1 /\ rest[i - 1] = work[i]
        BY <3>1, <3>2
      <4> QED
        BY <3>1, <4>1 DEF ToSet
    <3>5. {work[1]} \cup ToSet(rest) \subseteq ToSet(work)
      BY <3>1, <3>3 DEF ToSet
    <3> QED
      BY <3>4, <3>5
  <2>2. WorkNodes = {x.node : x \in ToSet(work)}
    BY DEF WorkNodes, ToSet
  <2> QED
    BY <1>2, <1>8, <2>1, <2>2
<1>12. In \in I
  <2> DEFINE C == [node : DOMAIN nodes, in : I]
  <2>1. work \in Seq(C)
    OBVIOUS
  <2> HIDE DEF C
  <2>2. Head(work) \in C
    BY <1>1, <2>1
  <2> QED
    BY <2>2 DEF In, C
<1> QED
  BY <1>2, <1>3, <1>5, <1>6, <1>7, <1>9, <1>10, <1>11, <1>12 DEF below, kids, rest

LEMMA NextFacts ==
  ASSUME IInv, pc = "delete", work # <<>>
  PROVE  LET below == Visits(nodes[Next1].kids, 0)
         IN  /\ Next1 \in DOMAIN nodes /\ nodes[Next1].kids \in Seq(Nat)
             /\ below \in Seq([node : DOMAIN nodes, in : {0}])
             /\ Tail(work) \in Seq([node : DOMAIN nodes, in : {0}])
             /\ NodesOf(below) = Kids(Next1)
             /\ WorkNodes = {Next1} \cup NodesOf(Tail(work))
             /\ below \o Tail(work) \in Seq([node : DOMAIN nodes, in : {0}])
             /\ NodesOf(below \o Tail(work)) = Kids(Next1) \cup NodesOf(Tail(work))
<1>1. work \in Seq([node : DOMAIN nodes, in : {0}]) /\ 0 \in {0} /\ {0} \subseteq {0}
  BY DEF IInv, DeleteOK
<1> QED
  BY <1>1, WorkFacts DEF IInv

LEMMA DeleteStepOK ==
  ASSUME IInv, Delete
  PROVE  IInv'
<1>1. /\ pc = "delete" /\ work # <<>> /\ prog' = prog /\ nodes' = nodes
      /\ IF Next1 \in freed
         THEN pc' = "undefined" /\ UNCHANGED <<work, freed>>
         ELSE /\ freed' = freed \cup {Next1}
              /\ work' = Visits(nodes[Next1].kids, 0) \o Tail(work)
              /\ pc' = pc
  BY DEF Delete, parsing
<1>2. NodesOK'
  BY <1>1 DEF IInv, NodesOK
<1>3. ParseOK'
  BY <1>1 DEF ParseOK
<1>4. RootOK'
  BY <1>1 DEF IInv, RootOK, Root, HasParent, Kids
<1>5. DeleteOK'
  <2>1. CASE Next1 \in freed
    BY <1>1, <2>1 DEF DeleteOK
  <2>2. CASE Next1 \notin freed
    <3> DEFINE D == [node : DOMAIN nodes, in : {0}]
    <3>1. pc' = "delete" /\ freed' = freed \cup {Next1} /\ work' = Visits(nodes[Next1].kids, 0) \o Tail(work)
      BY <1>1, <2>2
    <3>2. /\ Next1 \in DOMAIN nodes /\ work' \in Seq(D)
          /\ WorkNodes = {Next1} \cup NodesOf(Tail(work))
          /\ NodesOf(work') = Kids(Next1) \cup NodesOf(Tail(work))
      BY <1>1, <3>1, NextFacts
    <3>3. WorkNodes' = Kids(Next1) \cup NodesOf(Tail(work))
      BY <3>2 DEF WorkNodes, NodesOf
    <3>4. /\ freed \subseteq DOMAIN nodes /\ Root \in freed \cup WorkNodes
          /\ \A n \in freed : Kids(n) \subseteq freed \cup WorkNodes
      BY <1>1 DEF IInv, DeleteOK
    <3>5. freed' \subseteq DOMAIN nodes /\ Root \in freed' \cup WorkNodes'
      BY <3>1, <3>2, <3>3, <3>4
    <3>6. \A n \in freed' : Kids(n) \subseteq freed' \cup WorkNodes'
      BY <3>1, <3>2, <3>3, <3>4
    <3> HIDE DEF D
    <3>7. Root' = Root /\ \A n : Kids(n)' = Kids(n)
      BY <1>1 DEF Root, Kids
    <3>8. work' \in Seq([node : DOMAIN nodes', in : {0}])
      BY <1>1, <3>2 DEF D
    <3> QED
      BY <1>1, <3>1, <3>5, <3>6, <3>7, <3>8 DEF DeleteOK
  <2> QED
    BY <2>1, <2>2
<1> QED
  BY <1>2, <1>3, <1>4, <1>5 DEF IInv

LEMMA FinishOK ==
  ASSUME IInv, Finish
  PROVE  IInv'
<1>1. /\ pc = "delete" /\ work = <<>> /\ pc' = "done"
      /\ prog' = prog /\ nodes' = nodes /\ work' = work /\ freed' = freed
  BY DEF Finish, parsing
<1>2. NodesOK'
  BY <1>1 DEF IInv, NodesOK
<1>3. RootOK'
  BY <1>1 DEF IInv, RootOK, Root, HasParent, Kids
<1>4. DeleteOK'
  BY <1>1 DEF IInv, DeleteOK, Root, WorkNodes, Kids
<1> QED
  BY <1>1, <1>2, <1>3, <1>4 DEF IInv, ParseOK

LEMMA StutterOK ==
  ASSUME IInv, UNCHANGED vars
  PROVE  IInv'
<1>1. /\ pc' = pc /\ prog' = prog /\ text' = text /\ stack' = stack /\ nodes' = nodes
      /\ work' = work /\ freed' = freed
  BY DEF vars, parsing
<1>2. NodesOK'
  BY <1>1 DEF IInv, NodesOK
<1>3. RootOK'
  BY <1>1 DEF IInv, RootOK, Root, HasParent, Kids
<1>4. DeleteOK'
  BY <1>1 DEF IInv, DeleteOK, Root, WorkNodes, Kids
<1>5. ParseOK'
  BY <1>1 DEF IInv, ParseOK, HasParent, Kids, Visited, Args
<1> QED
  BY <1>2, <1>3, <1>4, <1>5 DEF IInv

LEMMA InitInv ==
  ASSUME Init
  PROVE  IInv
<1>1. /\ pc = "parse" /\ prog \in Programs /\ text = prog.text /\ stack = <<>> /\ freed = {}
      /\ nodes = [i \in DOMAIN prog.args |-> Node("def", prog.args[i].name, prog.args[i].type, <<0>>)]
  BY DEF Init
<1>2. prog.args \in Seq(ToSet(prog.args)) /\ prog.text \in Seq(ToSet(prog.text))
  BY <1>1, ProgramsAssumption DEF WellFormed
<1>3. Len(prog.args) \in Nat /\ DOMAIN prog.args = 1 .. Len(prog.args)
  BY <1>2
<1>4. Len(nodes) = Len(prog.args) /\ DOMAIN nodes = 1 .. Len(prog.args)
  BY <1>1, <1>3
<1>5. \A n \in DOMAIN nodes : nodes[n].kids = <<0>> /\ "kids" \in DOMAIN nodes[n]
  <2>1. \A n \in DOMAIN nodes : nodes[n] = Node("def", prog.args[n].name, prog.args[n].type, <<0>>)
    BY <1>1, <1>3, <1>4
  <2>2. \A a, b : Node("def", a, b, <<0>>).kids = <<0>> /\ "kids" \in DOMAIN Node("def", a, b, <<0>>)
    BY DEF Node
  <2> QED
    BY <2>1, <2>2
<1>6. nodes \in Seq({nodes[i] : i \in 1 .. Len(prog.args)})
  <2> DEFINE D == {nodes[i] : i \in 1 .. Len(prog.args)}
  <2>1. nodes = [i \in 1 .. Len(prog.args) |-> nodes[i]]
    BY <1>1, <1>3
  <2>2. \A i \in 1 .. Len(prog.args) : nodes[i] \in D
    OBVIOUS
  <2> HIDE DEF D
  <2> QED
    BY <1>3, <2>1, <2>2 DEF D
<1>7. \A n \in DOMAIN nodes : <<0>> \in Seq(0 .. n - 1)
  BY <1>3, <1>4
<1>8. \E T : nodes \in Seq(T)
  BY <1>6
<1>9. NodesOK
  <2>1. Len(prog.args) <= Len(nodes)
    BY <1>3, <1>4
  <2>2. \A n \in DOMAIN nodes : "kids" \in DOMAIN nodes[n] /\ nodes[n].kids \in Seq(0 .. n - 1)
    BY <1>5, <1>7
  <2> QED
    BY <1>1, <1>8, <2>1, <2>2 DEF NodesOK
<1>10. Visited(0)
  <2>1. Len(prog.text) \in Nat
    BY <1>2
  <2>2. Returned(prog.text)[0] = <<>>
    BY <2>1, ReturnedDef DEF ReturnedStep
  <2>3. SubSeq(prog.text, 0 + 1, Len(prog.text)) = prog.text
    <3>1. PICK T : prog.text \in Seq(T)
      BY <1>2
    <3> QED
      BY <3>1
  <2> QED
    BY <1>1, <2>2, <2>3 DEF Visited
<1>11. ParseOK
  <2>1. stack \in Seq(0 .. Len(nodes)) /\ 0 \in 0 .. Len(prog.text)
    BY <1>1, <1>2
  <2>2. \A n \in DOMAIN nodes : n \in Args
    BY <1>3, <1>4 DEF Args
  <2> QED
    BY <1>1, <1>10, <2>1, <2>2 DEF ParseOK
<1> QED
  BY <1>1, <1>9, <1>11 DEF IInv, RootOK, DeleteOK

LEMMA NextInv ==
  ASSUME IInv, [Next]_vars
  PROVE  IInv'
<1>1. CASE LeaveOut
  BY <1>1, LeaveOutOK
<1>2. CASE Construct
  BY <1>2, ConstructOK
<1>3. CASE ConstructLookup
  BY <1>3, ConstructLookupOK
<1>4. CASE ConstructCompound
  BY <1>4, ConstructCompoundOK
<1>5. CASE ConstructFunction
  BY <1>5, ConstructFunctionOK
<1>6. CASE TypeDef \/ TypeIdent \/ TypeBody \/ TypeOther \/ TypeCheck \/ Eliminate \/ Generate
  BY <1>6, PassOK
<1>7. CASE StartDelete
  BY <1>7, StartDeleteOK
<1>8. CASE Delete
  BY <1>8, DeleteStepOK
<1>9. CASE Finish
  BY <1>9, FinishOK
<1>10. CASE UNCHANGED vars
  BY <1>10, StutterOK
<1> QED
  BY <1>1, <1>2, <1>3, <1>4, <1>5, <1>6, <1>7, <1>8, <1>9, <1>10 DEF Next, Stutter

-----------------------------------------------------------------------------
\* The nodes are one tree: each is an argument, waits on the stack or has a
\* parent while the program is parsed, and has the function above it afterwards.
THEOREM Invariant == Spec => []IInv
<1>1. Init => IInv
  BY InitInv
<1>2. IInv /\ [Next]_vars => IInv'
  BY NextInv
<1> QED
  BY <1>1, <1>2, PTL DEF Spec

LEMMA NothingIsLeft ==
  ASSUME IInv
  PROVE  AllDeleted
<1> SUFFICES ASSUME pc = "done"
             PROVE  freed = DOMAIN nodes
  BY DEF AllDeleted
<1>1. /\ Len(nodes) \in Nat /\ DOMAIN nodes = 1 .. Len(nodes)
      /\ \A n \in DOMAIN nodes : Kids(n) \subseteq 1 .. n - 1
  BY KidsBefore DEF IInv
<1>2. /\ work = <<>> /\ freed \subseteq DOMAIN nodes /\ Root \in freed \cup WorkNodes
      /\ \A n \in freed : Kids(n) \subseteq freed \cup WorkNodes
      /\ \A n \in DOMAIN nodes : n = Root \/ HasParent(n)
  BY DEF IInv, DeleteOK, RootOK
<1>3. WorkNodes = {}
  BY <1>2 DEF WorkNodes
<1> DEFINE S == {d \in Nat : d < Len(nodes) => Len(nodes) - d \in freed}
<1>4. ASSUME NEW d \in Nat, \A e \in Nat : e < d => e \in S
      PROVE  d \in S
  <2> SUFFICES ASSUME d < Len(nodes), Len(nodes) - d # Root
               PROVE  Len(nodes) - d \in freed
    BY <1>2, <1>3
  <2>1. Len(nodes) - d \in DOMAIN nodes
    BY <1>1
  <2>2. PICK m \in DOMAIN nodes : Len(nodes) - d \in Kids(m)
    BY <1>2, <2>1 DEF HasParent
  <2> DEFINE e == Len(nodes) - m
  <2>3. Len(nodes) - d \in 1 .. m - 1
    BY <1>1, <2>2
  <2>4. e \in Nat /\ e < d /\ e < Len(nodes) /\ Len(nodes) - e = m
    BY <1>1, <2>3
  <2>5. m \in freed
    BY <1>4, <2>4
  <2> QED
    BY <1>2, <1>3, <2>2, <2>5
<1>5. \A d \in Nat : d \in S
  <2> HIDE DEF S
  <2> QED
    BY <1>4, StrongInduction
<1>6. ASSUME NEW n \in DOMAIN nodes
      PROVE  n \in freed
  <2>1. Len(nodes) - n \in Nat /\ Len(nodes) - n < Len(nodes) /\ Len(nodes) - (Len(nodes) - n) = n
    BY <1>1
  <2> QED
    BY <1>5, <2>1
<1> QED
  BY <1>2, <1>6

\* Deleting the function deletes every node, those of the statements that were
\* cut off and those that copy() made included, for every program: no node is
\* lost while the tree is built, and ~ASTNode reaches all of it.
THEOREM NothingIsLost == Spec => []AllDeleted
<1>1. IInv => AllDeleted
  BY NothingIsLeft
<1> QED
  BY <1>1, Invariant, PTL

-----------------------------------------------------------------------------
(* No node has two parents, if copy() copies whole left sides.             *)

LEMMA KidsFacts ==
  ASSUME NodesOK, NEW m \in DOMAIN nodes
  PROVE  /\ Len(nodes[m].kids) \in Nat /\ DOMAIN nodes[m].kids = 1 .. Len(nodes[m].kids)
         /\ \A i \in DOMAIN nodes[m].kids : nodes[m].kids[i] \in 0 .. m - 1
         /\ \A k : k \in Kids(m) <=> k # 0 /\ \E i \in DOMAIN nodes[m].kids : nodes[m].kids[i] = k
<1> DEFINE kids == nodes[m].kids
           D == 0 .. m - 1
<1>1. kids \in Seq(D)
  BY DEF NodesOK
<1>2. Kids(m) = ToSet(kids) \ {0}
  BY DEF Kids
<1> HIDE DEF kids, D
<1>3. Len(kids) \in Nat /\ DOMAIN kids = 1 .. Len(kids) /\ \A i \in DOMAIN kids : kids[i] \in D
  BY <1>1
<1>4. \A k : k \in Kids(m) <=> k # 0 /\ \E i \in DOMAIN kids : kids[i] = k
  BY <1>2 DEF ToSet
<1> QED
  BY <1>3, <1>4 DEF kids, D

\* The children of the nodes that a rule creates: parts of the rule or new nodes,
\* none of them twice.
NewOnce ==
  \A m, n \in DOMAIN nodes' \ DOMAIN nodes :
    \A i \in DOMAIN nodes'[m].kids, j \in DOMAIN nodes'[n].kids :
      nodes'[m].kids[i] # 0 =>
        /\ nodes'[m].kids[i] \in ToSet(Operands) \/ nodes'[m].kids[i] > Len(nodes)
        /\ nodes'[m].kids[i] = nodes'[n].kids[j] => m = n /\ i = j

LEMMA ParsedOnce ==
  ASSUME OnceInv, pc = "parse", text # <<>>, NEW new, IInv', RuleDone(new),
         new = 0 \/ (new = Len(nodes') /\ new > Len(nodes)), NewOnce
  PROVE  OnceInv'
<1>0. /\ pc' = "parse" /\ prog' = prog /\ stack' = Append(Kept, new)
      /\ \A n \in DOMAIN nodes : nodes'[n] = nodes[n]
  BY DEF RuleDone, Push, Kept
<1>1. /\ Len(nodes) \in Nat /\ Len(nodes') \in Nat /\ Len(nodes) <= Len(nodes')
      /\ DOMAIN nodes = 1 .. Len(nodes) /\ DOMAIN nodes' = 1 .. Len(nodes')
      /\ Len(prog.args) <= Len(nodes) /\ Args = 1 .. Len(prog.args) /\ Len(prog.args) \in Nat
  BY ProgramsAssumption DEF OnceInv, IInv, NodesOK, RuleDone, Args, WellFormed
<1>2. /\ Len(stack) \in Nat /\ Rule.n \in 0 .. Len(stack) /\ DOMAIN stack = 1 .. Len(stack)
      /\ Kept \in Seq(0 .. Len(nodes)) /\ Len(Kept) = Len(stack) - Rule.n
      /\ \A i \in 1 .. Len(Kept) : Kept[i] = stack[i]
      /\ Operands \in Seq(0 .. Len(nodes)) /\ Len(Operands) = Rule.n
      /\ \A j \in 1 .. Rule.n : Operands[j] = stack[Len(stack) - Rule.n + j]
  BY PoppedFacts DEF OnceInv, IInv, ParseOK
<1>3. /\ \A i, j \in 1 .. Len(stack) : stack[i] # 0 /\ stack[i] = stack[j] => i = j
      /\ \A i \in 1 .. Len(stack) : stack[i] # 0 => stack[i] \notin Args /\ ~ HasParent(stack[i])
      /\ \A a \in Args : ~ HasParent(a)
  BY <1>2 DEF OnceInv, Waiting
<1>4. \A m \in DOMAIN nodes : \A i \in DOMAIN nodes[m].kids :
        nodes[m].kids[i] # 0 => nodes[m].kids[i] < m /\ nodes[m].kids[i] \in Nat /\ HasParent(nodes[m].kids[i])
  <2> SUFFICES ASSUME NEW m \in DOMAIN nodes, NEW i \in DOMAIN nodes[m].kids, nodes[m].kids[i] # 0
               PROVE  nodes[m].kids[i] < m /\ nodes[m].kids[i] \in Nat /\ HasParent(nodes[m].kids[i])
    OBVIOUS
  <2>1. nodes[m].kids[i] \in 0 .. m - 1 /\ nodes[m].kids[i] \in Kids(m)
    BY KidsFacts DEF OnceInv, IInv
  <2> QED
    BY <1>1, <2>1 DEF HasParent
<1>5. ASSUME NEW v \in ToSet(Operands), v # 0
      PROVE  /\ v \in 1 .. Len(nodes) /\ ~ HasParent(v) /\ v \notin Args
             /\ \A i \in 1 .. Len(Kept) : Kept[i] # v
  <2>0. /\ DOMAIN Operands = 1 .. Rule.n
        /\ \A j \in 1 .. Rule.n : Operands[j] \in 0 .. Len(nodes)
    BY <1>2
  <2>1. PICK j \in 1 .. Rule.n : v = Operands[j]
    BY <2>0 DEF ToSet
  <2>2. v = stack[Len(stack) - Rule.n + j] /\ Len(stack) - Rule.n + j \in 1 .. Len(stack)
    <3>1. Len(stack) \in Nat /\ Rule.n \in 0 .. Len(stack)
      BY <1>2
    <3>2. Len(stack) - Rule.n + j \in 1 .. Len(stack)
      BY <3>1
    <3>3. \A x \in 1 .. Rule.n : Operands[x] = stack[Len(stack) - Rule.n + x]
      BY <1>2
    <3> QED
      BY <2>1, <3>2, <3>3
  <2>3. v \in 0 .. Len(nodes)
    BY <2>0, <2>1
  <2>4. \A i \in 1 .. Len(Kept) : i \in 1 .. Len(stack) /\ i # Len(stack) - Rule.n + j
    <3>1. Len(stack) \in Nat /\ Rule.n \in 0 .. Len(stack) /\ Len(Kept) = Len(stack) - Rule.n
      BY <1>2
    <3> QED
      BY <3>1
  <2>5. v \in 1 .. Len(nodes)
    BY <1>1, <1>5, <2>3
  <2>6. ~ HasParent(v) /\ v \notin Args
    BY <1>3, <1>5, <2>2
  <2>7. \A i \in 1 .. Len(Kept) : Kept[i] # v
    BY <1>2, <1>3, <1>5, <2>2, <2>4
  <2> QED
    BY <2>5, <2>6, <2>7
<1>6. \A m \in DOMAIN nodes' \ DOMAIN nodes : \A i \in DOMAIN nodes'[m].kids :
        LET v == nodes'[m].kids[i]
        IN  v # 0 => v < m /\ v \in Nat /\ (v \in ToSet(Operands) \/ v > Len(nodes))
  <2> SUFFICES ASSUME NEW m \in DOMAIN nodes' \ DOMAIN nodes, NEW i \in DOMAIN nodes'[m].kids, nodes'[m].kids[i] # 0
               PROVE  /\ nodes'[m].kids[i] < m /\ nodes'[m].kids[i] \in Nat
                      /\ nodes'[m].kids[i] \in ToSet(Operands) \/ nodes'[m].kids[i] > Len(nodes)
    OBVIOUS
  <2> DEFINE kids == nodes'[m].kids
             D == 0 .. m - 1
  <2>1. kids \in Seq(D)
    BY DEF IInv, NodesOK
  <2>2. \A j \in DOMAIN kids : kids[j] \in D
    <3> HIDE DEF kids, D
    <3> QED
      BY <2>1
  <2>3. nodes'[m].kids[i] \in 0 .. m - 1
    BY <2>2
  <2>4. nodes'[m].kids[i] \in ToSet(Operands) \/ nodes'[m].kids[i] > Len(nodes)
    BY DEF NewOnce
  <2> HIDE DEF kids, D
  <2> QED
    BY <1>1, <2>3, <2>4
<1>7. OneParent'
  <2> SUFFICES ASSUME NEW m \in DOMAIN nodes', NEW n \in DOMAIN nodes',
                      NEW i \in DOMAIN nodes'[m].kids, NEW j \in DOMAIN nodes'[n].kids,
                      nodes'[m].kids[i] # 0, nodes'[m].kids[i] = nodes'[n].kids[j]
               PROVE  m = n /\ i = j
    BY DEF OneParent
  <2>1. CASE m \in DOMAIN nodes /\ n \in DOMAIN nodes
    BY <1>0, <2>1 DEF OnceInv, OneParent
  <2>2. CASE m \notin DOMAIN nodes /\ n \notin DOMAIN nodes
    BY <2>2 DEF NewOnce
  <2>3. ASSUME NEW p \in DOMAIN nodes, NEW q \in DOMAIN nodes' \ DOMAIN nodes,
               NEW a \in DOMAIN nodes'[p].kids, NEW b \in DOMAIN nodes'[q].kids,
               nodes'[p].kids[a] # 0, nodes'[p].kids[a] = nodes'[q].kids[b]
        PROVE  FALSE
    <3> DEFINE v == nodes'[q].kids[b]
    <3>1. v < p /\ v \in Nat /\ HasParent(v)
      BY <1>0, <1>4, <2>3
    <3>2. v \in ToSet(Operands) \/ v > Len(nodes)
      BY <1>6, <2>3
    <3>3. v # 0
      BY <2>3
    <3> HIDE DEF v
    <3> QED
      BY <1>1, <1>5, <3>1, <3>2, <3>3
  <2> QED
    BY <2>1, <2>2, <2>3
<1> DEFINE HasParentNow(v) == \E m \in DOMAIN nodes' : v \in ToSet(nodes'[m].kids) \ {0}
<1>8. ASSUME NEW v, HasParentNow(v), v \in Nat, ~ HasParent(v)
      PROVE  v \in ToSet(Operands) \/ (v > Len(nodes) /\ v < Len(nodes'))
  <2>1. PICK m \in DOMAIN nodes' : v \in ToSet(nodes'[m].kids) \ {0}
    BY <1>8
  <2>2. PICK i \in DOMAIN nodes'[m].kids : v = nodes'[m].kids[i]
    BY <2>1 DEF ToSet
  <2>3. CASE m \in DOMAIN nodes
    BY <1>0, <1>4, <1>8, <2>1, <2>2, <2>3
  <2>4. CASE m \notin DOMAIN nodes
    <3>1. v < m /\ (v \in ToSet(Operands) \/ v > Len(nodes))
      BY <1>6, <2>1, <2>2, <2>4
    <3> QED
      BY <1>1, <1>8, <3>1
  <2> QED
    BY <2>3, <2>4
<1> HIDE DEF HasParentNow
<1>9. /\ Len(stack') = Len(Kept) + 1 /\ DOMAIN stack' = 1 .. Len(Kept) + 1
      /\ stack'[Len(Kept) + 1] = new /\ \A i \in 1 .. Len(Kept) : stack'[i] = Kept[i]
  <2>1. new \in Nat
    BY <1>1
  <2>2. Kept \in Seq(Nat)
    <3>1. 0 .. Len(nodes) \subseteq Nat
      OBVIOUS
    <3> QED
      BY <1>2, <3>1
  <2> QED
    BY <1>0, <2>1, <2>2
<1>10. \A i \in 1 .. Len(Kept) :
         /\ i \in 1 .. Len(stack) /\ stack'[i] = stack[i] /\ stack[i] \in 0 .. Len(nodes)
  <2>1. \A i \in 1 .. Len(Kept) : i \in 1 .. Len(stack) /\ Kept[i] \in 0 .. Len(nodes)
    BY <1>2
  <2> QED
    BY <1>2, <1>9, <2>1
<1>11. Len(Kept) \in Nat /\ \A i \in DOMAIN stack' : i \in 1 .. Len(Kept) \/ i = Len(Kept) + 1
  BY <1>2, <1>9
<1>12. ASSUME NEW i \in DOMAIN stack', NEW j \in DOMAIN stack', stack'[i] # 0, stack'[i] = stack'[j]
       PROVE  i = j
  <2>1. CASE i \in 1 .. Len(Kept) /\ j \in 1 .. Len(Kept)
    BY <1>3, <1>10, <1>12, <2>1
  <2>2. CASE i = Len(Kept) + 1 /\ j = Len(Kept) + 1
    BY <2>2
  <2>3. CASE i \in 1 .. Len(Kept) /\ j = Len(Kept) + 1
    BY <1>1, <1>9, <1>10, <1>12, <2>3
  <2>4. CASE i = Len(Kept) + 1 /\ j \in 1 .. Len(Kept)
    BY <1>1, <1>9, <1>10, <1>12, <2>4
  <2> QED
    BY <1>11, <2>1, <2>2, <2>3, <2>4
<1>13. ASSUME NEW i \in DOMAIN stack', stack'[i] # 0
       PROVE  stack'[i] \notin Args /\ ~ HasParentNow(stack'[i])
  <2>0. PICK v : v = stack'[i]
    OBVIOUS
  <2>1. CASE i \in 1 .. Len(Kept)
    <3>1. /\ v = Kept[i] /\ v \in 0 .. Len(nodes) /\ v \notin Args /\ ~ HasParent(v)
      BY <1>2, <1>3, <1>10, <1>13, <2>0, <2>1
    <3>2. v \notin ToSet(Operands)
      BY <1>5, <1>13, <2>0, <2>1, <3>1
    <3>3. ~ (v > Len(nodes)) /\ v \in Nat
      BY <1>1, <3>1
    <3> QED
      BY <1>8, <2>0, <3>1, <3>2, <3>3
  <2>2. CASE i = Len(Kept) + 1
    <3>1. v = new /\ v = Len(nodes') /\ v > Len(nodes)
      BY <1>9, <1>13, <2>0, <2>2
    <3>2. v \notin Args
      BY <1>1, <3>1
    <3>3. ~ HasParent(v)
      <4> SUFFICES ASSUME NEW m \in DOMAIN nodes, v \in Kids(m)
                   PROVE  FALSE
        BY DEF HasParent
      <4>1. v \in 1 .. m - 1
        BY KidsBefore DEF OnceInv, IInv
      <4> QED
        BY <1>1, <3>1, <4>1
    <3>4. v \in Nat /\ v \notin ToSet(Operands)
      <4>1. v \in Nat /\ v # 0 /\ ~ (v \in 1 .. Len(nodes))
        BY <1>1, <3>1
      <4> QED
        BY <1>5, <4>1
    <3>5. ~ (v < Len(nodes'))
      BY <1>1, <3>1
    <3> QED
      BY <1>8, <2>0, <3>2, <3>3, <3>4, <3>5
  <2> QED
    BY <1>11, <2>1, <2>2
<1>14. ASSUME NEW a \in Args
       PROVE  ~ HasParentNow(a)
  <2>1. a \in Nat /\ a # 0 /\ a <= Len(nodes)
    BY <1>1
  <2>2. a \notin ToSet(Operands)
    BY <1>5, <2>1
  <2> QED
    BY <1>1, <1>3, <1>8, <2>1, <2>2
<1>15. Args' = Args
  BY <1>0 DEF Args
<1>16. Waiting'
  <2>1. \A v : HasParent(v)' <=> HasParentNow(v)
    BY DEF HasParent, Kids, HasParentNow
  <2>2. \A i \in DOMAIN stack' : stack'[i] # 0 => stack'[i] \notin Args /\ ~ HasParentNow(stack'[i])
    BY <1>13
  <2>3. \A i \in DOMAIN stack' : stack'[i] # 0 => ~ \E m \in DOMAIN nodes' : stack'[i] \in Kids(m)'
    BY <2>2 DEF HasParentNow, Kids
  <2>4. (\A i \in DOMAIN stack : stack[i] # 0 => ~ HasParent(stack[i]))'
    BY <2>3 DEF HasParent
  <2> QED
    BY <1>0, <1>12, <1>14, <1>15, <2>1, <2>2, <2>4 DEF Waiting
<1> QED
  BY <1>0, <1>7, <1>16 DEF OnceInv, DeletedDown, DeletedOnce

LEMMA OperandsOnce ==
  ASSUME OnceInv, pc = "parse", text # <<>>
  PROVE  /\ DOMAIN Operands = 1 .. Len(Operands) /\ Len(Operands) \in Nat /\ Len(Operands) = Rule.n
         /\ \A i \in DOMAIN Operands : Operands[i] \in 0 .. Len(nodes) /\ Operands[i] \in ToSet(Operands)
         /\ \A i, j \in DOMAIN Operands : Operands[i] # 0 /\ Operands[i] = Operands[j] => i = j
<1>1. /\ Len(stack) \in Nat /\ Rule.n \in 0 .. Len(stack) /\ DOMAIN stack = 1 .. Len(stack)
      /\ Operands \in Seq(0 .. Len(nodes)) /\ Len(Operands) = Rule.n
      /\ \A j \in 1 .. Rule.n : Operands[j] = stack[Len(stack) - Rule.n + j]
  BY PoppedFacts DEF OnceInv, IInv, ParseOK
<1>2. \A i, j \in 1 .. Len(stack) : stack[i] # 0 /\ stack[i] = stack[j] => i = j
  BY <1>1 DEF OnceInv, Waiting
<1>3. DOMAIN Operands = 1 .. Rule.n /\ \A i \in DOMAIN Operands : Operands[i] \in 0 .. Len(nodes)
  BY <1>1
<1>4. \A j \in 1 .. Rule.n : Len(stack) - Rule.n + j \in 1 .. Len(stack)
  BY <1>1
<1>5. ASSUME NEW i \in 1 .. Rule.n, NEW j \in 1 .. Rule.n, Operands[i] # 0, Operands[i] = Operands[j]
      PROVE  i = j
  <2>1. Len(stack) - Rule.n + i = Len(stack) - Rule.n + j
    BY <1>1, <1>2, <1>4, <1>5
  <2> QED
    BY <1>1, <2>1
<1>6. \A i \in DOMAIN Operands : Operands[i] \in ToSet(Operands)
  BY DEF ToSet
<1> QED
  BY <1>1, <1>3, <1>5, <1>6

LEMMA LeaveOutOnce ==
  ASSUME OnceInv, LeaveOut
  PROVE  OnceInv'
<1>1. pc = "parse" /\ text # <<>> /\ nodes' = nodes
  BY DEF LeaveOut, Parsing
<1>2. NewOnce
  BY <1>1 DEF NewOnce
<1>3. IInv' /\ RuleDone(0)
  BY LeaveOutOK DEF OnceInv
<1> QED
  BY <1>1, <1>2, <1>3, ParsedOnce

LEMMA ConstructOnce ==
  ASSUME OnceInv, Construct
  PROVE  OnceInv'
<1>1. pc = "parse" /\ text # <<>>
  BY DEF Construct, Parsing
<1>2. /\ IInv' /\ RuleDone(Len(nodes) + 1)
      /\ Len(nodes') = Len(nodes) + 1 /\ nodes'[Len(nodes) + 1].kids = Operands
  BY ConstructOK DEF OnceInv
<1>3. /\ Len(nodes) \in Nat /\ DOMAIN nodes = 1 .. Len(nodes) /\ DOMAIN nodes' = 1 .. Len(nodes')
  BY <1>2, KidsBefore DEF OnceInv, IInv, NodesOK
<1>4. \A m \in DOMAIN nodes' \ DOMAIN nodes : m = Len(nodes) + 1
  BY <1>2, <1>3
<1>5. NewOnce
  BY <1>1, <1>2, <1>4, OperandsOnce DEF NewOnce
<1>6. Len(nodes) + 1 = Len(nodes') /\ Len(nodes) + 1 > Len(nodes)
  BY <1>2, <1>3
<1> QED
  BY <1>1, <1>2, <1>5, <1>6, ParsedOnce

LEMMA ConstructLookupOnce ==
  ASSUME OnceInv, ConstructLookup
  PROVE  OnceInv'
<1> DEFINE L == Len(nodes)
           kids == <<L + 1>> \o Operands
<1>1. pc = "parse" /\ text # <<>>
  BY DEF ConstructLookup, Parsing
<1>2. /\ IInv' /\ RuleDone(L + 2)
      /\ Len(nodes') = L + 2 /\ nodes'[L + 1].kids = <<>>
      /\ nodes'[L + 2].kids = kids
  BY ConstructLookupOK DEF OnceInv
<1>3. /\ L \in Nat /\ DOMAIN nodes = 1 .. L /\ DOMAIN nodes' = 1 .. Len(nodes')
  BY <1>2, KidsBefore DEF OnceInv, IInv, NodesOK
<1>4. /\ DOMAIN Operands = 1 .. Len(Operands) /\ Len(Operands) \in Nat
      /\ \A i \in DOMAIN Operands : Operands[i] \in 0 .. L /\ Operands[i] \in ToSet(Operands)
      /\ \A i, j \in DOMAIN Operands : Operands[i] # 0 /\ Operands[i] = Operands[j] => i = j
  BY <1>1, OperandsOnce
<1>5. /\ DOMAIN kids = 1 .. Len(Operands) + 1 /\ kids[1] = L + 1
      /\ \A i \in 1 .. Len(Operands) : kids[i + 1] = Operands[i]
  <2>1. Operands \in Seq(0 .. L)
    BY <1>1, PoppedFacts DEF OnceInv, IInv
  <2>2. Operands \in Seq(Nat) /\ <<L + 1>> \in Seq(Nat)
    <3>1. 0 .. L \subseteq Nat
      BY <1>3
    <3> QED
      BY <1>3, <2>1, <3>1
  <2> HIDE DEF L
  <2> QED
    BY <2>2
<1> HIDE DEF L, kids
<1>6. ASSUME NEW i \in DOMAIN kids, i # 1
      PROVE  i - 1 \in DOMAIN Operands /\ kids[i] = Operands[i - 1]
  <2>1. i - 1 \in 1 .. Len(Operands) /\ i = (i - 1) + 1
    BY <1>4, <1>5, <1>6
  <2> QED
    BY <1>4, <1>5, <2>1
<1>7. ASSUME NEW i \in DOMAIN kids, NEW j \in DOMAIN kids, kids[i] # 0
      PROVE  /\ kids[i] \in ToSet(Operands) \/ kids[i] > L
             /\ kids[i] = kids[j] => i = j
  <2>1. CASE i = 1 /\ j = 1
    BY <1>3, <1>5, <2>1
  <2>2. CASE i = 1 /\ j # 1
    <3>1. kids[j] \in 0 .. L
      BY <1>4, <1>6, <2>2
    <3> QED
      BY <1>3, <1>5, <2>2, <3>1
  <2>3. CASE i # 1 /\ j = 1
    <3>1. kids[i] \in 0 .. L /\ kids[i] \in ToSet(Operands)
      BY <1>4, <1>6, <2>3
    <3> QED
      BY <1>3, <1>5, <2>3, <3>1
  <2>4. CASE i # 1 /\ j # 1
    <3>1. kids[i] \in ToSet(Operands)
      BY <1>4, <1>6, <2>4
    <3>2. kids[i] = kids[j] => i - 1 = j - 1
      BY <1>4, <1>6, <1>7, <2>4
    <3>3. i \in Nat /\ j \in Nat
      BY <1>5
    <3> QED
      BY <3>1, <3>2, <3>3
  <2> QED
    BY <2>1, <2>2, <2>3, <2>4
<1>8. \A m \in DOMAIN nodes' \ DOMAIN nodes : m = L + 1 \/ m = L + 2
  BY <1>2, <1>3
<1>9. DOMAIN nodes'[L + 1].kids = {}
  BY <1>2
<1>10. NewOnce
  BY <1>2, <1>7, <1>8, <1>9 DEF NewOnce, L
<1>11. L + 2 = Len(nodes') /\ L + 2 > L
  BY <1>2, <1>3
<1> QED
  BY <1>1, <1>2, <1>10, <1>11, ParsedOnce DEF L

\* A compound assignment: the copies have copies as children, the sum has the
\* copy of the left side and the right side, the assignment has the left side
\* and the sum.
LEMMA ConstructCompoundOnce ==
  ASSUME OnceInv, WholeCopied, ConstructCompound
  PROVE  OnceInv'
<1> DEFINE L == Len(nodes)
           size == Size
           copy == Copy(Lhs)
           c == Len(copy)
           old == Old(Lhs)
           sum == <<CopiedLhs, Rhs>>
           both == <<Lhs, L + size + 1>>
<1>0. pc = "parse" /\ text # <<>> /\ Rule.do \in {"op=", "++"}
  BY DEF ConstructCompound, Parsing
<1>1. /\ IInv' /\ RuleDone(L + size + 2)
      /\ Lhs \in DOMAIN nodes /\ c \in Nat
      /\ Len(nodes') = L + size + 2
      /\ \A i \in 1 .. c : nodes'[L + i].kids = copy[i].kids
      /\ Rule.do = "++" => nodes'[L + size].kids = <<>>
      /\ nodes'[L + size + 1].kids = sum
      /\ nodes'[L + size + 2].kids = both
  BY ConstructCompoundOK DEF OnceInv
<1>2. /\ L \in Nat /\ DOMAIN nodes = 1 .. L /\ DOMAIN nodes' = 1 .. Len(nodes')
  BY <1>1, KidsBefore DEF OnceInv, IInv, NodesOK
<1>3. Lhs \in Copies[Lhs] /\ \A m \in Copies[Lhs] : Kids(m) \subseteq Copies[Lhs]
  BY <1>0 DEF WholeCopied, Parsing, Lhs
<1>4. /\ Len(old) \in Nat
      /\ \A i \in 1 .. Len(old) : old[i] \in Copies[Lhs] /\ old[i] \in 1 .. Lhs /\ Place(Lhs, old[i]) = i
      /\ \A k \in Copies[Lhs] : Place(Lhs, k) \in 1 .. Len(old) /\ old[Place(Lhs, k)] = k
      /\ \A k, m \in Copies[Lhs] : k < m => Place(Lhs, k) < Place(Lhs, m)
      /\ Place(Lhs, Lhs) = Len(old) /\ Len(old) # 0
  BY <1>1, <1>3, PlaceFacts DEF OnceInv, IInv
<1>5. /\ c = Len(old) /\ \E T : copy \in Seq(T)
      /\ \A i \in 1 .. c : copy[i].kids = [j \in DOMAIN nodes[old[i]].kids |-> NewOf(Lhs, nodes[old[i]].kids[j])]
  BY <1>1, CopyFacts DEF OnceInv, IInv
<1>6. CopiedLhs = L + c
  <2>1. copy # <<>>
    <3> HIDE DEF copy
    <3> QED
      BY <1>4, <1>5
  <2> QED
    BY <2>1 DEF CopiedLhs
<1>7. /\ size \in Nat
      /\ Rule.do = "++" => size = c + 1 /\ Rhs = L + size
      /\ Rule.do = "op=" => size = c /\ Rhs = Operands[2]
  <2>1. size = c + Ones
    BY DEF Size
  <2>2. (Rule.do = "++" => Rhs = L + size) /\ (Rule.do = "op=" => Rhs = Operands[2])
    BY DEF Rhs
  <2>3. (Rule.do = "++" => Ones = 1) /\ (Rule.do = "op=" => Ones = 0)
    BY DEF Ones
  <2> HIDE DEF size, c, L
  <2> QED
    BY <1>0, <1>1, <2>1, <2>2, <2>3
<1>8. /\ Lhs \in ToSet(Operands)
      /\ Rule.do = "op=" => /\ Operands[2] \in ToSet(Operands) /\ Operands[2] \in 0 .. L
                            /\ Operands[2] # Lhs
  <2>1. /\ DOMAIN Operands = 1 .. Len(Operands) /\ Len(Operands) = Rule.n
        /\ \A i \in DOMAIN Operands : Operands[i] \in 0 .. L /\ Operands[i] \in ToSet(Operands)
        /\ \A i, j \in DOMAIN Operands : Operands[i] # 0 /\ Operands[i] = Operands[j] => i = j
    BY <1>0, OperandsOnce
  <2>2. (Rule.do = "op=" => Rule.n = 2) /\ (Rule.do = "++" => Rule.n = 1) /\ Lhs # 0
    BY <1>0, PoppedFacts DEF OnceInv, IInv, Lhs
  <2>3. 1 \in DOMAIN Operands
    BY <1>0, <2>1, <2>2
  <2>4. Rule.do = "op=" => 2 \in DOMAIN Operands
    BY <2>1, <2>2
  <2>5. Lhs \in ToSet(Operands)
    BY <2>1, <2>3 DEF Lhs
  <2>6. ASSUME Rule.do = "op=" PROVE Operands[2] # Lhs
    <3>1. Operands[1] = Operands[2] => 1 = 2
      BY <2>1, <2>2, <2>3, <2>4, <2>6 DEF Lhs
    <3> QED
      BY <3>1 DEF Lhs
  <2> QED
    BY <2>1, <2>4, <2>5, <2>6
<1> HIDE DEF L, size, copy, c, old
\* The children of the copies.
<1>9. ASSUME NEW a \in 1 .. c, NEW i \in DOMAIN nodes'[L + a].kids, nodes'[L + a].kids[i] # 0
      PROVE  /\ old[a] \in DOMAIN nodes /\ i \in DOMAIN nodes[old[a]].kids
             /\ nodes[old[a]].kids[i] \in Copies[Lhs] /\ nodes[old[a]].kids[i] # 0
             /\ nodes'[L + a].kids[i] = L + Place(Lhs, nodes[old[a]].kids[i])
             /\ Place(Lhs, nodes[old[a]].kids[i]) \in 1 .. c - 1
  <2> DEFINE k == nodes[old[a]].kids[i]
  <2>1. a \in 1 .. Len(old) /\ old[a] \in Copies[Lhs] /\ old[a] \in 1 .. Lhs
    BY <1>4, <1>5
  <2>2. old[a] \in DOMAIN nodes
    BY <1>1, <1>2, <2>1
  <2>3. nodes'[L + a].kids = [j \in DOMAIN nodes[old[a]].kids |-> NewOf(Lhs, nodes[old[a]].kids[j])]
    BY <1>1, <1>5
  <2>4. i \in DOMAIN nodes[old[a]].kids /\ nodes'[L + a].kids[i] = NewOf(Lhs, k)
    BY <2>3
  <2>5. k \in 0 .. old[a] - 1 /\ (k # 0 => k \in Kids(old[a]))
    BY <2>2, <2>4, KidsFacts DEF OnceInv, IInv
  <2> HIDE DEF k
  <2>6. k # 0
    <3> SUFFICES ASSUME k = 0 PROVE FALSE
      OBVIOUS
    <3>1. Copies[Lhs] \subseteq 1 .. Lhs
      BY <1>1, CopiesFacts DEF OnceInv, IInv
    <3>2. k \notin Copies[Lhs]
      BY <3>1
    <3>3. NewOf(Lhs, k) = 0
      BY <3>2 DEF NewOf
    <3> QED
      BY <1>9, <2>4, <3>3
  <2>7. k \in Copies[Lhs]
    BY <1>3, <2>1, <2>5, <2>6
  <2>8. NewOf(Lhs, k) = L + Place(Lhs, k)
    BY <2>7 DEF NewOf, L
  <2>9. k < Lhs
    BY <1>1, <1>2, <2>1, <2>5
  <2>10. Place(Lhs, k) \in 1 .. Len(old) /\ Place(Lhs, k) < Place(Lhs, Lhs)
    BY <1>3, <1>4, <2>7, <2>9
  <2>11. Place(Lhs, k) \in 1 .. c - 1
    BY <1>1, <1>4, <1>5, <2>10
  <2> QED
    BY <2>2, <2>4, <2>6, <2>7, <2>8, <2>11 DEF k
<1>10. ASSUME NEW a \in 1 .. c, NEW i \in DOMAIN nodes'[L + a].kids, nodes'[L + a].kids[i] # 0,
              NEW b \in 1 .. c, NEW j \in DOMAIN nodes'[L + b].kids,
              nodes'[L + a].kids[i] = nodes'[L + b].kids[j]
       PROVE  a = b /\ i = j
  <2> DEFINE k == nodes[old[a]].kids[i]
             l == nodes[old[b]].kids[j]
  <2>1. /\ old[a] \in DOMAIN nodes /\ i \in DOMAIN nodes[old[a]].kids
        /\ k \in Copies[Lhs] /\ k # 0 /\ nodes'[L + a].kids[i] = L + Place(Lhs, k)
        /\ Place(Lhs, k) \in 1 .. c - 1
    BY <1>9, <1>10
  <2>2. /\ old[b] \in DOMAIN nodes /\ j \in DOMAIN nodes[old[b]].kids
        /\ l \in Copies[Lhs] /\ nodes'[L + b].kids[j] = L + Place(Lhs, l)
        /\ Place(Lhs, l) \in 1 .. c - 1
    BY <1>9, <1>10
  <2>3. k = l
    <3> HIDE DEF k, l
    <3>1. Place(Lhs, k) = Place(Lhs, l)
      <4>1. L + Place(Lhs, k) = L + Place(Lhs, l)
        BY <1>10, <2>1, <2>2
      <4>2. Place(Lhs, k) \in Int /\ Place(Lhs, l) \in Int /\ L \in Int
        BY <1>2, <2>1, <2>2
      <4> QED
        BY <4>1, <4>2
    <3> QED
      BY <1>4, <2>1, <2>2, <3>1
  <2>4. old[a] = old[b] /\ i = j
    BY <2>1, <2>2, <2>3 DEF OnceInv, OneParent
  <2>5. a \in 1 .. Len(old) /\ b \in 1 .. Len(old)
    BY <1>5
  <2> QED
    BY <1>4, <2>4, <2>5
<1>11. /\ DOMAIN sum = {1, 2} /\ sum[1] = L + c /\ sum[2] = Rhs
       /\ DOMAIN both = {1, 2} /\ both[1] = Lhs /\ both[2] = L + size + 1
  BY <1>6
<1> HIDE DEF sum, both
\* Every child of a new node, by where it is.
<1> DEFINE Child(m, i, v) ==
      \/ \E a \in 1 .. c : m = L + a /\ v \in L + 1 .. L + c - 1
      \/ m = L + size + 1 /\ i = 1 /\ v = L + c
      \/ m = L + size + 1 /\ i = 2 /\ v = Rhs
      \/ m = L + size + 2 /\ i = 1 /\ v = Lhs
      \/ m = L + size + 2 /\ i = 2 /\ v = L + size + 1
<1>12. ASSUME NEW m \in DOMAIN nodes' \ DOMAIN nodes, NEW i \in DOMAIN nodes'[m].kids, nodes'[m].kids[i] # 0
       PROVE  Child(m, i, nodes'[m].kids[i])
  <2> DEFINE a == m - L
  <2>1. a \in 1 .. size + 2 /\ m = L + a
    BY <1>1, <1>2, <1>7
  <2> HIDE DEF a
  <2>2. a \in 1 .. c \/ (Rule.do = "++" /\ a = size) \/ a = size + 1 \/ a = size + 2
    BY <1>0, <1>1, <1>7, <2>1
  <2>3. CASE a \in 1 .. c
    <3>1. nodes'[m].kids[i] = L + Place(Lhs, nodes[old[a]].kids[i]) /\ Place(Lhs, nodes[old[a]].kids[i]) \in 1 .. c - 1
      BY <1>9, <1>12, <2>1, <2>3
    <3>2. nodes'[m].kids[i] \in L + 1 .. L + c - 1
      BY <1>1, <1>2, <3>1
    <3> QED
      BY <2>1, <2>3, <3>2
  <2>4. CASE Rule.do = "++" /\ a = size
    <3>1. nodes'[m].kids = <<>>
      BY <1>1, <2>1, <2>4
    <3> QED
      BY <3>1
  <2>5. CASE a = size + 1
    <3>1. m = L + size + 1
      BY <1>2, <1>7, <2>1, <2>5
    <3>2. nodes'[m].kids = sum
      BY <1>1, <3>1
    <3> QED
      BY <1>11, <3>1, <3>2
  <2>6. CASE a = size + 2
    <3>1. m = L + size + 2
      BY <1>2, <1>7, <2>1, <2>6
    <3>2. nodes'[m].kids = both
      BY <1>1, <3>1
    <3> QED
      BY <1>11, <3>1, <3>2
  <2> QED
    BY <2>2, <2>3, <2>4, <2>5, <2>6
<1>13. \/ Rhs = L + c + 1 /\ size = c + 1
       \/ Rhs \in 0 .. L /\ Rhs # Lhs /\ Rhs \in ToSet(Operands) /\ size = c
  <2>1. CASE Rule.do = "++"
    <3>1. Rhs = L + size /\ size = c + 1
      BY <1>7, <2>1
    <3>2. c \in Nat /\ L \in Nat
      BY <1>1, <1>2
    <3>3. L + (c + 1) = L + c + 1
      BY <3>2
    <3> QED
      BY <3>1, <3>3
  <2>2. CASE Rule.do = "op="
    BY <1>7, <1>8, <2>2
  <2> QED
    BY <1>0, <2>1, <2>2
<1>14. Lhs \in 1 .. L
  BY <1>1, <1>2
<1>15. ASSUME NEW m, NEW i, NEW v, Child(m, i, v), v # 0
       PROVE  v \in ToSet(Operands) \/ v > L
  <2>1. c \in Nat /\ L \in Nat /\ size \in Nat /\ c # 0
    BY <1>1, <1>2, <1>4, <1>5, <1>7
  <2> QED
    BY <1>8, <1>13, <1>14, <1>15, <2>1
<1>16. ASSUME NEW m, NEW i, NEW n, NEW j, NEW v, v # 0, Child(m, i, v), Child(n, j, v)
       PROVE  \/ m = n /\ i = j
              \/ \E a, b \in 1 .. c : m = L + a /\ n = L + b
  <2>1. c \in Nat /\ L \in Nat /\ size \in Nat /\ c # 0
    BY <1>1, <1>2, <1>4, <1>5, <1>7
  <2> QED
    BY <1>13, <1>14, <1>16, <2>1
<1>17. ASSUME NEW m \in DOMAIN nodes' \ DOMAIN nodes, NEW n \in DOMAIN nodes' \ DOMAIN nodes,
              NEW i \in DOMAIN nodes'[m].kids, NEW j \in DOMAIN nodes'[n].kids,
              nodes'[m].kids[i] # 0
       PROVE  /\ nodes'[m].kids[i] \in ToSet(Operands) \/ nodes'[m].kids[i] > L
              /\ nodes'[m].kids[i] = nodes'[n].kids[j] => m = n /\ i = j
  <2>1. Child(m, i, nodes'[m].kids[i])
    BY <1>12, <1>17
  <2>2. ASSUME nodes'[m].kids[i] = nodes'[n].kids[j]
        PROVE  m = n /\ i = j
    <3>1. Child(n, j, nodes'[n].kids[j])
      BY <1>12, <1>17, <2>2
    <3> HIDE DEF Child
    <3>2. (m = n /\ i = j) \/ \E a, b \in 1 .. c : m = L + a /\ n = L + b
      BY <1>16, <1>17, <2>1, <2>2, <3>1
    <3>3. ASSUME NEW a \in 1 .. c, NEW b \in 1 .. c, m = L + a, n = L + b
          PROVE  m = n /\ i = j
      BY <1>10, <1>17, <2>2, <3>3
    <3> QED
      BY <3>2, <3>3
  <2> HIDE DEF Child
  <2> QED
    BY <1>15, <1>17, <2>1, <2>2
<1>18. NewOnce
  BY <1>17 DEF NewOnce, L
<1>19. L + size + 2 = Len(nodes') /\ L + size + 2 > L
  BY <1>1, <1>2, <1>7
<1> QED
  BY <1>0, <1>1, <1>18, <1>19, ParsedOnce DEF L

LEMMA ConstructFunctionOnce ==
  ASSUME OnceInv, ConstructFunction
  PROVE  OnceInv'
<1> DEFINE L == Len(nodes)
           args == [i \in Args |-> i]
           kids == <<stack[1]>> \o args
<1>1. pc = "parse" /\ text = <<>> /\ pc' = "type"
  BY DEF ConstructFunction
<1>2. /\ IInv' /\ Len(nodes') = L + 1 /\ nodes'[L + 1].kids = kids
      /\ \A n \in DOMAIN nodes : nodes'[n] = nodes[n]
  BY ConstructFunctionOK DEF OnceInv
<1>3. /\ L \in Nat /\ DOMAIN nodes = 1 .. L /\ DOMAIN nodes' = 1 .. L + 1
  BY <1>2, KidsBefore DEF OnceInv, IInv, NodesOK
<1>4. Args = 1 .. Len(prog.args) /\ Len(prog.args) \in Nat
  BY ProgramsAssumption DEF OnceInv, IInv, NodesOK, WellFormed, Args
<1>5. Len(stack) = 1 /\ stack[1] \in DOMAIN nodes /\ stack \in Seq(0 .. L)
  BY <1>1, BodyWaits DEF OnceInv, IInv, ParseOK
<1>6. stack[1] # 0 /\ stack[1] \notin Args /\ ~ HasParent(stack[1]) /\ \A a \in Args : ~ HasParent(a)
  <2>1. 1 \in DOMAIN stack /\ stack[1] # 0
    BY <1>3, <1>5
  <2> QED
    BY <1>1, <2>1 DEF OnceInv, Waiting
<1>7. /\ DOMAIN kids = 1 .. Len(prog.args) + 1 /\ kids[1] = stack[1]
      /\ \A i \in 2 .. Len(prog.args) + 1 : kids[i] = i - 1 /\ i - 1 \in Args
  <2>1. <<stack[1]>> \in Seq(Nat)
    BY <1>3, <1>5
  <2>2. args \in Seq(Nat) /\ Len(args) = Len(prog.args) /\ \A i \in 1 .. Len(prog.args) : args[i] = i
    BY <1>4
  <2> HIDE DEF args
  <2>3. /\ DOMAIN kids = 1 .. Len(prog.args) + 1 /\ kids[1] = stack[1]
        /\ \A i \in 1 .. Len(prog.args) : kids[1 + i] = args[i]
    BY <2>1, <2>2
  <2>4. ASSUME NEW i \in 2 .. Len(prog.args) + 1
        PROVE  kids[i] = i - 1 /\ i - 1 \in Args
    <3>1. i - 1 \in 1 .. Len(prog.args) /\ 1 + (i - 1) = i
      BY <1>4
    <3> HIDE DEF kids
    <3>2. kids[i] = args[i - 1]
      BY <2>3, <3>1
    <3> QED
      BY <1>4, <2>2, <3>1, <3>2
  <2> QED
    BY <2>3, <2>4
<1> HIDE DEF kids, L
<1>8. ASSUME NEW i \in DOMAIN kids
      PROVE  ~ HasParent(kids[i]) /\ (i = 1 \/ (kids[i] = i - 1 /\ i - 1 \in Args))
  <2>1. i = 1 \/ i \in 2 .. Len(prog.args) + 1
    BY <1>4, <1>7
  <2> QED
    BY <1>6, <1>7, <2>1
<1>9. ASSUME NEW i \in DOMAIN kids, NEW j \in DOMAIN kids, kids[i] = kids[j]
      PROVE  i = j
  <2>1. i \in Nat /\ j \in Nat
    BY <1>4, <1>7
  <2>2. CASE i = 1 /\ j = 1
    BY <2>2
  <2>3. CASE i = 1 /\ j # 1
    BY <1>6, <1>7, <1>8, <1>9, <2>3
  <2>4. CASE i # 1 /\ j = 1
    BY <1>6, <1>7, <1>8, <1>9, <2>4
  <2>5. CASE i # 1 /\ j # 1
    <3>1. i - 1 = j - 1
      BY <1>8, <1>9, <2>5
    <3> QED
      BY <2>1, <3>1
  <2> QED
    BY <2>2, <2>3, <2>4, <2>5
<1>10. \A m \in DOMAIN nodes : \A i \in DOMAIN nodes[m].kids :
         nodes[m].kids[i] # 0 => HasParent(nodes[m].kids[i])
  <2> SUFFICES ASSUME NEW m \in DOMAIN nodes, NEW i \in DOMAIN nodes[m].kids, nodes[m].kids[i] # 0
               PROVE  HasParent(nodes[m].kids[i])
    OBVIOUS
  <2>1. nodes[m].kids[i] \in Kids(m)
    BY KidsFacts DEF OnceInv, IInv
  <2> QED
    BY <2>1 DEF HasParent
<1>11. OneParent'
  <2> SUFFICES ASSUME NEW m \in DOMAIN nodes', NEW n \in DOMAIN nodes',
                      NEW i \in DOMAIN nodes'[m].kids, NEW j \in DOMAIN nodes'[n].kids,
                      nodes'[m].kids[i] # 0, nodes'[m].kids[i] = nodes'[n].kids[j]
               PROVE  m = n /\ i = j
    BY DEF OneParent
  <2>1. (m \in DOMAIN nodes \/ m = L + 1) /\ (n \in DOMAIN nodes \/ n = L + 1)
    BY <1>3
  <2>2. CASE m \in DOMAIN nodes /\ n \in DOMAIN nodes
    BY <1>2, <2>2 DEF OnceInv, OneParent
  <2>3. CASE m = L + 1 /\ n = L + 1
    BY <1>2, <1>9, <2>3
  <2>4. CASE m \in DOMAIN nodes /\ n = L + 1
    BY <1>2, <1>8, <1>10, <2>4
  <2>5. CASE m = L + 1 /\ n \in DOMAIN nodes
    BY <1>2, <1>8, <1>10, <2>5
  <2> QED
    BY <2>1, <2>2, <2>3, <2>4, <2>5
<1> QED
  BY <1>1, <1>2, <1>11 DEF OnceInv, Waiting, DeletedDown, DeletedOnce

LEMMA PassOnce ==
  ASSUME OnceInv, TypeDef \/ TypeIdent \/ TypeBody \/ TypeOther \/ TypeCheck \/ Eliminate \/ Generate
  PROVE  OnceInv'
<1>1. /\ IInv' /\ nodes' = nodes
      /\ pc' \in {"type", "eliminate", "codegen", "undeclared", "rejected"}
  BY PassOK DEF OnceInv, parsing
<1>2. OneParent'
  BY <1>1 DEF OnceInv, OneParent
<1> QED
  BY <1>1, <1>2 DEF OnceInv, Waiting, DeletedDown, DeletedOnce

LEMMA StartDeleteOnce ==
  ASSUME OnceInv, StartDelete
  PROVE  OnceInv'
<1>1. /\ IInv' /\ nodes' = nodes /\ freed' = freed /\ freed = {}
      /\ WorkNodes' = {Root} /\ work' = Visits(<<Root>>, 0)
  BY StartDeleteOK DEF OnceInv, parsing
<1>2. pc' = "delete"
  BY DEF StartDelete
<1>3. OneParent'
  BY <1>1 DEF OnceInv, OneParent
<1>4. \A i, j \in DOMAIN work' : work'[i].node = work'[j].node => i = j
  <2> DEFINE one == <<Root>>
  <2>1. Root \in Nat /\ 0 \notin DOMAIN nodes
    BY KidsBefore DEF OnceInv, IInv, Root
  <2>2. one \in Seq(Nat) /\ \A i, j \in DOMAIN one : i = j
    BY <2>1
  <2> HIDE DEF one
  <2>3. \A i, j \in DOMAIN Visits(one, 0) : Visits(one, 0)[i].node = Visits(one, 0)[j].node => i = j
    BY <2>1, <2>2, VisitsOnce
  <2> QED
    BY <1>1, <2>3 DEF one
<1>5. Root' = Root
  BY <1>1 DEF Root
<1>6. DeletedDown'
  BY <1>1, <1>4, <1>5 DEF DeletedDown
<1> QED
  BY <1>1, <1>2, <1>3, <1>6 DEF OnceInv, Waiting, DeletedOnce

Once(s) == \A i, j \in DOMAIN s : s[i].node = s[j].node => i = j

LEMMA OnceConcat ==
  ASSUME NEW D, NEW s \in Seq(D), NEW t \in Seq(D), Once(s), Once(t), NodesOf(s) \cap NodesOf(t) = {}
  PROVE  Once(s \o t)
<1> DEFINE u == s \o t
<1>1. /\ Len(s) \in Nat /\ Len(t) \in Nat /\ DOMAIN s = 1 .. Len(s) /\ DOMAIN t = 1 .. Len(t)
      /\ DOMAIN u = 1 .. Len(s) + Len(t)
      /\ \A i \in 1 .. Len(s) : u[i] = s[i]
      /\ \A i \in 1 .. Len(t) : u[Len(s) + i] = t[i]
  OBVIOUS
<1> HIDE DEF u
<1>2. ASSUME NEW i \in DOMAIN u
      PROVE  \/ i \in DOMAIN s /\ u[i] = s[i] /\ u[i].node \in NodesOf(s)
             \/ i - Len(s) \in DOMAIN t /\ u[i] = t[i - Len(s)] /\ u[i].node \in NodesOf(t)
  <2>1. CASE i \in 1 .. Len(s)
    BY <1>1, <2>1 DEF NodesOf
  <2>2. CASE ~ (i \in 1 .. Len(s))
    <3>1. i - Len(s) \in 1 .. Len(t) /\ i = Len(s) + (i - Len(s))
      BY <1>1, <2>2
    <3>2. u[i] = t[i - Len(s)] /\ i - Len(s) \in DOMAIN t
      BY <1>1, <3>1
    <3> QED
      BY <3>2 DEF NodesOf
  <2> QED
    BY <2>1, <2>2
<1>3. ASSUME NEW i \in DOMAIN u, NEW j \in DOMAIN u, u[i].node = u[j].node
      PROVE  i = j
  <2>1. CASE u[i].node \in NodesOf(s)
    <3>1. i \in DOMAIN s /\ j \in DOMAIN s /\ u[i] = s[i] /\ u[j] = s[j]
      BY <1>2, <1>3, <2>1
    <3> QED
      BY <1>3, <3>1 DEF Once
  <2>2. CASE u[i].node \notin NodesOf(s)
    <3>1. /\ i - Len(s) \in DOMAIN t /\ j - Len(s) \in DOMAIN t
          /\ u[i] = t[i - Len(s)] /\ u[j] = t[j - Len(s)]
      BY <1>2, <1>3, <2>2
    <3>2. i - Len(s) = j - Len(s)
      BY <1>3, <3>1 DEF Once
    <3>3. i \in Int /\ j \in Int
      BY <1>1
    <3> QED
      BY <1>1, <3>2, <3>3
  <2> QED
    BY <2>1, <2>2
<1> QED
  BY <1>3 DEF Once, u

LEMMA DeleteOnce ==
  ASSUME OnceInv, Delete
  PROVE  OnceInv'
<1> DEFINE below == Visits(nodes[Next1].kids, 0)
           rest == Tail(work)
           D == [node : DOMAIN nodes, in : {0}]
<1>1. pc = "delete" /\ work # <<>> /\ nodes' = nodes
  BY DEF Delete, parsing
<1>2. IInv'
  BY DeleteStepOK DEF OnceInv
<1>3. /\ Next1 \in DOMAIN nodes /\ nodes[Next1].kids \in Seq(Nat)
      /\ below \in Seq(D) /\ rest \in Seq(D)
      /\ NodesOf(below) = Kids(Next1)
      /\ WorkNodes = {Next1} \cup NodesOf(rest)
      /\ NodesOf(below \o rest) = Kids(Next1) \cup NodesOf(rest)
  BY <1>1, NextFacts DEF OnceInv
<1>4. /\ Once(work) /\ WorkNodes \cap freed = {}
      /\ \A n \in freed \cup WorkNodes : n = Root \/ \E m \in freed : n \in Kids(m)
  BY <1>1 DEF OnceInv, DeletedDown, Once
<1>5. /\ pc' = "delete" /\ freed' = freed \cup {Next1} /\ work' = below \o rest
  <2>1. Next1 \notin freed
    BY <1>3, <1>4
  <2> QED
    BY <1>1, <2>1 DEF Delete
<1>6. Once(rest) /\ Next1 \notin NodesOf(rest)
  <2>1. work \in Seq(D) /\ work # <<>>
    BY <1>1 DEF OnceInv, IInv, DeleteOK
  <2> HIDE DEF D
  <2>2. /\ Len(work) \in Nat /\ DOMAIN work = 1 .. Len(work) /\ 1 \in DOMAIN work
        /\ DOMAIN rest = 1 .. Len(work) - 1 /\ Head(work) = work[1]
        /\ \A i \in 1 .. Len(work) - 1 : rest[i] = work[i + 1]
    BY <2>1
  <2> HIDE DEF rest
  <2>3. \A i \in DOMAIN rest : i \in Nat /\ i + 1 \in DOMAIN work /\ i + 1 # 1 /\ rest[i] = work[i + 1]
    BY <2>2
  <2>4. Once(rest)
    <3> SUFFICES ASSUME NEW i \in DOMAIN rest, NEW j \in DOMAIN rest, rest[i].node = rest[j].node
                 PROVE  i = j
      BY DEF Once
    <3>1. i + 1 = j + 1
      BY <1>4, <2>3 DEF Once
    <3> QED
      BY <2>3, <3>1
  <2>5. Next1 \notin NodesOf(rest)
    <3> SUFFICES ASSUME NEW i \in DOMAIN rest, Next1 = rest[i].node
                 PROVE  FALSE
      BY DEF NodesOf
    <3>1. Next1 = work[1].node /\ rest[i] = work[i + 1]
      BY <2>2, <2>3 DEF Next1
    <3> QED
      BY <1>4, <2>2, <2>3, <3>1 DEF Once
  <2> QED
    BY <2>4, <2>5
<1>7. Once(below)
  <2> DEFINE ids == nodes[Next1].kids
  <2>1. \A i, j \in DOMAIN ids : ids[i] # 0 /\ ids[i] = ids[j] => i = j
    BY <1>3 DEF OnceInv, OneParent
  <2>2. ids \in Seq(Nat) /\ 0 \notin DOMAIN nodes
    BY <1>3, KidsBefore DEF OnceInv, IInv
  <2>3. below = Visits(ids, 0)
    OBVIOUS
  <2> HIDE DEF ids, below
  <2>4. \A i, j \in DOMAIN Visits(ids, 0) : Visits(ids, 0)[i].node = Visits(ids, 0)[j].node => i = j
    BY <2>1, <2>2, VisitsOnce
  <2> QED
    BY <2>3, <2>4 DEF Once
<1> HIDE DEF below, rest, D
\* The children of the node are new to the deletion.
<1>8. ASSUME NEW k \in Kids(Next1)
      PROVE  k \notin freed \cup WorkNodes
  <2>1. k # Root
    <3>1. /\ Len(nodes) \in Nat /\ DOMAIN nodes = 1 .. Len(nodes)
          /\ k \in 1 .. Next1 - 1
      BY <1>3, KidsBefore DEF OnceInv, IInv
    <3>2. PICK p : p = Next1
      OBVIOUS
    <3>3. p \in 1 .. Len(nodes)
      BY <1>3, <3>1, <3>2
    <3>4. k \in 1 .. p - 1 /\ Root = Len(nodes) /\ Len(nodes) \in Nat
      BY <3>1, <3>2 DEF Root
    <3> QED
      BY <3>3, <3>4
  <2>2. ASSUME NEW m \in freed, k \in Kids(m)
        PROVE  FALSE
    <3>1. m \in DOMAIN nodes
      BY <1>1 DEF OnceInv, IInv, DeleteOK
    <3>2. PICK i \in DOMAIN nodes[m].kids : nodes[m].kids[i] = k /\ k # 0
      BY <2>2, <3>1, KidsFacts DEF OnceInv, IInv
    <3>3. PICK j \in DOMAIN nodes[Next1].kids : nodes[Next1].kids[j] = k
      BY <1>3, <1>8, KidsFacts DEF OnceInv, IInv
    <3>4. m = Next1
      BY <1>3, <3>1, <3>2, <3>3 DEF OnceInv, OneParent
    <3> QED
      BY <1>3, <1>4, <2>2, <3>4
  <2> QED
    BY <1>4, <2>1, <2>2
<1>9. Once(work')
  <2>1. NodesOf(below) \cap NodesOf(rest) = {}
    BY <1>3, <1>8
  <2> QED
    BY <1>3, <1>5, <1>6, <1>7, <2>1, OnceConcat
<1>10. WorkNodes' = Kids(Next1) \cup NodesOf(rest)
  BY <1>3, <1>5 DEF WorkNodes, NodesOf
<1>11. WorkNodes' \cap freed' = {}
  BY <1>3, <1>4, <1>5, <1>6, <1>8, <1>10
<1>12. ASSUME NEW n \in freed' \cup WorkNodes'
       PROVE  n = Root \/ \E m \in freed' : n \in Kids(m)
  BY <1>3, <1>4, <1>5, <1>10
<1>13. Root' = Root /\ \A m : Kids(m)' = Kids(m)
  BY <1>1 DEF Root, Kids
<1>14. DeletedDown'
  BY <1>9, <1>11, <1>12, <1>13 DEF DeletedDown, Once
<1>15. OneParent'
  BY <1>1 DEF OnceInv, OneParent
<1> QED
  BY <1>2, <1>5, <1>14, <1>15 DEF OnceInv, Waiting, DeletedOnce

LEMMA FinishOnce ==
  ASSUME OnceInv, Finish
  PROVE  OnceInv'
<1>1. pc' = "done" /\ nodes' = nodes /\ IInv'
  BY FinishOK DEF OnceInv, Finish, parsing
<1>2. OneParent'
  BY <1>1 DEF OnceInv, OneParent
<1> QED
  BY <1>1, <1>2 DEF OnceInv, Waiting, DeletedDown, DeletedOnce

LEMMA StutterOnce ==
  ASSUME OnceInv, UNCHANGED vars
  PROVE  OnceInv'
<1>1. /\ pc' = pc /\ prog' = prog /\ stack' = stack /\ nodes' = nodes
      /\ work' = work /\ freed' = freed /\ IInv'
  BY StutterOK DEF OnceInv, vars, parsing
<1>2. OneParent'
  BY <1>1 DEF OnceInv, OneParent
<1>3. Waiting'
  BY <1>1 DEF OnceInv, Waiting, Args, HasParent, Kids
<1>4. DeletedDown'
  BY <1>1 DEF OnceInv, DeletedDown, WorkNodes, Root, Kids
<1> QED
  BY <1>1, <1>2, <1>3, <1>4 DEF OnceInv, DeletedOnce

LEMMA InitOnce ==
  ASSUME Init
  PROVE  OnceInv
<1>1. IInv
  BY InitInv
<1>2. /\ pc = "parse" /\ stack = <<>>
      /\ \A n \in DOMAIN nodes : nodes[n].kids = <<0>>
  <2>1. /\ pc = "parse" /\ stack = <<>>
        /\ nodes = [i \in DOMAIN prog.args |-> Node("def", prog.args[i].name, prog.args[i].type, <<0>>)]
    BY DEF Init
  <2>2. \A n \in DOMAIN nodes : nodes[n] = Node("def", prog.args[n].name, prog.args[n].type, <<0>>)
    BY <2>1
  <2>3. \A a, b : Node("def", a, b, <<0>>).kids = <<0>>
    BY DEF Node
  <2> QED
    BY <2>1, <2>2, <2>3
<1>3. \A n \in DOMAIN nodes : \A i \in DOMAIN nodes[n].kids : nodes[n].kids[i] = 0
  <2>1. \A i \in DOMAIN <<0>> : <<0>>[i] = 0
    OBVIOUS
  <2> QED
    BY <1>2, <2>1
<1>4. OneParent
  BY <1>3 DEF OneParent
<1>5. \A n : ~ HasParent(n)
  BY <1>3 DEF HasParent, Kids, ToSet
<1>6. Waiting
  BY <1>2, <1>5 DEF Waiting
<1> QED
  BY <1>1, <1>2, <1>4, <1>6 DEF OnceInv, DeletedDown, DeletedOnce

LEMMA NextOnce ==
  ASSUME OnceInv, WholeCopied, [Next]_vars
  PROVE  OnceInv'
<1>1. CASE LeaveOut
  BY <1>1, LeaveOutOnce
<1>2. CASE Construct
  BY <1>2, ConstructOnce
<1>3. CASE ConstructLookup
  BY <1>3, ConstructLookupOnce
<1>4. CASE ConstructCompound
  BY <1>4, ConstructCompoundOnce
<1>5. CASE ConstructFunction
  BY <1>5, ConstructFunctionOnce
<1>6. CASE TypeDef \/ TypeIdent \/ TypeBody \/ TypeOther \/ TypeCheck \/ Eliminate \/ Generate
  BY <1>6, PassOnce
<1>7. CASE StartDelete
  BY <1>7, StartDeleteOnce
<1>8. CASE Delete
  BY <1>8, DeleteOnce
<1>9. CASE Finish
  BY <1>9, FinishOnce
<1>10. CASE UNCHANGED vars
  BY <1>10, StutterOnce
<1> QED
  BY <1>1, <1>2, <1>3, <1>4, <1>5, <1>6, <1>7, <1>8, <1>9, <1>10 DEF Next, Stutter

\* When copy() copies whole left sides of compound assignments, no node is
\* deleted twice, for every program: the nodes are a tree, and ~ASTNode walks it
\* once.  A left side with a constant that copy() shares is what breaks it.
THEOREM WholeCopiesAreDeletedOnce == Spec /\ []WholeCopied => []DeletedOnce
<1>1. Init => OnceInv
  BY InitOnce
<1>2. OnceInv /\ WholeCopied /\ [Next]_vars => OnceInv'
  BY NextOnce
<1>3. OnceInv => DeletedOnce
  BY DEF OnceInv
<1> QED
  BY <1>1, <1>2, <1>3, PTL DEF Spec

-----------------------------------------------------------------------------
-----------------------------------------------------------------------------
(* Every expression is typed: what the visitor returns has the kinds that  *)
(* the grammar says, the pass over the tree reaches every name, and        *)
(* type_check looks at the parent of every expression.                     *)

KindIn(ns, n) == IF n = 0 THEN "null" ELSE ns[n].kind
KindsIn(ns, ids) == [i \in DOMAIN ids |-> KindIn(ns, ids[i])]
KindOf(n) == KindIn(nodes, n)
KindsOf(ids) == KindsIn(nodes, ids)

\* The kinds of the children of a node, and its type, are what the grammar says.
WellShaped(node, kinds) ==
  /\ {"kind", "name", "type"} \subseteq DOMAIN node
  /\ node.kind \in Expr \cup Stmts \cup {"precond", "body", "function"}
  /\ node.kind \in {"const", "create", "def"} => node.type # Err
  /\ CASE node.kind = "lookup" ->
            kinds # <<>> /\ kinds[1] = "ident" /\ \A i \in DOMAIN kinds \ {1} : kinds[i] \in Expr
       [] node.kind = "prop" -> Len(kinds) = 1 /\ kinds[1] = "ident"
       [] node.kind = "function" -> \A i \in DOMAIN kinds : kinds[i] \in {"body", "def"}
       [] OTHER -> Shape(node.kind, kinds)

\* What the visitor returned has the kinds that its rules say.
KindsOK ==
  /\ pc = "parse" =>
       \A i \in 1 .. Len(stack) :
         KindOf(stack[i]) = Returned(prog.text)[Len(prog.text) - Len(text)][i]
  /\ \A n \in DOMAIN nodes : WellShaped(nodes[n], KindsIn(nodes, nodes[n].kids))
  /\ \A i \in Args : nodes[i].kind = "def" /\ nodes[i].kids = <<0>>

\* How many rules were visited.
LEMMA PositionFacts ==
  ASSUME IInv, pc = "parse", text # <<>>
  PROVE  \E k \in 0 .. Len(prog.text) :
           /\ k < Len(prog.text) /\ Visited(k) /\ Rule = prog.text[k + 1]
           /\ k = Len(prog.text) - Len(text) /\ k + 1 = Len(prog.text) - Len(Tail(text))
<1>1. PICK k \in 0 .. Len(prog.text) :
        /\ k < Len(prog.text) /\ Visited(k) /\ Rule = prog.text[k + 1]
  BY PoppedFacts DEF IInv
<1>2. prog.text \in Seq(ToSet(prog.text)) /\ Len(prog.text) \in Nat
  BY ProgramsAssumption DEF IInv, NodesOK, WellFormed
<1>3. text = SubSeq(prog.text, k + 1, Len(prog.text))
  BY <1>1 DEF Visited
<1>4. Len(text) = Len(prog.text) - k /\ Len(Tail(text)) = Len(text) - 1
  <2>1. PICK T : prog.text \in Seq(T)
    BY <1>2
  <2> DEFINE rest == SubSeq(prog.text, k + 1, Len(prog.text))
  <2>2. rest \in Seq(T) /\ Len(rest) = Len(prog.text) - k
    BY <1>1, <1>2, <2>1
  <2> HIDE DEF rest
  <2>3. Len(Tail(rest)) = Len(rest) - 1
    BY <1>1, <1>2, <2>2
  <2> QED
    BY <1>3, <2>2, <2>3 DEF rest
<1> QED
  BY <1>1, <1>2, <1>4

\* The parts that a rule takes have the kinds that the grammar says.
LEMMA RuleKinds ==
  ASSUME IInv, KindsOK, pc = "parse", text # <<>>
  PROVE  /\ Shape(Rule.do, KindsOf(Operands)) /\ DOMAIN KindsOf(Operands) = 1 .. Rule.n
         /\ Len(KindsOf(Operands)) = Rule.n /\ Rule.n \in Nat
         /\ \A j \in 1 .. Rule.n : KindsOf(Operands)[j] = KindOf(Operands[j])
         /\ Rule.do \in Expr \cup Stmts \cup {"op=", "++", "precond", "body", "null"}
         /\ Rule.do \in {"const", "create", "def"} => IsType(Rule.type)
<1>1. PICK k \in 0 .. Len(prog.text) :
        /\ k < Len(prog.text) /\ Visited(k) /\ Rule = prog.text[k + 1]
        /\ k = Len(prog.text) - Len(text)
  BY PositionFacts
<1> DEFINE left == Returned(prog.text)[k]
           n == Rule.n
<1>2. /\ Len(left) \in Nat /\ n \in 0 .. Len(left)
      /\ Shape(Rule.do, PartsAt(k)) /\ PartsAt(k) = [j \in 1 .. n |-> left[Len(left) - n + j]]
      /\ Rule.do \in Expr \cup Stmts \cup {"op=", "++", "precond", "body", "null"}
      /\ Rule.do \in {"const", "create", "def"} => IsType(Rule.type)
  BY <1>1, RuleFacts DEF IInv, NodesOK
<1>3. Len(stack) = Len(left)
  BY <1>1 DEF Visited
<1>4. /\ Operands \in Seq(0 .. Len(nodes)) /\ Len(Operands) = n
      /\ \A j \in 1 .. n : Operands[j] = stack[Len(stack) - n + j]
  BY PoppedFacts DEF IInv
<1>5. \A i \in 1 .. Len(stack) : KindOf(stack[i]) = left[i]
  BY <1>1 DEF KindsOK
<1> HIDE DEF left, n
<1>6. DOMAIN Operands = 1 .. n
  BY <1>4
<1>7. \A j \in 1 .. n : KindOf(Operands[j]) = left[Len(left) - n + j]
  <2>1. \A j \in 1 .. n : Len(left) - n + j \in 1 .. Len(left)
    BY <1>2
  <2> QED
    BY <1>3, <1>4, <1>5, <2>1
<1>8. KindsOf(Operands) = [j \in 1 .. n |-> KindOf(Operands[j])]
  BY <1>6 DEF KindsOf, KindsIn, KindOf
<1> DEFINE here == [j \in 1 .. n |-> left[Len(left) - n + j]]
           there == [j \in 1 .. n |-> KindOf(Operands[j])]
<1>9. here = there
  BY <1>7
<1>10. Len(there) = n /\ DOMAIN there = 1 .. n /\ \A j \in 1 .. n : there[j] = KindOf(Operands[j])
  BY <1>2
<1>11. PartsAt(k) = here /\ KindsOf(Operands) = there
  BY <1>2, <1>8
<1> HIDE DEF here, there
<1>12. KindsOf(Operands) = PartsAt(k)
  BY <1>9, <1>11
<1>13. n \in Nat
  BY <1>2
<1> QED
  BY <1>2, <1>10, <1>11, <1>12, <1>13 DEF n

\* The kinds of the nodes that were created before.
LEMMA KindsKept ==
  ASSUME NodesOK, \A n \in DOMAIN nodes : nodes'[n] = nodes[n]
  PROVE  /\ \A n \in 0 .. Len(nodes) : KindIn(nodes', n) = KindIn(nodes, n)
         /\ \A n \in DOMAIN nodes : KindsIn(nodes', nodes'[n].kids) = KindsIn(nodes, nodes[n].kids)
<1>1. Len(nodes) \in Nat /\ DOMAIN nodes = 1 .. Len(nodes)
  BY KidsBefore
<1>2. ASSUME NEW n \in 0 .. Len(nodes)
      PROVE  KindIn(nodes', n) = KindIn(nodes, n)
  <2>1. n # 0 => n \in DOMAIN nodes
    BY <1>1
  <2> QED
    BY <2>1 DEF KindIn
<1>3. ASSUME NEW n \in DOMAIN nodes
      PROVE  KindsIn(nodes', nodes'[n].kids) = KindsIn(nodes, nodes[n].kids)
  <2> DEFINE kids == nodes[n].kids
  <2>1. nodes'[n].kids = kids
    OBVIOUS
  <2>2. \A i \in DOMAIN kids : kids[i] \in 0 .. Len(nodes)
    <3>1. \A i \in DOMAIN kids : kids[i] \in 0 .. n - 1
      BY KidsFacts
    <3> QED
      BY <1>1, <3>1
  <2> HIDE DEF kids
  <2> DEFINE here == [i \in DOMAIN kids |-> KindIn(nodes', kids[i])]
             there == [i \in DOMAIN kids |-> KindIn(nodes, kids[i])]
  <2>3. here = there
    BY <1>2, <2>2
  <2>4. KindsIn(nodes', kids) = here /\ KindsIn(nodes, kids) = there
    BY DEF KindsIn
  <2> QED
    BY <2>1, <2>3, <2>4 DEF kids
<1> QED
  BY <1>2, <1>3

\* A rule leaves a node of its kind, and creates nodes that are well shaped.
LEMMA KindsParsed ==
  ASSUME IInv, KindsOK, pc = "parse", text # <<>>, NEW new, RuleDone(new), NodesOK',
         KindIn(nodes', new) = IF Rule.do \in {"op=", "++"} THEN "asg" ELSE Rule.do,
         \A n \in DOMAIN nodes' \ DOMAIN nodes : WellShaped(nodes'[n], KindsIn(nodes', nodes'[n].kids))
  PROVE  KindsOK'
<1>1. PICK k \in 0 .. Len(prog.text) :
        /\ k < Len(prog.text) /\ Visited(k) /\ Rule = prog.text[k + 1]
        /\ k = Len(prog.text) - Len(text) /\ k + 1 = Len(prog.text) - Len(Tail(text))
  BY PositionFacts
<1>2. /\ pc' = "parse" /\ prog' = prog /\ text' = Tail(text) /\ stack' = Append(Kept, new)
      /\ \A n \in DOMAIN nodes : nodes'[n] = nodes[n]
  BY DEF RuleDone, Push, Kept
<1>3. /\ Len(stack) \in Nat /\ Rule.n \in 0 .. Len(stack)
      /\ Kept \in Seq(0 .. Len(nodes)) /\ Len(Kept) = Len(stack) - Rule.n
      /\ \A i \in 1 .. Len(Kept) : Kept[i] = stack[i]
  BY PoppedFacts DEF IInv
<1> DEFINE left == Returned(prog.text)[k]
           next == Returned(prog.text)[k + 1]
           D == 0 .. Len(nodes)
<1>4. /\ Len(left) \in Nat /\ Len(next) = Len(left) - Rule.n + 1
      /\ \A i \in 1 .. Len(left) - Rule.n : next[i] = left[i]
      /\ next[Len(next)] = IF Rule.do \in {"op=", "++"} THEN "asg" ELSE Rule.do
  BY <1>1, RuleFacts DEF IInv, NodesOK
<1>5. Len(stack) = Len(left) /\ \A i \in 1 .. Len(stack) : KindIn(nodes, stack[i]) = left[i]
  BY <1>1 DEF Visited, KindsOK, KindOf
<1>6. \A n \in D : KindIn(nodes', n) = KindIn(nodes, n)
  BY <1>2, KindsKept DEF IInv
<1>7. \A i \in 1 .. Len(Kept) : Kept[i] \in D
  <2> HIDE DEF D
  <2> QED
    BY <1>3 DEF D
<1>8. /\ Len(stack') = Len(Kept) + 1 /\ stack'[Len(Kept) + 1] = new
      /\ \A i \in 1 .. Len(Kept) : stack'[i] = Kept[i]
  <2> DEFINE E == D \cup {new}
  <2> HIDE DEF D
  <2>1. Kept \in Seq(E) /\ new \in E
    BY <1>3 DEF D
  <2> HIDE DEF E
  <2> QED
    BY <1>2, <2>1
<1> HIDE DEF left, next, D
<1>9. ASSUME NEW i \in 1 .. Len(stack')
      PROVE  KindIn(nodes', stack'[i]) = next[i]
  <2>1. CASE i = Len(Kept) + 1
    BY <1>3, <1>4, <1>5, <1>8, <2>1
  <2>2. CASE i # Len(Kept) + 1
    <3>1. i \in 1 .. Len(Kept) /\ i \in 1 .. Len(left) - Rule.n /\ i \in 1 .. Len(stack)
      BY <1>3, <1>4, <1>5, <1>8, <2>2
    <3>2. KindIn(nodes', Kept[i]) = KindIn(nodes, Kept[i])
      BY <1>6, <1>7, <3>1
    <3> QED
      BY <1>3, <1>4, <1>5, <1>8, <3>1, <3>2
  <2> QED
    BY <2>1, <2>2
<1>10. ASSUME NEW n \in DOMAIN nodes'
       PROVE  WellShaped(nodes'[n], KindsIn(nodes', nodes'[n].kids))
  <2>1. CASE n \in DOMAIN nodes
    <3>1. WellShaped(nodes[n], KindsIn(nodes, nodes[n].kids))
      BY <2>1 DEF KindsOK
    <3>2. nodes'[n] = nodes[n]
      BY <1>2, <2>1
    <3>3. KindsIn(nodes', nodes'[n].kids) = KindsIn(nodes, nodes[n].kids)
      BY <1>2, <2>1, KindsKept DEF IInv
    <3> QED
      BY <3>1, <3>2, <3>3
  <2> QED
    BY <2>1
<1>11. \A i \in 1 .. Len(stack') : KindIn(nodes', stack'[i]) = Returned(prog'.text)[Len(prog'.text) - Len(text')][i]
  BY <1>1, <1>2, <1>9 DEF next
<1>12. Args' = Args /\ \A i \in Args : i \in DOMAIN nodes
  <2>1. Args = 1 .. Len(prog.args) /\ Len(prog.args) \in Nat /\ Len(prog.args) <= Len(nodes)
    BY ProgramsAssumption DEF IInv, NodesOK, WellFormed, Args
  <2>2. DOMAIN nodes = 1 .. Len(nodes) /\ Len(nodes) \in Nat
    BY KidsBefore DEF IInv
  <2> QED
    BY <1>2, <2>1, <2>2 DEF Args
<1>13. \A i \in Args' : nodes'[i].kind = "def" /\ nodes'[i].kids = <<0>>
  BY <1>2, <1>12 DEF KindsOK
<1> QED
  BY <1>10, <1>11, <1>13 DEF KindsOK, KindOf

LEMMA TypesAreTypes ==
  ASSUME NEW t, IsType(t)
  PROVE  t # Err
<1> SUFFICES ASSUME t = <<"error">>
             PROVE  FALSE
  BY DEF Err
<1>1. Len(t) = 1 /\ t[1] = "error"
  OBVIOUS
<1>2. t[Len(t)] \in {"int", "string", "char", "bool"}
  BY DEF IsType, Last
<1> QED
  BY <1>1, <1>2

LEMMA LeaveOutKinds ==
  ASSUME IInv, KindsOK, LeaveOut
  PROVE  KindsOK'
<1>1. pc = "parse" /\ text # <<>> /\ Rule.do = "null" /\ nodes' = nodes
  BY DEF LeaveOut, Parsing
<1>2. RuleDone(0) /\ NodesOK'
  BY LeaveOutOK DEF IInv
<1>3. KindIn(nodes', 0) = "null"
  BY DEF KindIn
<1>4. KindIn(nodes', 0) = IF Rule.do \in {"op=", "++"} THEN "asg" ELSE Rule.do
  BY <1>1, <1>3
<1>5. \A n \in DOMAIN nodes' \ DOMAIN nodes : WellShaped(nodes'[n], KindsIn(nodes', nodes'[n].kids))
  BY <1>1
<1> QED
  BY <1>1, <1>2, <1>4, <1>5, KindsParsed

\* The kinds of the parts of a rule do not change as nodes are added.
LEMMA OperandKinds ==
  ASSUME IInv, pc = "parse", text # <<>>, \A n \in DOMAIN nodes : nodes'[n] = nodes[n]
  PROVE  KindsIn(nodes', Operands) = KindsOf(Operands)
<1> DEFINE D == 0 .. Len(nodes)
           ops == Operands
<1>1. ops \in Seq(D)
  BY PoppedFacts DEF IInv
<1>2. \A n \in D : KindIn(nodes', n) = KindIn(nodes, n)
  BY KindsKept DEF IInv
<1> HIDE DEF D, ops
<1>3. \A i \in DOMAIN ops : KindIn(nodes', ops[i]) = KindIn(nodes, ops[i])
  BY <1>1, <1>2
<1> DEFINE here == [i \in DOMAIN ops |-> KindIn(nodes', ops[i])]
           there == [i \in DOMAIN ops |-> KindIn(nodes, ops[i])]
<1>4. here = there
  BY <1>3
<1>5. KindsIn(nodes', ops) = here /\ KindsOf(ops) = there
  BY DEF KindsIn, KindsOf
<1> QED
  BY <1>4, <1>5 DEF ops

LEMMA ConstructKinds ==
  ASSUME IInv, KindsOK, Construct
  PROVE  KindsOK'
<1> DEFINE L == Len(nodes)
           node == Node(Rule.do, Rule.name, Rule.type, Operands)
<1>1. /\ pc = "parse" /\ text # <<>> /\ Rule.do \in Plain /\ nodes' = Append(nodes, node)
  BY DEF Construct, Parsing
<1>2. RuleDone(L + 1) /\ NodesOK' /\ Len(nodes') = L + 1
  BY ConstructOK DEF IInv
<1>3. L \in Nat /\ DOMAIN nodes = 1 .. L /\ DOMAIN nodes' = 1 .. Len(nodes')
  BY <1>2, KidsBefore DEF IInv, NodesOK
<1>4. nodes'[L + 1] = node /\ \A n \in DOMAIN nodes : nodes'[n] = nodes[n]
  <2>1. PICK T : nodes \in Seq(T)
    BY DEF IInv, NodesOK
  <2> HIDE DEF node
  <2> QED
    BY <1>1, <2>1
<1>5. /\ node.kind = Rule.do /\ node.type = Rule.type /\ node.kids = Operands
      /\ {"kind", "name", "type"} \subseteq DOMAIN node
  BY DEF Node
<1> HIDE DEF node, L
<1>6. KindsIn(nodes', Operands) = KindsOf(Operands)
  BY <1>1, <1>4, OperandKinds
<1>7. /\ Shape(Rule.do, KindsOf(Operands))
      /\ Rule.do \in {"const", "create", "def"} => Rule.type # Err
  BY <1>1, RuleKinds, TypesAreTypes
<1>8. /\ Rule.do \notin {"op=", "++", "lookup", "prop", "function"}
      /\ Rule.do \in Expr \cup Stmts \cup {"precond", "body", "function"}
  BY <1>1 DEF Plain, Expr, Stmts
<1>9. WellShaped(node, KindsIn(nodes', node.kids))
  BY <1>5, <1>6, <1>7, <1>8 DEF WellShaped
<1>10. KindIn(nodes', L + 1) = IF Rule.do \in {"op=", "++"} THEN "asg" ELSE Rule.do
  <2>1. L + 1 # 0
    BY <1>3
  <2> QED
    BY <1>4, <1>5, <1>8, <2>1 DEF KindIn
<1>11. \A n \in DOMAIN nodes' \ DOMAIN nodes : WellShaped(nodes'[n], KindsIn(nodes', nodes'[n].kids))
  <2>1. \A n \in DOMAIN nodes' \ DOMAIN nodes : n = L + 1
    BY <1>2, <1>3
  <2> QED
    BY <1>4, <1>9, <2>1
<1> QED
  BY <1>1, <1>2, <1>10, <1>11, KindsParsed DEF L

LEMMA NoParts ==
  ASSUME NEW ns, NEW do \in {"ident", "const"}
  PROVE  Shape(do, KindsIn(ns, <<>>))
<1>1. Parts(do) = <<>>
  BY DEF Parts
<1>2. KindsIn(ns, <<>>) = <<>>
  BY DEF KindsIn
<1> QED
  BY <1>1, <1>2 DEF Shape

LEMMA ConstructLookupKinds ==
  ASSUME IInv, KindsOK, ConstructLookup
  PROVE  KindsOK'
<1> DEFINE L == Len(nodes)
           kids == <<L + 1>> \o Operands
           ident == Node("ident", Rule.name, <<>>, <<>>)
           node == Node(Rule.do, Rule.type[1], <<>>, kids)
           more == <<ident, node>>
<1>1. /\ pc = "parse" /\ text # <<>> /\ Rule.do \in {"lookup", "prop"} /\ nodes' = nodes \o more
  BY DEF ConstructLookup, Parsing
<1>2. RuleDone(L + 2) /\ NodesOK' /\ Len(nodes') = L + 2
  BY ConstructLookupOK DEF IInv
<1>3. L \in Nat /\ DOMAIN nodes = 1 .. L /\ DOMAIN nodes' = 1 .. Len(nodes')
  BY <1>2, KidsBefore DEF IInv, NodesOK
<1>4. nodes'[L + 1] = ident /\ nodes'[L + 2] = node /\ \A n \in DOMAIN nodes : nodes'[n] = nodes[n]
  <2>1. PICK T : nodes \in Seq(T)
    BY DEF IInv, NodesOK
  <2> DEFINE U == T \cup {ident, node}
  <2> HIDE DEF node, ident
  <2>2. nodes \in Seq(U) /\ more \in Seq(U) /\ Len(more) = 2 /\ more[1] = ident /\ more[2] = node
    BY <2>1
  <2> HIDE DEF U, more
  <2> QED
    BY <1>1, <1>3, <2>2, PairAtEnd
<1>5. /\ node.kind = Rule.do /\ node.kids = kids /\ {"kind", "name", "type"} \subseteq DOMAIN node
      /\ ident.kind = "ident" /\ ident.kids = <<>> /\ {"kind", "name", "type"} \subseteq DOMAIN ident
  BY DEF Node
<1>6. /\ Operands \in Seq(0 .. L) /\ Len(Operands) = Rule.n /\ Rule.n \in Nat
  BY <1>1, PoppedFacts DEF IInv
<1>7. /\ Len(kids) = Rule.n + 1 /\ DOMAIN kids = 1 .. Rule.n + 1 /\ kids[1] = L + 1
      /\ \A i \in DOMAIN kids \ {1} : i - 1 \in 1 .. Rule.n /\ kids[i] = Operands[i - 1]
  <2> DEFINE D == 0 .. L + 1
             ops == Operands
  <2>1. ops \in Seq(D)
    BY <1>3, <1>6
  <2>2. L + 1 \in D
    BY <1>3
  <2>3. Len(ops) = Rule.n /\ kids = <<L + 1>> \o ops
    BY <1>6
  <2> HIDE DEF D, ops, kids, L
  <2>4. /\ Len(kids) = Rule.n + 1 /\ DOMAIN kids = 1 .. Rule.n + 1 /\ kids[1] = L + 1
        /\ \A i \in DOMAIN kids \ {1} : i - 1 \in 1 .. Rule.n /\ kids[i] = ops[i - 1]
    BY <1>6, <2>1, <2>2, <2>3
  <2> QED
    BY <2>4 DEF ops
<1> HIDE DEF node, ident, L, kids
<1>8. KindsIn(nodes', Operands) = KindsOf(Operands)
  BY <1>1, <1>4, OperandKinds
<1>9. /\ Shape(Rule.do, KindsOf(Operands)) /\ DOMAIN KindsOf(Operands) = 1 .. Rule.n
      /\ Len(KindsOf(Operands)) = Rule.n
  BY <1>1, RuleKinds
<1> DEFINE kinds == KindsIn(nodes', kids)
<1>10. /\ kinds = [i \in 1 .. Rule.n + 1 |-> KindIn(nodes', kids[i])]
       /\ Len(kinds) = Rule.n + 1 /\ DOMAIN kinds = 1 .. Rule.n + 1
  BY <1>6, <1>7 DEF KindsIn
<1>11. kinds[1] = "ident"
  <2>1. 1 \in 1 .. Rule.n + 1 /\ L + 1 # 0
    BY <1>3, <1>6
  <2> QED
    BY <1>4, <1>5, <1>7, <1>10, <2>1 DEF KindIn
<1>12. ASSUME NEW i \in DOMAIN kinds \ {1}
       PROVE  i - 1 \in 1 .. Rule.n /\ kinds[i] = KindsOf(Operands)[i - 1]
  <2>1. i - 1 \in 1 .. Rule.n /\ kids[i] = Operands[i - 1]
    BY <1>7, <1>10
  <2>2. KindsIn(nodes', Operands)[i - 1] = KindIn(nodes', Operands[i - 1])
    <3>1. i - 1 \in DOMAIN Operands
      BY <1>6, <2>1
    <3> QED
      BY <3>1 DEF KindsIn
  <2> QED
    BY <1>8, <1>10, <2>1, <2>2
<1> HIDE DEF kinds
<1>13. WellShaped(node, KindsIn(nodes', node.kids))
  <2>1. CASE Rule.do = "lookup"
    <3>1. ToSet(KindsOf(Operands)) \subseteq Expr
      BY <1>9, <2>1 DEF Shape
    <3>2. \A i \in DOMAIN kinds \ {1} : kinds[i] \in Expr
      BY <1>9, <1>12, <3>1 DEF ToSet
    <3>3. kinds # <<>>
      BY <1>6, <1>10
    <3> QED
      BY <1>5, <1>11, <2>1, <3>2, <3>3 DEF WellShaped, kinds, Expr
  <2>2. CASE Rule.do = "prop"
    <3>1. Parts("prop") = <<>>
      BY DEF Parts
    <3>2. Rule.n = 0
      BY <1>9, <2>2, <3>1 DEF Shape
    <3> QED
      BY <1>5, <1>10, <1>11, <2>2, <3>2 DEF WellShaped, kinds, Expr
  <2> QED
    BY <1>1, <2>1, <2>2
<1>14. WellShaped(ident, KindsIn(nodes', ident.kids))
  BY <1>5, NoParts DEF WellShaped, Expr
<1>15. KindIn(nodes', L + 2) = IF Rule.do \in {"op=", "++"} THEN "asg" ELSE Rule.do
  <2>1. L + 2 # 0
    BY <1>3
  <2> QED
    BY <1>1, <1>4, <1>5, <2>1 DEF KindIn
<1>16. \A n \in DOMAIN nodes' \ DOMAIN nodes : WellShaped(nodes'[n], KindsIn(nodes', nodes'[n].kids))
  <2>1. \A n \in DOMAIN nodes' \ DOMAIN nodes : n = L + 1 \/ n = L + 2
    BY <1>2, <1>3 DEF L
  <2> QED
    BY <1>4, <1>13, <1>14, <2>1
<1> QED
  BY <1>1, <1>2, <1>15, <1>16, KindsParsed DEF L

\* A copy has the kind, the name and the type of the node.
LEMMA CopyRecords ==
  ASSUME NodesOK, KindsOK, NEW n \in DOMAIN nodes, NEW i \in 1 .. Len(Copy(n))
  PROVE  /\ Old(n)[i] \in DOMAIN nodes
         /\ {"kind", "name", "type"} \subseteq DOMAIN Copy(n)[i]
         /\ Copy(n)[i].kind = nodes[Old(n)[i]].kind /\ Copy(n)[i].type = nodes[Old(n)[i]].type
<1>1. Len(nodes) \in Nat /\ DOMAIN nodes = 1 .. Len(nodes) /\ Len(Copy(n)) = Len(Old(n))
  BY KidsBefore, CopyFacts
<1>2. DOMAIN Old(n) = 1 .. Len(Old(n)) /\ Old(n)[i] \in 1 .. n
  BY <1>1, PlaceFacts
<1>3. Old(n)[i] \in DOMAIN nodes
  BY <1>1, <1>2
<1> DEFINE node == nodes[Old(n)[i]]
           kids == [j \in DOMAIN node.kids |-> NewOf(n, node.kids[j])]
<1>4. Copy(n)[i] = [node EXCEPT !.kids = kids]
  BY <1>1, <1>2 DEF Copy, Old, NewOf, Place
<1>5. {"kind", "name", "type"} \subseteq DOMAIN node
  BY <1>3 DEF KindsOK, WellShaped
<1> HIDE DEF kids, node
<1>6. /\ {"kind", "name", "type"} \subseteq DOMAIN [node EXCEPT !.kids = kids]
      /\ [node EXCEPT !.kids = kids].kind = node.kind /\ [node EXCEPT !.kids = kids].type = node.type
  BY <1>5
<1> QED
  BY <1>3, <1>4, <1>6 DEF node

\* The left side of a compound assignment, and what it is assigned, have the
\* kinds of an assignment.
LEMMA CompoundParts ==
  ASSUME IInv, KindsOK, ConstructCompound
  PROVE  /\ KindIn(nodes, Lhs) \in Lvalue
         /\ Rule.do = "op=" => KindIn(nodes, Operands[2]) \in Expr /\ Operands[2] \in 0 .. Len(nodes)
<1>1. pc = "parse" /\ text # <<>> /\ Rule.do \in {"op=", "++"}
  BY DEF ConstructCompound, Parsing
<1> DEFINE kinds == KindsOf(Operands)
           want == Parts(Rule.do)
<1>2. /\ Shape(Rule.do, kinds) /\ DOMAIN kinds = 1 .. Rule.n /\ Len(kinds) = Rule.n /\ Rule.n \in Nat
      /\ \A j \in 1 .. Rule.n : kinds[j] = KindIn(nodes, Operands[j])
  BY <1>1, RuleKinds DEF KindOf
<1>3. /\ Operands \in Seq(0 .. Len(nodes)) /\ Len(Operands) = Rule.n
      /\ (Rule.do = "op=" => Rule.n = 2) /\ (Rule.do = "++" => Rule.n = 1)
  BY <1>1, PoppedFacts DEF IInv
<1>4. \A j \in DOMAIN kinds : kinds[j] \in want[j]
  BY <1>1, <1>2 DEF Shape
<1>5. want[1] = Lvalue /\ (Rule.do = "op=" => want[2] = Expr)
  BY <1>1 DEF Parts
<1> HIDE DEF kinds, want
<1>6. 1 \in 1 .. Rule.n /\ (Rule.do = "op=" => 2 \in 1 .. Rule.n)
  BY <1>1, <1>3
<1>7. Rule.do = "op=" => Operands[2] \in 0 .. Len(nodes)
  <2> DEFINE D == 0 .. Len(nodes)
             ops == Operands
  <2>1. ops \in Seq(D) /\ Len(ops) = Rule.n
    BY <1>3
  <2> HIDE DEF D, ops
  <2>2. Rule.do = "op=" => ops[2] \in D
    BY <1>3, <2>1
  <2> QED
    BY <2>2 DEF D, ops
<1> QED
  BY <1>2, <1>4, <1>5, <1>6, <1>7 DEF Lhs

LEMMA PairShaped ==
  ASSUME NEW ns, NEW x, NEW y, NEW do \in {"binop", "asg"},
         KindIn(ns, x) \in (IF do = "binop" THEN Expr ELSE Lvalue), KindIn(ns, y) \in Expr
  PROVE  Shape(do, KindsIn(ns, <<x, y>>))
<1> DEFINE kinds == KindsIn(ns, <<x, y>>)
           want == Parts(do)
<1>1. Len(kinds) = 2 /\ DOMAIN kinds = 1 .. 2 /\ kinds[1] = KindIn(ns, x) /\ kinds[2] = KindIn(ns, y)
  BY DEF KindsIn
<1>2. Len(want) = 2 /\ want[1] = (IF do = "binop" THEN Expr ELSE Lvalue) /\ want[2] = Expr
  BY DEF Parts
<1> HIDE DEF kinds, want
<1>3. \A j \in DOMAIN kinds : j = 1 \/ j = 2
  BY <1>1
<1>4. Len(kinds) = Len(want) /\ \A j \in DOMAIN kinds : kinds[j] \in want[j]
  BY <1>1, <1>2, <1>3
<1> QED
  BY <1>4 DEF Shape, kinds, want

LEMMA ConstructCompoundKinds ==
  ASSUME IInv, KindsOK, ConstructCompound
  PROVE  KindsOK'
<1> DEFINE L == Len(nodes)
           copy == Copy(Lhs)
           c == Len(copy)
           size == Size
           sum == <<CopiedLhs, Rhs>>
           both == <<Lhs, L + size + 1>>
           const == Node("const", "", <<"int">>, <<>>)
           binop == Node("binop", "+", <<>>, sum)
           asg == Node("asg", "", <<>>, both)
<1>1. pc = "parse" /\ text # <<>> /\ Rule.do \in {"op=", "++"}
  BY DEF ConstructCompound, Parsing
<1>2. /\ NodesOK' /\ RuleDone(L + size + 2) /\ Lhs \in DOMAIN nodes /\ Len(nodes') = L + size + 2
  BY ConstructCompoundOK DEF IInv
<1>3. L \in Nat /\ DOMAIN nodes = 1 .. L /\ DOMAIN nodes' = 1 .. Len(nodes')
  BY <1>2, KidsBefore DEF IInv, NodesOK
<1>4. /\ c \in Nat /\ size \in Nat /\ CopiedLhs \in 1 .. L + size /\ Rhs \in 0 .. L + size
      /\ \E T : \E more \in Seq(T) :
           /\ nodes' = nodes \o more /\ Len(more) = size + 2
           /\ \A i \in 1 .. c : more[i] = copy[i]
           /\ Rule.do = "++" => more[size] = const
           /\ more[size + 1] = binop /\ more[size + 2] = asg
  BY CompoundNodes
<1>5. \A n \in DOMAIN nodes : nodes'[n] = nodes[n]
  BY <1>2 DEF RuleDone
<1>6. /\ size = c + Ones /\ (Rule.do = "++" => Ones = 1) /\ (Rule.do # "++" => Ones = 0)
      /\ Rule.do = "++" => Rhs = L + size
      /\ Rule.do = "op=" => Rhs = Operands[2]
  BY DEF Size, Ones, Rhs
<1>7. CopiedLhs = IF c = 0 THEN Lhs ELSE L + c
  <2>1. \E T : copy \in Seq(T)
    BY <1>2, CopyFacts DEF IInv
  <2>2. CopiedLhs = IF copy = <<>> THEN Lhs ELSE L + Len(copy)
    BY DEF CopiedLhs
  <2> HIDE DEF copy, L
  <2>3. copy = <<>> <=> Len(copy) = 0
    BY <2>1
  <2> QED
    BY <2>2, <2>3
<1>8. /\ binop.kind = "binop" /\ binop.kids = sum /\ {"kind", "name", "type"} \subseteq DOMAIN binop
      /\ asg.kind = "asg" /\ asg.kids = both /\ {"kind", "name", "type"} \subseteq DOMAIN asg
      /\ const.kind = "const" /\ const.kids = <<>> /\ const.type = <<"int">>
      /\ {"kind", "name", "type"} \subseteq DOMAIN const
  <2> HIDE DEF sum, both
  <2> QED
    BY DEF Node
<1> HIDE DEF L, c, size, sum, both, const, binop, asg
<1>4a. c \in Nat /\ size \in Nat /\ CopiedLhs \in 1 .. L + size /\ Rhs \in 0 .. L + size
  BY <1>4
<1>6a. (Rule.do = "++" => size = c + 1) /\ (Rule.do # "++" => size = c + 0)
  BY <1>6
<1>9. /\ \A i \in 1 .. c : nodes'[L + i] = copy[i]
      /\ Rule.do = "++" => nodes'[L + size] = const
      /\ nodes'[L + size + 1] = binop /\ nodes'[L + size + 2] = asg
  <2>1. PICK T0 : nodes \in Seq(T0)
    BY DEF IInv, NodesOK
  <2>2. PICK T : \E more \in Seq(T) :
           /\ nodes' = nodes \o more /\ Len(more) = size + 2
           /\ \A i \in 1 .. c : more[i] = copy[i]
           /\ Rule.do = "++" => more[size] = const
           /\ more[size + 1] = binop /\ more[size + 2] = asg
    BY <1>4
  <2>3. PICK more \in Seq(T) :
           /\ nodes' = nodes \o more /\ Len(more) = size + 2
           /\ \A i \in 1 .. c : more[i] = copy[i]
           /\ Rule.do = "++" => more[size] = const
           /\ more[size + 1] = binop /\ more[size + 2] = asg
    BY <2>2
  <2>4. \A i \in 1 .. size + 2 : nodes'[L + i] = more[i]
    <3>1. nodes \in Seq(T0 \cup T) /\ more \in Seq(T0 \cup T)
      BY <2>1
    <3> QED
      BY <2>3, <3>1 DEF L
  <2>5. /\ \A i \in 1 .. c : i \in 1 .. size + 2
        /\ Rule.do = "++" => size \in 1 .. size + 2
        /\ size + 1 \in 1 .. size + 2 /\ size + 2 \in 1 .. size + 2
        /\ L + size + 1 = L + (size + 1) /\ L + size + 2 = L + (size + 2)
    BY <1>3, <1>4a, <1>6a
  <2> QED
    BY <2>3, <2>4, <2>5
<1>10. \A n \in 0 .. L : KindIn(nodes', n) = KindIn(nodes, n)
  BY <1>5, KindsKept DEF IInv, L
<1>11. /\ c = Len(Old(Lhs))
       /\ \A i \in 1 .. c : /\ Old(Lhs)[i] \in DOMAIN nodes
                            /\ {"kind", "name", "type"} \subseteq DOMAIN copy[i]
                            /\ copy[i].kind = nodes[Old(Lhs)[i]].kind
                            /\ copy[i].type = nodes[Old(Lhs)[i]].type
                            /\ copy[i].kids = [j \in DOMAIN nodes[Old(Lhs)[i]].kids |->
                                                 NewOf(Lhs, nodes[Old(Lhs)[i]].kids[j])]
  BY <1>2, CopyRecords, CopyFacts DEF IInv, c
<1>12. ASSUME NEW k \in 0 .. L
       PROVE  KindIn(nodes', NewOf(Lhs, k)) = KindIn(nodes, k)
  <2>1. CASE k \in Copies[Lhs]
    <3> DEFINE p == Place(Lhs, k)
    <3>1. p \in 1 .. c /\ Old(Lhs)[p] = k
      BY <1>2, <1>11, <2>1, PlaceFacts DEF IInv
    <3>2. NewOf(Lhs, k) = L + p
      BY <2>1 DEF NewOf, L
    <3> HIDE DEF p
    <3>3. L + p # 0 /\ k # 0
      <4>1. k \in 1 .. L
        BY <1>3, <1>11, <3>1
      <4> QED
        BY <1>3, <1>4a, <3>1, <4>1
    <3>4. KindIn(nodes', L + p) = nodes'[L + p].kind /\ KindIn(nodes, k) = nodes[k].kind
      BY <3>3 DEF KindIn
    <3>5. nodes'[L + p] = copy[p] /\ copy[p].kind = nodes[Old(Lhs)[p]].kind
      BY <1>9, <1>11, <3>1
    <3> QED
      BY <3>1, <3>2, <3>4, <3>5
  <2>2. CASE k \notin Copies[Lhs]
    BY <1>10, <2>2 DEF NewOf
  <2> QED
    BY <2>1, <2>2
<1>13. ASSUME NEW i \in 1 .. c
       PROVE  WellShaped(copy[i], KindsIn(nodes', copy[i].kids))
  <2> DEFINE node == nodes[Old(Lhs)[i]]
             kids == node.kids
             here == [j \in DOMAIN kids |-> KindIn(nodes, kids[j])]
             there == [j \in DOMAIN kids |-> KindIn(nodes', NewOf(Lhs, kids[j]))]
  <2>1. \A j \in DOMAIN kids : kids[j] \in 0 .. L
    <3>1. \A j \in DOMAIN kids : kids[j] \in 0 .. Old(Lhs)[i] - 1
      BY <1>11, KidsFacts DEF IInv
    <3>2. Old(Lhs)[i] \in 1 .. L
      BY <1>3, <1>11
    <3> HIDE DEF kids
    <3> QED
      BY <1>3, <3>1, <3>2
  <2>2. copy[i].kids = [j \in DOMAIN kids |-> NewOf(Lhs, kids[j])]
    BY <1>11
  <2>3. WellShaped(node, KindsIn(nodes, kids))
    BY <1>11 DEF KindsOK
  <2>6. /\ {"kind", "name", "type"} \subseteq DOMAIN copy[i]
        /\ copy[i].kind = node.kind /\ copy[i].type = node.type
    BY <1>11
  <2> HIDE DEF node, kids, copy
  <2>4. here = there
    BY <1>12, <2>1
  <2>5. KindsIn(nodes, kids) = here /\ KindsIn(nodes', copy[i].kids) = there
    BY <2>2 DEF KindsIn
  <2> HIDE DEF here, there
  <2> QED
    BY <2>3, <2>4, <2>5, <2>6 DEF WellShaped
<1>14. WellShaped(const, KindsIn(nodes', const.kids))
  <2>1. const.type # Err
    BY <1>8 DEF Err
  <2>2. Shape("const", KindsIn(nodes', const.kids))
    BY <1>8, NoParts
  <2> QED
    BY <1>8, <2>1, <2>2 DEF WellShaped, Expr
<1>15. /\ KindIn(nodes, Lhs) \in Lvalue
       /\ Rule.do = "op=" => KindIn(nodes, Operands[2]) \in Expr /\ Operands[2] \in 0 .. L
  BY CompoundParts DEF L
<1>16. KindIn(nodes', Lhs) \in Lvalue /\ KindIn(nodes', Lhs) = KindIn(nodes, Lhs)
  BY <1>2, <1>3, <1>10, <1>15
<1>17. KindIn(nodes', CopiedLhs) \in Expr
  <2>1. CASE c = 0
    BY <1>7, <1>16, <2>1 DEF Lvalue, Expr
  <2>2. CASE c # 0
    <3>1. Copies[Lhs] # {} /\ Place(Lhs, Lhs) = c /\ Lhs \in Copies[Lhs]
      BY <1>2, <1>11, <2>2, PlaceFacts, CopiesFacts DEF IInv
    <3>2. NewOf(Lhs, Lhs) = L + c
      BY <3>1 DEF NewOf, L
    <3>3. Lhs \in 0 .. L
      BY <1>2, <1>3
    <3> QED
      BY <1>7, <1>12, <1>15, <2>2, <3>2, <3>3 DEF Lvalue, Expr
  <2> QED
    BY <2>1, <2>2
<1>18. KindIn(nodes', Rhs) \in Expr
  <2>1. CASE Rule.do = "++"
    <3>1. Rhs = L + size /\ nodes'[Rhs] = const /\ Rhs # 0
      <4>1. Rhs = L + size /\ L + size # 0
        BY <1>3, <1>4a, <1>6, <1>6a, <2>1
      <4> QED
        BY <1>9, <2>1, <4>1
    <3> QED
      BY <1>8, <3>1 DEF KindIn, Expr
  <2>2. CASE Rule.do = "op="
    BY <1>6, <1>10, <1>15, <2>2
  <2> QED
    BY <1>1, <2>1, <2>2
<1>19. WellShaped(binop, KindsIn(nodes', binop.kids))
  <2>1. Shape("binop", KindsIn(nodes', sum))
    BY <1>17, <1>18, PairShaped DEF sum
  <2> QED
    BY <1>8, <2>1 DEF WellShaped, Expr
<1>20. WellShaped(asg, KindsIn(nodes', asg.kids))
  <2>1. KindIn(nodes', L + size + 1) \in Expr
    <3>1. L + size + 1 # 0
      BY <1>3, <1>4
    <3> QED
      BY <1>8, <1>9, <3>1 DEF KindIn, Expr
  <2>2. Shape("asg", KindsIn(nodes', both))
    BY <1>16, <2>1, PairShaped DEF both
  <2> QED
    BY <1>8, <2>2 DEF WellShaped, Stmts
<1>21. KindIn(nodes', L + size + 2) = IF Rule.do \in {"op=", "++"} THEN "asg" ELSE Rule.do
  <2>1. L + size + 2 # 0
    BY <1>3, <1>4
  <2> QED
    BY <1>1, <1>8, <1>9, <2>1 DEF KindIn
<1>22. ASSUME NEW n \in DOMAIN nodes' \ DOMAIN nodes
       PROVE  WellShaped(nodes'[n], KindsIn(nodes', nodes'[n].kids))
  <2> DEFINE i == n - L
  <2>1. /\ n = L + i
        /\ i \in 1 .. c \/ (Rule.do = "++" /\ i = size) \/ i = size + 1 \/ i = size + 2
    <3>1. i \in 1 .. size + 2 /\ n = L + i
      BY <1>2, <1>3, <1>4a
    <3> QED
      BY <1>4a, <1>6a, <3>1
  <2> HIDE DEF i
  <2>2. L + (size + 1) = L + size + 1 /\ L + (size + 2) = L + size + 2
    BY <1>3, <1>4
  <2> QED
    BY <1>9, <1>13, <1>14, <1>19, <1>20, <2>1, <2>2
<1> QED
  BY <1>1, <1>2, <1>21, <1>22, KindsParsed DEF L, size

LEMMA ArgsFacts ==
  ASSUME NodesOK
  PROVE  Args = 1 .. Len(prog.args) /\ Len(prog.args) \in Nat /\ Args \subseteq DOMAIN nodes
<1>1. Args = 1 .. Len(prog.args) /\ Len(prog.args) \in Nat /\ Len(prog.args) <= Len(nodes)
  BY ProgramsAssumption DEF NodesOK, WellFormed, Args
<1> QED
  BY <1>1, KidsBefore

\* The body of the function is what waits when all rules were visited.
LEMMA BodyIsBody ==
  ASSUME IInv, KindsOK, pc = "parse", text = <<>>
  PROVE  stack[1] \in DOMAIN nodes /\ nodes[stack[1]].kind = "body"
<1>1. stack[1] \in DOMAIN nodes /\ Len(stack) = 1
  BY BodyWaits DEF IInv
<1>2. Len(prog.text) \in Nat /\ Returned(prog.text)[Len(prog.text)] = <<"body">>
  BY ProgramsAssumption DEF IInv, NodesOK, WellFormed
<1>3. Len(prog.text) - Len(text) = Len(prog.text)
  BY <1>2
<1>4. 1 \in 1 .. Len(stack)
  BY <1>1
<1>5. KindOf(stack[1]) = Returned(prog.text)[Len(prog.text)][1]
  BY <1>3, <1>4 DEF KindsOK
<1>6. KindOf(stack[1]) = "body"
  BY <1>2, <1>5
<1>7. stack[1] # 0
  BY <1>1, KidsBefore DEF IInv
<1> QED
  BY <1>1, <1>6, <1>7 DEF KindOf, KindIn

LEMMA ConstructFunctionKinds ==
  ASSUME IInv, KindsOK, ConstructFunction
  PROVE  /\ KindsOK' /\ stack[1] \in DOMAIN nodes /\ nodes[stack[1]].kind = "body"
         /\ Len(nodes') = Len(nodes) + 1 /\ \A n \in DOMAIN nodes : nodes'[n] = nodes[n]
         /\ nodes'[Len(nodes) + 1].kind = "function"
         /\ Kids(Root)' = {stack[1]} \cup Args
<1> DEFINE L == Len(nodes)
           kids == <<stack[1]>> \o [i \in Args |-> i]
           node == Node("function", "", prog.ret, kids)
<1>1. /\ pc = "parse" /\ text = <<>> /\ nodes' = Append(nodes, node) /\ pc' = "type" /\ prog' = prog
  BY DEF ConstructFunction, Args
<1>2. IInv' /\ Len(nodes') = L + 1 /\ \A n \in DOMAIN nodes : nodes'[n] = nodes[n]
  BY ConstructFunctionOK
<1>3. L \in Nat /\ DOMAIN nodes = 1 .. L /\ DOMAIN nodes' = 1 .. Len(nodes')
  BY <1>2, KidsBefore DEF IInv, NodesOK
<1>4. nodes'[L + 1] = node
  <2>1. PICK T : nodes \in Seq(T)
    BY DEF IInv, NodesOK
  <2> HIDE DEF node
  <2> QED
    BY <1>1, <2>1
<1>5. node.kind = "function" /\ node.kids = kids /\ {"kind", "name", "type"} \subseteq DOMAIN node
  <2> HIDE DEF kids
  <2> QED
    BY DEF Node
<1>6. stack[1] \in DOMAIN nodes /\ nodes[stack[1]].kind = "body"
  BY <1>1, BodyIsBody
<1>7. Args = 1 .. Len(prog.args) /\ Len(prog.args) \in Nat /\ Args \subseteq DOMAIN nodes
  BY ArgsFacts DEF IInv
<1>8. kids \in Seq(Nat) /\ ToSet(kids) = {stack[1]} \cup Args
  <2> DEFINE one == <<stack[1]>>
             args == [i \in Args |-> i]
  <2>1. one \in Seq(Nat) /\ args \in Seq(Nat)
    BY <1>3, <1>6, <1>7
  <2>2. ToSet(one) = {stack[1]} /\ ToSet(args) = Args
    BY DEF ToSet
  <2>3. kids = one \o args
    OBVIOUS
  <2> HIDE DEF one, args, kids
  <2> QED
    BY <2>1, <2>2, <2>3, ConcatElements
<1> HIDE DEF node, kids, L
<1>9. \A i \in DOMAIN kids : KindIn(nodes', kids[i]) \in {"body", "def"}
  <2>1. \A k \in {stack[1]} \cup Args : k \in DOMAIN nodes /\ k # 0 /\ nodes[k].kind \in {"body", "def"}
    BY <1>3, <1>6, <1>7 DEF KindsOK
  <2>2. \A i \in DOMAIN kids : kids[i] \in {stack[1]} \cup Args
    BY <1>8 DEF ToSet
  <2> QED
    BY <1>2, <2>1, <2>2 DEF KindIn
<1>10. WellShaped(node, KindsIn(nodes', node.kids))
  <2> DEFINE kinds == KindsIn(nodes', kids)
  <2>1. \A i \in DOMAIN kinds : kinds[i] \in {"body", "def"}
    BY <1>9 DEF KindsIn
  <2> HIDE DEF kinds
  <2> QED
    BY <1>5, <2>1 DEF WellShaped, kinds
<1>11. ASSUME NEW n \in DOMAIN nodes'
       PROVE  WellShaped(nodes'[n], KindsIn(nodes', nodes'[n].kids))
  <2>1. CASE n \in DOMAIN nodes
    <3>1. WellShaped(nodes[n], KindsIn(nodes, nodes[n].kids))
      BY <2>1 DEF KindsOK
    <3>2. KindsIn(nodes', nodes'[n].kids) = KindsIn(nodes, nodes[n].kids)
      BY <1>2, <2>1, KindsKept DEF IInv
    <3> QED
      BY <1>2, <2>1, <3>1, <3>2
  <2>2. CASE n \notin DOMAIN nodes
    <3>1. n = L + 1
      BY <1>2, <1>3, <2>2 DEF L
    <3> QED
      BY <1>4, <1>10, <3>1
  <2> QED
    BY <2>1, <2>2
<1>12. \A i \in Args' : nodes'[i].kind = "def" /\ nodes'[i].kids = <<0>>
  BY <1>1, <1>2, <1>7 DEF KindsOK, Args
<1>13. KindsOK'
  BY <1>1, <1>11, <1>12 DEF KindsOK
<1>14. Kids(Root)' = {stack[1]} \cup Args
  <2>1. 0 \notin {stack[1]} \cup Args
    BY <1>3, <1>6, <1>7
  <2>2. Root' = L + 1
    BY <1>2 DEF Root, L
  <2>3. nodes'[Root'].kids = kids
    BY <1>4, <1>5, <2>2
  <2> QED
    BY <1>8, <2>1, <2>3 DEF Kids
<1> QED
  BY <1>2, <1>4, <1>5, <1>6, <1>13, <1>14 DEF L

\* The passes and the deletion leave the nodes as they are.
LEMMA KindsStay ==
  ASSUME KindsOK, pc # "parse", pc' # "parse", UNCHANGED <<nodes, prog>>
  PROVE  KindsOK'
BY DEF KindsOK, Args

LEMMA InitKinds ==
  ASSUME Init
  PROVE  KindsOK
<1>1. /\ prog \in Programs /\ stack = <<>>
      /\ nodes = [i \in DOMAIN prog.args |-> Node("def", prog.args[i].name, prog.args[i].type, <<0>>)]
  BY DEF Init
<1>2. \A i \in DOMAIN prog.args : IsType(prog.args[i].type)
  BY <1>1, ProgramsAssumption DEF WellFormed
<1>3. ASSUME NEW n \in DOMAIN nodes
      PROVE  /\ WellShaped(nodes[n], KindsIn(nodes, nodes[n].kids))
             /\ nodes[n].kind = "def" /\ nodes[n].kids = <<0>>
  <2>1. /\ nodes[n].kind = "def" /\ nodes[n].kids = <<0>> /\ nodes[n].type = prog.args[n].type
        /\ {"kind", "name", "type"} \subseteq DOMAIN nodes[n]
    <3>1. nodes[n] = Node("def", prog.args[n].name, prog.args[n].type, <<0>>)
      BY <1>1
    <3>2. \A x, y, z, w : /\ Node(x, y, z, w).kind = x /\ Node(x, y, z, w).type = z /\ Node(x, y, z, w).kids = w
                          /\ {"kind", "name", "type"} \subseteq DOMAIN Node(x, y, z, w)
      BY DEF Node
    <3> QED
      BY <3>1, <3>2
  <2>2. nodes[n].type # Err
    BY <1>1, <1>2, <2>1, TypesAreTypes
  <2> DEFINE kinds == KindsIn(nodes, <<0>>)
             want == Parts("def")
  <2>3. Len(kinds) = 1 /\ DOMAIN kinds = {1} /\ kinds[1] = "null"
    BY DEF KindsIn, KindIn
  <2>4. Len(want) = 1 /\ "null" \in want[1]
    BY DEF Parts, Opt
  <2> HIDE DEF kinds, want
  <2>5. Len(kinds) = Len(want) /\ \A j \in DOMAIN kinds : kinds[j] \in want[j]
    BY <2>3, <2>4
  <2>6. Shape("def", kinds)
    BY <2>5 DEF Shape, want
  <2> QED
    BY <2>1, <2>2, <2>6 DEF WellShaped, Stmts, kinds
<1>4. \A i \in Args : i \in DOMAIN nodes
  BY <1>1 DEF Args
<1>5. 1 .. Len(stack) = {}
  BY <1>1
<1> QED
  BY <1>3, <1>4, <1>5 DEF KindsOK

LEMMA NextKinds ==
  ASSUME IInv, KindsOK, [Next]_vars
  PROVE  KindsOK'
<1>1. CASE LeaveOut
  BY <1>1, LeaveOutKinds
<1>2. CASE Construct
  BY <1>2, ConstructKinds
<1>3. CASE ConstructLookup
  BY <1>3, ConstructLookupKinds
<1>4. CASE ConstructCompound
  BY <1>4, ConstructCompoundKinds
<1>5. CASE ConstructFunction
  BY <1>5, ConstructFunctionKinds
<1>6. CASE TypeDef \/ TypeIdent \/ TypeBody \/ TypeOther \/ TypeCheck \/ Eliminate \/ Generate
  <2>1. /\ UNCHANGED <<prog, nodes>> /\ pc # "parse" /\ pc' # "parse"
    BY <1>6, PassOK DEF parsing
  <2> QED
    BY <2>1, KindsStay
<1>7. CASE StartDelete \/ Delete \/ Finish
  <2>1. /\ UNCHANGED <<prog, nodes>> /\ pc # "parse" /\ pc' # "parse"
    BY <1>7 DEF StartDelete, Delete, Finish, parsing
  <2> QED
    BY <2>1, KindsStay
<1>8. CASE UNCHANGED vars
  <2>1. UNCHANGED <<pc, prog, text, stack, nodes>>
    BY <1>8 DEF vars, parsing
  <2> QED
    BY <2>1 DEF KindsOK, KindOf, Args
<1> QED
  BY <1>1, <1>2, <1>3, <1>4, <1>5, <1>6, <1>7, <1>8 DEF Next, Stutter

-----------------------------------------------------------------------------
(* The recursive functions on the tree.                                    *)

TreeStep(f, n) == {n} \cup UNION {f[k] : k \in Kids(n)}

LEMMA TreeDef ==
  ASSUME NodesOK
  PROVE  /\ Tree = [n \in DOMAIN nodes |-> TreeStep(Tree, n)]
         /\ \A n \in DOMAIN nodes : Tree[n] = {n} \cup UNION {Tree[k] : k \in Kids(n)}
<1> DEFINE Def(f, n) == /\ f = [i \in 1 .. n |-> f[i]]
                        /\ \A i \in 1 .. n : f[i] = TreeStep(f, i)
           S == {n \in Nat : n <= Len(nodes) => \E f : Def(f, n)}
<1>0. /\ Len(nodes) \in Nat /\ DOMAIN nodes = 1 .. Len(nodes)
      /\ \A n \in DOMAIN nodes : Kids(n) \subseteq 1 .. n - 1
  BY KidsBefore
<1>1. 0 \in S
  <2>1. Def([i \in 1 .. 0 |-> {}], 0)
    OBVIOUS
  <2> QED
    BY <2>1
<1>2. ASSUME NEW n \in Nat, n \in S
      PROVE  n + 1 \in S
  <2> SUFFICES ASSUME n + 1 <= Len(nodes)
               PROVE  \E g : Def(g, n + 1)
    OBVIOUS
  <2>1. PICK f : Def(f, n)
    BY <1>0, <1>2
  <2> DEFINE g == [i \in 1 .. n + 1 |-> IF i = n + 1 THEN TreeStep(f, n + 1) ELSE f[i]]
  <2>2. g = [i \in 1 .. n + 1 |-> g[i]]
    OBVIOUS
  <2>3. g[n + 1] = TreeStep(f, n + 1) /\ \A i \in 1 .. n : g[i] = f[i]
    OBVIOUS
  <2> HIDE DEF g
  <2>4. ASSUME NEW i \in 1 .. n + 1
        PROVE  g[i] = TreeStep(g, i)
    <3>1. \A k \in Kids(i) : k \in 1 .. n
      BY <1>0
    <3>2. {g[k] : k \in Kids(i)} = {f[k] : k \in Kids(i)}
      BY <2>3, <3>1
    <3>3. TreeStep(g, i) = TreeStep(f, i)
      BY <3>2 DEF TreeStep
    <3>4. CASE i = n + 1
      BY <2>3, <3>3, <3>4
    <3>5. CASE i # n + 1
      <4>1. i \in 1 .. n
        BY <3>5
      <4> QED
        BY <2>1, <2>3, <3>3, <4>1
    <3> QED
      BY <3>4, <3>5
  <2>5. Def(g, n + 1)
    BY <2>2, <2>4
  <2> HIDE DEF Def
  <2> QED
    BY <2>5
<1>3. \A n \in Nat : n \in S
  <2> HIDE DEF S
  <2> QED
    BY <1>1, <1>2, Induction
<1>4. PICK f : Def(f, Len(nodes))
  BY <1>0, <1>3
<1>5. f = [n \in DOMAIN nodes |-> TreeStep(f, n)]
  BY <1>0, <1>4
<1>6. Tree = [n \in DOMAIN nodes |-> TreeStep(Tree, n)]
  BY <1>5 DEF Tree, TreeStep
<1>7. ASSUME NEW n \in DOMAIN nodes
      PROVE  Tree[n] = {n} \cup UNION {Tree[k] : k \in Kids(n)}
  BY <1>6 DEF TreeStep
<1> QED
  BY <1>6, <1>7

\* What is below a node of a tree is in the tree.
LEMMA TreeClosed ==
  ASSUME NodesOK, NEW n \in DOMAIN nodes, NEW m \in Tree[n]
  PROVE  m \in 1 .. n /\ m \in DOMAIN nodes /\ Kids(m) \subseteq Tree[n]
<1>1. /\ Len(nodes) \in Nat /\ DOMAIN nodes = 1 .. Len(nodes)
      /\ \A i \in DOMAIN nodes : Kids(i) \subseteq 1 .. i - 1
  BY KidsBefore
<1>2. \A i \in DOMAIN nodes : Tree[i] = {i} \cup UNION {Tree[k] : k \in Kids(i)}
  BY TreeDef
<1> DEFINE D == {d \in Nat : d \in DOMAIN nodes => 
                         \A c \in Tree[d] : c \in 1 .. d /\ c \in DOMAIN nodes /\ Kids(c) \subseteq Tree[d]}
<1>3. ASSUME NEW d \in Nat, \A e \in Nat : e < d => e \in D
      PROVE  d \in D
  <2> SUFFICES ASSUME d \in DOMAIN nodes, NEW e \in Tree[d]
               PROVE  e \in 1 .. d /\ e \in DOMAIN nodes /\ Kids(e) \subseteq Tree[d]
    OBVIOUS
  <2>1. CASE e = d
    <3>1. \A k \in Kids(d) : k \in Tree[k]
      <4>1. \A k \in Kids(d) : k \in DOMAIN nodes
        BY <1>1
      <4> QED
        BY <1>2, <4>1
    <3> QED
      BY <1>1, <1>2, <2>1, <3>1
  <2>2. CASE e # d
    <3>1. PICK k \in Kids(d) : e \in Tree[k]
      BY <1>2, <2>2
    <3>2. k \in Nat /\ k < d /\ k \in DOMAIN nodes
      BY <1>1, <3>1
    <3>3. k \in D
      BY <1>3, <3>2
    <3>4. e \in 1 .. k /\ e \in DOMAIN nodes /\ Kids(e) \subseteq Tree[k]
      BY <3>1, <3>2, <3>3
    <3> QED
      BY <1>1, <1>2, <3>1, <3>2, <3>4
  <2> QED
    BY <2>1, <2>2
<1>4. \A d \in Nat : d \in D
  <2> HIDE DEF D
  <2> QED
    BY <1>3, StrongInduction
<1>5. n \in Nat /\ n \in D
  BY <1>1, <1>4
<1> QED
  BY <1>5

\* Every node is below the root.
LEMMA AllBelowRoot ==
  ASSUME NodesOK, RootOK, pc # "parse"
  PROVE  \A n \in DOMAIN nodes : n \in Tree[Root]
<1>1. /\ Len(nodes) \in Nat /\ DOMAIN nodes = 1 .. Len(nodes)
      /\ \A n \in DOMAIN nodes : Kids(n) \subseteq 1 .. n - 1
  BY KidsBefore
<1>2. Root \in DOMAIN nodes /\ \A n \in DOMAIN nodes : n = Root \/ HasParent(n)
  <2>1. nodes # <<>> /\ \E T : nodes \in Seq(T)
    BY DEF RootOK, NodesOK
  <2>2. Len(nodes) # 0
    BY <2>1
  <2> QED
    BY <1>1, <2>2 DEF RootOK, Root
<1>3. \A n \in DOMAIN nodes : Tree[n] = {n} \cup UNION {Tree[k] : k \in Kids(n)}
  BY TreeDef
<1> DEFINE S == {d \in Nat : d < Len(nodes) => Len(nodes) - d \in Tree[Root]}
<1>6. ASSUME NEW d \in Nat, \A e \in Nat : e < d => e \in S
      PROVE  d \in S
  <2> SUFFICES ASSUME d < Len(nodes), Len(nodes) - d # Root
               PROVE  Len(nodes) - d \in Tree[Root]
    BY <1>2, <1>3
  <2>1. Len(nodes) - d \in DOMAIN nodes
    BY <1>1
  <2>2. PICK m \in DOMAIN nodes : Len(nodes) - d \in Kids(m)
    BY <1>2, <2>1 DEF HasParent
  <2> DEFINE e == Len(nodes) - m
  <2>3. Len(nodes) - d \in 1 .. m - 1
    BY <1>1, <2>2
  <2>4. e \in Nat /\ e < d /\ e < Len(nodes) /\ Len(nodes) - e = m
    BY <1>1, <2>3
  <2>5. m \in Tree[Root]
    BY <1>6, <2>4
  <2> QED
    BY <1>2, <2>2, <2>5, TreeClosed
<1>7. \A d \in Nat : d \in S
  <2> HIDE DEF S
  <2> QED
    BY <1>6, StrongInduction
<1>8. ASSUME NEW n \in DOMAIN nodes
      PROVE  n \in Tree[Root]
  <2>1. Len(nodes) - n \in Nat /\ Len(nodes) - n < Len(nodes) /\ Len(nodes) - (Len(nodes) - n) = n
    BY <1>1
  <2> QED
    BY <1>7, <2>1
<1> QED
  BY <1>8

\* The types that dropping leaves of t, one by one.
Dropped(t, len) ==
  LET f[i \in 1 .. len] == IF i = 1 THEN t ELSE DropType(f[i - 1])
  IN  f

TypeBy(node, t, u, symbol) ==
  CASE node.kind \in {"const", "create"} -> node.type
    [] node.kind = "ident" -> symbol
    [] node.kind = "lookup" ->
         IF Dropped(t, Len(node.kids))[Len(node.kids)] = <<>> THEN Err
         ELSE Dropped(t, Len(node.kids))[Len(node.kids)]
    [] node.kind = "prop" -> IF node.name = "len" /\ t[1] \in {"arr", "string"} THEN <<"int">> ELSE Err
    [] node.kind = "binop" ->
         IF Err \in {t, u} \/ t # u \/ (node.name = "&&" /\ t # <<"bool">>) THEN Err ELSE Result(node.name)
    [] OTHER -> <<>>

TypeStep(f, n) ==
  TypeBy(nodes[n], f[nodes[n].kids[1]], f[nodes[n].kids[2]], syms[sym[n]].type)

\* The type of a node depends on those of its first two children, if that.
LEMMA TypeNeeds ==
  ASSUME NEW node, NEW t, NEW u, NEW v, NEW w, NEW symbol,
         node.kind \in {"lookup", "prop", "binop"} => t = v,
         node.kind = "binop" => u = w
  PROVE  TypeBy(node, t, u, symbol) = TypeBy(node, v, w, symbol)
<1>1. CASE node.kind \notin {"lookup", "prop", "binop"}
  BY <1>1 DEF TypeBy
<1>2. CASE node.kind = "lookup"
  BY <1>2 DEF TypeBy
<1>3. CASE node.kind = "prop"
  BY <1>3 DEF TypeBy
<1>4. CASE node.kind = "binop"
  BY <1>4 DEF TypeBy
<1> QED
  BY <1>1, <1>2, <1>3, <1>4

\* The children of an expression that its type depends on are there.
LEMMA TypedKids ==
  ASSUME NodesOK, KindsOK, NEW n \in DOMAIN nodes
  PROVE  /\ nodes[n].kind \in {"lookup", "prop", "binop"} => nodes[n].kids[1] \in 1 .. n - 1
         /\ nodes[n].kind = "binop" => nodes[n].kids[2] \in 1 .. n - 1
         /\ nodes[n].kind = "binop" => nodes[n].kids[1] \in Kids(n) /\ nodes[n].kids[2] \in Kids(n)
<1> DEFINE kids == nodes[n].kids
           kinds == KindsIn(nodes, kids)
<1>1. /\ Len(kids) \in Nat /\ DOMAIN kids = 1 .. Len(kids) /\ \A i \in DOMAIN kids : kids[i] \in 0 .. n - 1
  BY KidsFacts
<1>2. WellShaped(nodes[n], kinds)
  BY DEF KindsOK
<1>3. DOMAIN kinds = DOMAIN kids /\ \A i \in DOMAIN kids : kinds[i] = KindIn(nodes, kids[i])
  BY DEF KindsIn
<1>4. Len(kinds) = Len(kids)
  BY <1>1 DEF KindsIn
<1>5. ASSUME NEW i \in DOMAIN kids, kinds[i] # "null"
      PROVE  kids[i] \in 1 .. n - 1 /\ kids[i] \in Kids(n)
  <2>1. kids[i] # 0
    BY <1>3, <1>5 DEF KindIn
  <2> QED
    BY <1>1, <2>1 DEF Kids, ToSet
<1>6. ASSUME nodes[n].kind \in {"lookup", "prop"}
      PROVE  1 \in DOMAIN kids /\ kinds[1] # "null"
  <2> HIDE DEF kids
  <2>1. kinds[1] = "ident" /\ (kinds # <<>> \/ Len(kinds) = 1)
    BY <1>2, <1>6 DEF WellShaped
  <2>2. Len(kids) # 0
    <3>1. kinds = [i \in 1 .. Len(kids) |-> KindIn(nodes, kids[i])]
      BY <1>1 DEF KindsIn
    <3> HIDE DEF kinds
    <3>2. Len(kids) = 0 => kinds = <<>>
      BY <3>1
    <3> QED
      BY <1>1, <1>4, <2>1, <3>2
  <2> QED
    BY <1>1, <2>1, <2>2
<1>7. ASSUME nodes[n].kind = "binop"
      PROVE  1 \in DOMAIN kids /\ 2 \in DOMAIN kids /\ kinds[1] # "null" /\ kinds[2] # "null"
  <2> DEFINE want == Parts("binop")
  <2>1. Len(want) = 2 /\ want[1] = Expr /\ want[2] = Expr
    BY DEF Parts
  <2>2. Len(kinds) = Len(want) /\ \A j \in DOMAIN kinds : kinds[j] \in want[j]
    <3> HIDE DEF kinds
    <3> QED
      BY <1>2, <1>7 DEF WellShaped, Shape
  <2> HIDE DEF want, kinds, kids
  <2>3. Len(kids) = 2
    BY <1>4, <2>1, <2>2
  <2>4. 1 \in DOMAIN kids /\ 2 \in DOMAIN kids
    BY <1>1, <2>3
  <2>5. kinds[1] \in Expr /\ kinds[2] \in Expr
    BY <1>3, <2>1, <2>2, <2>4
  <2> QED
    BY <2>4, <2>5 DEF Expr
<1> HIDE DEF kinds, kids
<1>8. nodes[n].kind \in {"lookup", "prop", "binop"} => kids[1] \in 1 .. n - 1 /\ kids[1] \in Kids(n)
  BY <1>5, <1>6, <1>7
<1>9. nodes[n].kind = "binop" => kids[2] \in 1 .. n - 1 /\ kids[2] \in Kids(n)
  BY <1>5, <1>7
<1> QED
  BY <1>8, <1>9 DEF kids

LEMMA TypeOfDef ==
  ASSUME NodesOK, KindsOK
  PROVE  TypeOf = [n \in DOMAIN nodes |-> TypeStep(TypeOf, n)]
<1> DEFINE Def(f, n) == /\ f = [i \in 1 .. n |-> f[i]]
                        /\ \A i \in 1 .. n : f[i] = TypeStep(f, i)
           S == {n \in Nat : n <= Len(nodes) => \E f : Def(f, n)}
<1>0. /\ Len(nodes) \in Nat /\ DOMAIN nodes = 1 .. Len(nodes)
  BY KidsBefore
<1>1. 0 \in S
  <2>1. Def([i \in 1 .. 0 |-> {}], 0)
    OBVIOUS
  <2> QED
    BY <2>1
<1>2. ASSUME NEW n \in Nat, n \in S
      PROVE  n + 1 \in S
  <2> SUFFICES ASSUME n + 1 <= Len(nodes)
               PROVE  \E g : Def(g, n + 1)
    OBVIOUS
  <2>1. PICK f : Def(f, n)
    BY <1>0, <1>2
  <2> DEFINE g == [i \in 1 .. n + 1 |-> IF i = n + 1 THEN TypeStep(f, n + 1) ELSE f[i]]
  <2>2. g = [i \in 1 .. n + 1 |-> g[i]]
    OBVIOUS
  <2>3. g[n + 1] = TypeStep(f, n + 1) /\ \A i \in 1 .. n : g[i] = f[i]
    OBVIOUS
  <2> HIDE DEF g
  <2>4. ASSUME NEW i \in 1 .. n + 1
        PROVE  g[i] = TypeStep(g, i)
    <3>1. \A k \in 1 .. i - 1 : k \in 1 .. n
      BY <1>0
    <3>2. i \in DOMAIN nodes
      BY <1>0
    <3>3. /\ nodes[i].kind \in {"lookup", "prop", "binop"} => nodes[i].kids[1] \in 1 .. n
          /\ nodes[i].kind = "binop" => nodes[i].kids[2] \in 1 .. n
      BY <3>1, <3>2, TypedKids
    <3>6. TypeStep(g, i) = TypeStep(f, i)
      BY <2>3, <3>3, TypeNeeds DEF TypeStep
    <3>4. CASE i = n + 1
      BY <2>3, <3>6, <3>4
    <3>5. CASE i # n + 1
      <4>1. i \in 1 .. n
        BY <3>5
      <4> QED
        BY <2>1, <2>3, <3>6, <4>1
    <3> QED
      BY <3>4, <3>5
  <2>5. Def(g, n + 1)
    BY <2>2, <2>4
  <2> HIDE DEF Def
  <2> QED
    BY <2>5
<1>3. \A n \in Nat : n \in S
  <2> HIDE DEF S
  <2> QED
    BY <1>1, <1>2, Induction
<1>4. PICK f : Def(f, Len(nodes))
  BY <1>0, <1>3
<1>5. f = [n \in DOMAIN nodes |-> TypeStep(f, n)]
  BY <1>0, <1>4
<1>6. TypeOf = CHOOSE g : g = [n \in DOMAIN nodes |-> TypeStep(g, n)]
  BY DEF TypeOf, TypeStep, TypeBy, Dropped
<1> QED
  BY <1>5, <1>6

LEMMA TypesStay ==
  ASSUME UNCHANGED <<nodes, syms, sym>>
  PROVE  TypeOf' = TypeOf
BY DEF TypeOf

-----------------------------------------------------------------------------
\* The symbols have types, and names lead to them, table by table.
ScopesOK ==
  /\ \E T : syms \in Seq(T)
  /\ \A i \in DOMAIN syms : syms[i].type # Err
  /\ \A n \in DOMAIN sym : sym[n] \in DOMAIN syms
  /\ \E T : tables \in Seq(T)
  /\ \A u \in DOMAIN tables :
       /\ {"outer", "names"} \subseteq DOMAIN tables[u] /\ tables[u].outer \in 0 .. u - 1
       /\ \A x \in DOMAIN tables[u].names : tables[u].names[x] \in DOMAIN syms

SymsOK == IF pc = "parse" THEN sym = <<>> ELSE ScopesOK /\ nodes[Root].kind = "function"

\* An identifier that has no symbol yet is below what is visited next, and code
\* is generated when all have one.
NamesOK ==
  /\ pc = "type" =>
       /\ work \in Seq([node : DOMAIN nodes, in : DOMAIN tables])
       /\ \A n \in Of("ident") \ DOMAIN sym : \E m \in WorkNodes : n \in Tree[m]
  /\ pc \in {"eliminate", "codegen"} =>
       Of("ident") \subseteq DOMAIN sym /\ \A n \in DOMAIN nodes : ~ BadType(n)

FoundStep(f, name, u) ==
  IF u = 0 THEN 0
  ELSE IF name \in DOMAIN tables[u].names THEN tables[u].names[name]
  ELSE f[tables[u].outer]

\* What is found is a symbol.
LEMMA FoundFacts ==
  ASSUME ScopesOK, NEW name, NEW t \in 0 .. Len(tables)
  PROVE  Found(name, t) \in {0} \cup DOMAIN syms
<1> DEFINE Def(f, n) == /\ f = [i \in 0 .. n |-> f[i]]
                        /\ \A i \in 0 .. n : f[i] = FoundStep(f, name, i)
           S == {n \in Nat : n <= Len(tables) => \E f : Def(f, n)}
<1>0. /\ Len(tables) \in Nat /\ DOMAIN tables = 1 .. Len(tables)
  BY DEF ScopesOK
<1>1. 0 \in S
  <2> DEFINE f == [i \in 0 .. 0 |-> 0]
  <2>1. f = [i \in 0 .. 0 |-> f[i]] /\ f[0] = 0
    OBVIOUS
  <2> HIDE DEF f
  <2>2. \A i \in 0 .. 0 : i = 0
    OBVIOUS
  <2>3. Def(f, 0)
    BY <2>1, <2>2 DEF FoundStep
  <2> QED
    BY <2>3
<1>2. ASSUME NEW n \in Nat, n \in S
      PROVE  n + 1 \in S
  <2> SUFFICES ASSUME n + 1 <= Len(tables)
               PROVE  \E g : Def(g, n + 1)
    OBVIOUS
  <2>1. PICK f : Def(f, n)
    BY <1>0, <1>2
  <2> DEFINE g == [i \in 0 .. n + 1 |-> IF i = n + 1 THEN FoundStep(f, name, n + 1) ELSE f[i]]
  <2>2. g = [i \in 0 .. n + 1 |-> g[i]]
    OBVIOUS
  <2>3. g[n + 1] = FoundStep(f, name, n + 1) /\ \A i \in 0 .. n : g[i] = f[i]
    OBVIOUS
  <2> HIDE DEF g
  <2>4. ASSUME NEW i \in 0 .. n + 1
        PROVE  g[i] = FoundStep(g, name, i)
    <3>1. i # 0 => i \in DOMAIN tables /\ tables[i].outer \in 0 .. n
      <4>1. i # 0 => i \in DOMAIN tables
        BY <1>0
      <4>2. i \in DOMAIN tables => tables[i].outer \in 0 .. i - 1
        BY DEF ScopesOK
      <4>3. 0 .. i - 1 \subseteq 0 .. n
        OBVIOUS
      <4> QED
        BY <4>1, <4>2, <4>3
    <3>2. FoundStep(g, name, i) = FoundStep(f, name, i)
      BY <2>3, <3>1 DEF FoundStep
    <3>4. CASE i = n + 1
      BY <2>3, <3>2, <3>4
    <3>5. CASE i # n + 1
      <4>1. i \in 0 .. n
        BY <3>5
      <4> QED
        BY <2>1, <2>3, <3>2, <4>1
    <3> QED
      BY <3>4, <3>5
  <2>5. Def(g, n + 1)
    BY <2>2, <2>4
  <2> HIDE DEF Def
  <2> QED
    BY <2>5
<1>3. \A n \in Nat : n \in S
  <2> HIDE DEF S
  <2> QED
    BY <1>1, <1>2, Induction
<1>4. PICK f : Def(f, Len(tables))
  BY <1>0, <1>3
<1>5. f = [u \in 0 .. Len(tables) |-> FoundStep(f, name, u)]
  BY <1>0, <1>4
<1> DEFINE g == CHOOSE h : h = [u \in 0 .. Len(tables) |-> FoundStep(h, name, u)]
<1>6. Found(name, t) = g[t]
  BY DEF Found, FoundStep
<1>7. g = [u \in 0 .. Len(tables) |-> FoundStep(g, name, u)]
  BY <1>5
<1> HIDE DEF g, Def
<1> DEFINE R == {n \in Nat : n <= Len(tables) => g[n] \in {0} \cup DOMAIN syms}
<1>8. ASSUME NEW n \in Nat, \A m \in Nat : m < n => m \in R
      PROVE  n \in R
  <2> SUFFICES ASSUME n <= Len(tables), n # 0, name \notin DOMAIN tables[n].names
               PROVE  g[n] \in {0} \cup DOMAIN syms
    <3>1. n <= Len(tables) => g[n] = FoundStep(g, name, n)
      BY <1>0, <1>7
    <3>2. n <= Len(tables) /\ n # 0 => n \in DOMAIN tables
      BY <1>0
    <3> QED
      BY <3>1, <3>2 DEF FoundStep, ScopesOK
  <2>1. n \in DOMAIN tables
    BY <1>0
  <2>2. tables[n].outer \in 0 .. n - 1
    BY <2>1 DEF ScopesOK
  <2>3. tables[n].outer \in Nat /\ tables[n].outer < n /\ tables[n].outer <= Len(tables)
    BY <1>0, <2>2
  <2>4. g[tables[n].outer] \in {0} \cup DOMAIN syms
    BY <1>8, <2>3
  <2>5. g[n] = FoundStep(g, name, n)
    BY <1>0, <1>7
  <2> QED
    BY <2>4, <2>5 DEF FoundStep
<1>9. \A n \in Nat : n \in R
  <2> HIDE DEF R
  <2> QED
    BY <1>8, StrongInduction
<1> QED
  BY <1>0, <1>6, <1>9

\* The node that is visited next, and its table.
LEMMA NextTyped ==
  ASSUME IInv, NamesOK, pc = "type", work # <<>>
  PROVE  /\ Next1 \in DOMAIN nodes /\ In \in DOMAIN tables
         /\ work \in Seq([node : DOMAIN nodes, in : DOMAIN tables])
         /\ WorkNodes = {Next1} \cup NodesOf(Tail(work))
<1> DEFINE I == DOMAIN tables
           J == I \cup {0}
<1>1. I \subseteq J /\ 0 \in J /\ work \in Seq([node : DOMAIN nodes, in : I])
  BY DEF NamesOK
<1> HIDE DEF I, J
<1>2. Next1 \in DOMAIN nodes /\ In \in I /\ WorkNodes = {Next1} \cup NodesOf(Tail(work))
  BY <1>1, WorkFacts DEF IInv
<1> QED
  BY <1>1, <1>2 DEF I

\* What is visited after the children of a node were put in front.
LEMMA BelowTyped ==
  ASSUME IInv, NamesOK, pc = "type", work # <<>>, NEW J, DOMAIN tables \subseteq J, NEW t \in J
  PROVE  LET next == Visits(nodes[Next1].kids, t) \o Tail(work)
         IN  /\ next \in Seq([node : DOMAIN nodes, in : J])
             /\ NodesOf(next) = Kids(Next1) \cup NodesOf(Tail(work))
<1> DEFINE I == DOMAIN tables
<1>1. I \subseteq J /\ work \in Seq([node : DOMAIN nodes, in : I])
  BY NextTyped
<1> HIDE DEF I
<1> QED
  BY <1>1, WorkFacts DEF IInv

\* A name that is left without a symbol is still below what is visited next.
LEMMA NamesPassed ==
  ASSUME IInv, NamesOK, pc = "type", work # <<>>, pc' = "type", nodes' = nodes,
         work' \in Seq([node : DOMAIN nodes, in : DOMAIN tables']),
         NodesOf(work') = Kids(Next1) \cup NodesOf(Tail(work)),
         DOMAIN sym \subseteq DOMAIN sym',
         nodes[Next1].kind = "ident" => Next1 \in DOMAIN sym'
  PROVE  NamesOK'
<1>1. Next1 \in DOMAIN nodes /\ WorkNodes = {Next1} \cup NodesOf(Tail(work))
  BY NextTyped
<1>2. Tree' = Tree /\ Of("ident")' = Of("ident")
  BY DEF Tree, Kids, Of
<1>3. WorkNodes' = Kids(Next1) \cup NodesOf(Tail(work))
  BY DEF WorkNodes, NodesOf
<1>4. ASSUME NEW n \in Of("ident") \ DOMAIN sym'
      PROVE  \E m \in WorkNodes' : n \in Tree[m]
  <2>1. PICK m \in WorkNodes : n \in Tree[m]
    BY <1>4 DEF NamesOK
  <2>2. CASE m \in NodesOf(Tail(work))
    BY <1>3, <2>1, <2>2
  <2>3. CASE m = Next1
    <3>1. n # Next1
      BY <1>4 DEF Of
    <3>2. Tree[m] = {m} \cup UNION {Tree[k] : k \in Kids(m)}
      BY <1>1, <2>3, TreeDef DEF IInv
    <3> QED
      BY <1>3, <2>1, <2>3, <3>1, <3>2
  <2> QED
    BY <1>1, <2>1, <2>2, <2>3
<1> QED
  BY <1>2, <1>4 DEF NamesOK

\* The steps of type_visitor, one by one: a definition adds a symbol.
LEMMA TypeDefScopes ==
  ASSUME IInv, KindsOK, ScopesOK, NamesOK, TypeDef
  PROVE  ScopesOK' /\ NamesOK'
<1> DEFINE new == Len(syms) + 1
           entry == [type |-> nodes[Next1].type, input |-> FALSE]
           below == Visits(nodes[Next1].kids, In)
<1>1. /\ pc = "type" /\ work # <<>> /\ nodes[Next1].kind = "def" /\ pc' = "type" /\ nodes' = nodes
      /\ syms' = Append(syms, entry) /\ sym' = Mapped(sym, Next1, new)
      /\ tables' = [tables EXCEPT ![In].names = Mapped(@, nodes[Next1].name, new)]
      /\ work' = below \o Tail(work)
  BY DEF TypeDef, Typing, parsing
<1>2. /\ Next1 \in DOMAIN nodes /\ In \in DOMAIN tables
      /\ below \o Tail(work) \in Seq([node : DOMAIN nodes, in : DOMAIN tables])
      /\ NodesOf(below \o Tail(work)) = Kids(Next1) \cup NodesOf(Tail(work))
  <2>1. Next1 \in DOMAIN nodes /\ In \in DOMAIN tables
    BY <1>1, NextTyped
  <2> QED
    BY <1>1, <2>1, BelowTyped
<1>3. Len(syms) \in Nat /\ DOMAIN syms = 1 .. Len(syms)
  BY DEF ScopesOK
<1>4. /\ \E T : syms' \in Seq(T)
      /\ DOMAIN syms' = DOMAIN syms \cup {new} /\ syms'[new] = entry
      /\ \A i \in DOMAIN syms : syms'[i] = syms[i]
  <2>1. PICK T : syms \in Seq(T)
    BY DEF ScopesOK
  <2> HIDE DEF entry
  <2>2. syms' \in Seq(T \cup {entry})
    BY <1>1, <2>1
  <2>3. DOMAIN syms' = 1 .. Len(syms) + 1 /\ syms'[new] = entry
        /\ \A i \in DOMAIN syms : syms'[i] = syms[i]
    BY <1>1, <1>3, <2>1
  <2>4. DOMAIN syms' = DOMAIN syms \cup {new}
    BY <1>3, <2>3
  <2> QED
    BY <2>2, <2>3, <2>4
<1>5. entry.type # Err
  <2>1. WellShaped(nodes[Next1], KindsIn(nodes, nodes[Next1].kids))
    BY <1>2 DEF KindsOK
  <2> QED
    BY <1>1, <2>1 DEF WellShaped
<1> HIDE DEF new, entry, below
<1>6. \A i \in DOMAIN syms' : syms'[i].type # Err
  BY <1>4, <1>5 DEF ScopesOK
<1>7. DOMAIN sym' = DOMAIN sym \cup {Next1} /\ \A n \in DOMAIN sym' : sym'[n] \in DOMAIN syms'
  BY <1>1, <1>4 DEF Mapped, ScopesOK
<1>8. DOMAIN tables' = DOMAIN tables /\ \E T : tables' \in Seq(T)
  <2>1. PICK T : tables \in Seq(T)
    BY DEF ScopesOK
  <2>2. DOMAIN tables' = 1 .. Len(tables) /\ Len(tables) \in Nat /\ DOMAIN tables = 1 .. Len(tables)
    BY <1>1, <2>1
  <2>3. tables' = [u \in DOMAIN tables |-> tables'[u]]
    BY <1>1
  <2>4. tables' \in Seq({tables'[u] : u \in DOMAIN tables})
    BY <2>2, <2>3
  <2> QED
    BY <2>2, <2>4
<1>9. ASSUME NEW u \in DOMAIN tables'
      PROVE  /\ {"outer", "names"} \subseteq DOMAIN tables'[u] /\ tables'[u].outer \in 0 .. u - 1
             /\ \A x \in DOMAIN tables'[u].names : tables'[u].names[x] \in DOMAIN syms'
  <2> DEFINE table == tables[u]
             names == Mapped(table.names, nodes[Next1].name, new)
  <2>1. /\ u \in DOMAIN tables /\ {"outer", "names"} \subseteq DOMAIN table /\ table.outer \in 0 .. u - 1
        /\ \A x \in DOMAIN table.names : table.names[x] \in DOMAIN syms
    BY <1>8, <1>9 DEF ScopesOK
  <2>2. tables'[u] = IF u = In THEN [table EXCEPT !.names = names] ELSE table
    BY <1>1, <2>1
  <2>3. \A x \in DOMAIN names : names[x] \in DOMAIN syms'
    BY <1>4, <2>1 DEF Mapped
  <2> HIDE DEF table, names
  <2> QED
    BY <1>4, <2>1, <2>2, <2>3
<1>10. NamesOK'
  BY <1>1, <1>2, <1>7, <1>8, NamesPassed
<1> QED
  BY <1>4, <1>6, <1>7, <1>8, <1>9, <1>10 DEF ScopesOK

\* An identifier has no children.
LEMMA NoKids ==
  ASSUME NodesOK, KindsOK, NEW n \in DOMAIN nodes, nodes[n].kind = "ident"
  PROVE  Kids(n) = {}
<1> DEFINE kids == nodes[n].kids
           kinds == KindsIn(nodes, kids)
           want == Parts("ident")
<1>1. Len(kids) \in Nat /\ DOMAIN kids = 1 .. Len(kids)
  BY KidsFacts
<1>2. WellShaped(nodes[n], kinds)
  BY DEF KindsOK
<1>3. Len(kinds) = Len(kids)
  BY <1>1 DEF KindsIn
<1>4. Len(want) = 0
  BY DEF Parts
<1>5. Len(kinds) = Len(want)
  <2> HIDE DEF kinds
  <2> QED
    BY <1>2 DEF WellShaped, Shape
<1> HIDE DEF kinds, kids, want
<1>6. DOMAIN kids = {}
  BY <1>1, <1>3, <1>4, <1>5
<1> QED
  BY <1>6 DEF Kids, ToSet, kids

\* A name takes the symbol that is found, or the program is refused.
LEMMA TypeIdentScopes ==
  ASSUME IInv, KindsOK, ScopesOK, NamesOK, TypeIdent
  PROVE  ScopesOK' /\ NamesOK'
<1> DEFINE found == Found(nodes[Next1].name, In)
<1>1. /\ pc = "type" /\ work # <<>> /\ nodes[Next1].kind = "ident" /\ UNCHANGED <<nodes, syms, tables>>
      /\ \/ found = 0 /\ pc' = "undeclared" /\ sym' = sym
         \/ found # 0 /\ sym' = Mapped(sym, Next1, found) /\ work' = Tail(work) /\ pc' = pc
  BY DEF TypeIdent, Typing, parsing
<1>2. /\ Next1 \in DOMAIN nodes /\ In \in DOMAIN tables
      /\ work \in Seq([node : DOMAIN nodes, in : DOMAIN tables])
  BY <1>1, NextTyped
<1>3. found \in {0} \cup DOMAIN syms
  <2>1. In \in 0 .. Len(tables)
    BY <1>2 DEF ScopesOK
  <2> QED
    BY <2>1, FoundFacts
<1> HIDE DEF found
<1>4. CASE found = 0
  <2>1. pc' = "undeclared" /\ sym' = sym
    BY <1>1, <1>4
  <2> QED
    BY <1>1, <2>1 DEF ScopesOK, NamesOK
<1>5. CASE found # 0
  <2>1. sym' = Mapped(sym, Next1, found) /\ work' = Tail(work) /\ pc' = "type"
    BY <1>1, <1>5
  <2>2. /\ DOMAIN sym' = DOMAIN sym \cup {Next1}
        /\ \A n \in DOMAIN sym' : sym'[n] \in DOMAIN syms
    BY <1>3, <1>5, <2>1 DEF Mapped, ScopesOK
  <2>3. ScopesOK'
    BY <1>1, <2>2 DEF ScopesOK
  <2>4. work' \in Seq([node : DOMAIN nodes, in : DOMAIN tables])
    <3> DEFINE D == [node : DOMAIN nodes, in : DOMAIN tables]
    <3>1. work \in Seq(D)
      BY <1>2
    <3> HIDE DEF D
    <3>2. work' \in Seq(D)
      BY <1>1, <2>1, <3>1
    <3> QED
      BY <3>2 DEF D
  <2>5. NodesOf(work') = Kids(Next1) \cup NodesOf(Tail(work))
    <3>1. Kids(Next1) = {}
      BY <1>1, <1>2, NoKids DEF IInv
    <3> QED
      BY <2>1, <3>1
  <2>6. NamesOK'
    BY <1>1, <2>1, <2>2, <2>4, <2>5, NamesPassed
  <2> QED
    BY <2>3, <2>6
<1> QED
  BY <1>4, <1>5

\* A body has a table of its own, inside that of its parent.
LEMMA TypeBodyScopes ==
  ASSUME IInv, ScopesOK, NamesOK, TypeBody
  PROVE  ScopesOK' /\ NamesOK'
<1> DEFINE new == Len(tables) + 1
           table == [outer |-> In, names |-> <<>>]
<1>1. /\ pc = "type" /\ work # <<>> /\ nodes[Next1].kind = "body" /\ pc' = "type"
      /\ UNCHANGED <<nodes, syms, sym>> /\ tables' = Append(tables, table)
      /\ work' = Visits(nodes[Next1].kids, new) \o Tail(work)
  BY DEF TypeBody, Typing, parsing
<1>2. Next1 \in DOMAIN nodes /\ In \in DOMAIN tables
  BY <1>1, NextTyped
<1>3. Len(tables) \in Nat /\ DOMAIN tables = 1 .. Len(tables)
  BY DEF ScopesOK
<1>4. table.outer = In /\ table.names = <<>> /\ {"outer", "names"} \subseteq DOMAIN table
  OBVIOUS
<1> HIDE DEF table
<1>5. /\ \E T : tables' \in Seq(T)
      /\ DOMAIN tables' = 1 .. new /\ tables'[new] = table
      /\ \A u \in DOMAIN tables : tables'[u] = tables[u]
  <2>1. PICK T : tables \in Seq(T)
    BY DEF ScopesOK
  <2>2. tables' \in Seq(T \cup {table})
    BY <1>1, <2>1
  <2> QED
    BY <1>1, <1>3, <2>1, <2>2
<1>6. ASSUME NEW u \in DOMAIN tables'
      PROVE  /\ {"outer", "names"} \subseteq DOMAIN tables'[u] /\ tables'[u].outer \in 0 .. u - 1
             /\ \A x \in DOMAIN tables'[u].names : tables'[u].names[x] \in DOMAIN syms'
  <2>1. CASE u \in DOMAIN tables
    BY <1>1, <1>5, <2>1 DEF ScopesOK
  <2>2. CASE u = new
    <3>1. DOMAIN table.names = {} /\ table.outer \in 0 .. u - 1
      BY <1>2, <1>3, <1>4, <2>2
    <3> QED
      BY <1>4, <1>5, <2>2, <3>1
  <2> QED
    BY <1>3, <1>5, <2>1, <2>2
<1>7. ScopesOK'
  BY <1>1, <1>5, <1>6 DEF ScopesOK
<1>8. NamesOK'
  <2> DEFINE J == DOMAIN tables'
  <2>1. DOMAIN tables \subseteq J /\ new \in J
    BY <1>3, <1>5
  <2> HIDE DEF J, new
  <2>2. /\ work' \in Seq([node : DOMAIN nodes, in : J])
        /\ NodesOf(work') = Kids(Next1) \cup NodesOf(Tail(work))
    BY <1>1, <2>1, BelowTyped
  <2> QED
    BY <1>1, <2>2, NamesPassed DEF J
<1> QED
  BY <1>7, <1>8

\* Other nodes only pass their table on.
LEMMA TypeOtherScopes ==
  ASSUME IInv, ScopesOK, NamesOK, TypeOther
  PROVE  ScopesOK' /\ NamesOK'
<1>1. /\ pc = "type" /\ work # <<>> /\ nodes[Next1].kind # "ident" /\ pc' = "type"
      /\ UNCHANGED <<nodes, syms, sym, tables>>
      /\ work' = Visits(nodes[Next1].kids, In) \o Tail(work)
  BY DEF TypeOther, parsing, scopes
<1>2. In \in DOMAIN tables
  BY <1>1, NextTyped
<1>3. /\ work' \in Seq([node : DOMAIN nodes, in : DOMAIN tables])
      /\ NodesOf(work') = Kids(Next1) \cup NodesOf(Tail(work))
  BY <1>1, <1>2, BelowTyped
<1>4. NamesOK'
  BY <1>1, <1>3, NamesPassed
<1> QED
  BY <1>1, <1>4 DEF ScopesOK

\* BadType looks at what the later passes leave as it is.
LEMMA BadTypesStay ==
  ASSUME UNCHANGED <<nodes, syms, sym, prog>>
  PROVE  \A n : BadType(n)' <=> BadType(n)
<1>1. TypeOf' = TypeOf
  BY TypesStay
<1> QED
  BY <1>1 DEF BadType, AssignsInput, Target

\* type_check: nothing is left to be visited, and no type is bad.
LEMMA TypeCheckScopes ==
  ASSUME ScopesOK, NamesOK, TypeCheck
  PROVE  ScopesOK' /\ NamesOK'
<1>1. /\ pc = "type" /\ work = <<>> /\ UNCHANGED <<prog, nodes, syms, sym, tables>>
      /\ pc' = IF \E n \in DOMAIN nodes : BadType(n) THEN "rejected" ELSE "eliminate"
  BY DEF TypeCheck, parsing, scopes
<1>2. WorkNodes = {}
  BY <1>1 DEF WorkNodes
<1>3. Of("ident") \subseteq DOMAIN sym
  BY <1>1, <1>2 DEF NamesOK
<1>4. pc' # "type" /\ (pc' \in {"eliminate", "codegen"} => \A n \in DOMAIN nodes : ~ BadType(n))
  BY <1>1
<1>5. NamesOK'
  BY <1>1, <1>3, <1>4, BadTypesStay DEF NamesOK, Of
<1> QED
  BY <1>1, <1>5 DEF ScopesOK

\* The passes behind it leave names and types as they are.
LEMMA LaterScopes ==
  ASSUME ScopesOK, NamesOK, pc # "parse", pc # "type", pc' # "type",
         pc' \in {"eliminate", "codegen"} => pc \in {"eliminate", "codegen"},
         UNCHANGED <<prog, nodes, scopes>>
  PROVE  ScopesOK' /\ NamesOK'
<1>1. UNCHANGED <<prog, nodes, syms, sym, tables>>
  BY DEF scopes
<1>2. NamesOK'
  BY <1>1, BadTypesStay DEF NamesOK, Of
<1> QED
  BY <1>1, <1>2 DEF ScopesOK


\* Numbers that are bounded have a greatest one.
LEMMA MaxIn ==
  ASSUME NEW N \in Nat, NEW S, S \subseteq 1 .. N, S # {}
  PROVE  Max(S) \in S
<1> DEFINE T == {N - i : i \in S}
<1>1. T \subseteq Nat /\ T # {}
  <2>1. \A i \in S : N - i \in Nat
    OBVIOUS
  <2>2. PICK i \in S : TRUE
    OBVIOUS
  <2>3. N - i \in T
    OBVIOUS
  <2> QED
    BY <2>1, <2>3
<1>2. PICK y \in T : \A z \in T : y <= z
  <2> HIDE DEF T
  <2> QED
    BY <1>1, LeastNat
<1>3. PICK x \in S : y = N - x
  BY <1>2
<1>4. \A i \in S : x >= i
  <2> TAKE i \in S
  <2>1. y <= N - i
    BY <1>2
  <2> QED
    BY <1>3, <2>1
<1>5. \E m \in S : \A i \in S : m >= i
  BY <1>4
<1> QED
  BY <1>5 DEF Max

\* Every identifier of the function is below a statement of its body.
LEMMA TreeEq == NodesOK => \A n \in DOMAIN nodes : Tree[n] = {n} \cup UNION {Tree[k] : k \in Kids(n)}
BY TreeDef

LEMMA BelowRoot == NodesOK /\ RootOK /\ pc # "parse" => \A n \in DOMAIN nodes : n \in Tree[Root]
BY AllBelowRoot

\* What type_visitor starts with: the statements of the body.
LEMMA ConstructFunctionNames ==
  ASSUME IInv, KindsOK, ConstructFunction
  PROVE  work' \in Seq([node : DOMAIN nodes', in : {1}])
         /\ \A n \in Of("ident")' : \E m \in WorkNodes' : n \in Tree'[m]
<1> DEFINE body == stack[1]
           kids == nodes[body].kids
           L == Len(nodes)
           below(n) == ToSet(nodes'[n].kids) \ {0}
<1>1. /\ body \in DOMAIN nodes /\ nodes[body].kind = "body"
      /\ Len(nodes') = L + 1 /\ \A n \in DOMAIN nodes : nodes'[n] = nodes[n]
      /\ nodes'[L + 1].kind = "function" /\ KindsOK'
      /\ Kids(Root)' = {body} \cup Args
  BY ConstructFunctionKinds
<1>2. pc' = "type" /\ work' = Visits(kids, 1) /\ IInv' /\ Args' = Args
  BY ConstructFunctionOK DEF ConstructFunction, Args
<1>3. /\ L \in Nat /\ DOMAIN nodes = 1 .. L /\ Args \subseteq DOMAIN nodes
  BY KidsBefore, ArgsFacts DEF IInv
<1>4. DOMAIN nodes' = 1 .. L + 1
  BY <1>1, <1>2 DEF IInv, NodesOK
<1>5. kids \in Seq(Nat) /\ Kids(body) = ToSet(kids) \cap DOMAIN nodes
  <2>1. kids \in Seq(0 .. body - 1) /\ Kids(body) \subseteq 1 .. body - 1 /\ body \in Nat
    BY <1>1, <1>3, KidsBefore DEF IInv, NodesOK
  <2> HIDE DEF kids
  <2>2. kids \in Seq(Nat)
    <3>1. 0 .. body - 1 \subseteq Nat
      BY <2>1
    <3> QED
      BY <2>1, <3>1
  <2>3. Kids(body) \subseteq DOMAIN nodes /\ 0 \notin DOMAIN nodes
    BY <1>1, <1>3, <2>1
  <2>4. Kids(body) = ToSet(kids) \ {0}
    BY DEF Kids, kids
  <2> QED
    BY <2>2, <2>3, <2>4
<1> HIDE DEF kids
<1>6. /\ work' \in Seq([node : DOMAIN nodes, in : {1}])
      /\ WorkNodes' = Kids(body)
  BY <1>2, <1>5, VisitsFacts DEF WorkNodes
<1>7. work' \in Seq([node : DOMAIN nodes', in : {1}])
  <2> DEFINE C == [node : DOMAIN nodes, in : {1}]
             D == [node : DOMAIN nodes', in : {1}]
  <2>1. C \subseteq D /\ work' \in Seq(C)
    BY <1>3, <1>4, <1>6
  <2> HIDE DEF C, D
  <2>2. work' \in Seq(D)
    BY <2>1
  <2> QED
    BY <2>2 DEF D
<1>8. \A n \in DOMAIN nodes' : Tree'[n] = {n} \cup UNION {Tree'[k] : k \in below(n)}
  <2>1. (NodesOK => \A n \in DOMAIN nodes : Tree[n] = {n} \cup UNION {Tree[k] : k \in Kids(n)})'
    BY TreeEq, PTL
  <2> QED
    BY <1>2, <2>1 DEF IInv, Kids
<1>9. \A n \in DOMAIN nodes' : n \in Tree'[Root']
  <2>1. (NodesOK /\ RootOK /\ pc # "parse" => \A n \in DOMAIN nodes : n \in Tree[Root])'
    BY BelowRoot, PTL
  <2> QED
    BY <1>2, <2>1 DEF IInv
<1>10. Root' = L + 1
  BY <1>1 DEF Root
<1>11. \A a \in Args : Tree'[a] = {a} /\ nodes'[a].kind = "def"
  <2> TAKE a \in Args
  <2>1. nodes'[a].kids = <<0>> /\ nodes'[a].kind = "def" /\ a \in DOMAIN nodes'
    BY <1>1, <1>2, <1>3, <1>4 DEF KindsOK
  <2>2. below(a) = {}
    BY <2>1 DEF ToSet
  <2> QED
    BY <1>8, <2>1, <2>2
<1>12. below(body) = Kids(body) /\ nodes'[body].kind = "body" /\ body \in DOMAIN nodes'
  BY <1>1, <1>3, <1>4 DEF Kids
<1>13. ASSUME NEW n \in Of("ident")'
       PROVE  \E m \in WorkNodes' : n \in Tree'[m]
  <2>1. n \in DOMAIN nodes' /\ nodes'[n].kind = "ident"
    BY <1>13 DEF Of
  <2>2. Tree'[Root'] = {Root'} \cup UNION {Tree'[k] : k \in Kids(Root)'}
    <3>1. L + 1 \in DOMAIN nodes'
      BY <1>3, <1>4
    <3>2. below(L + 1) = Kids(Root)'
      BY <1>10 DEF Kids
    <3> HIDE DEF below
    <3> QED
      BY <1>8, <1>10, <3>1, <3>2
  <2>3. n # Root' /\ n # body /\ n \notin Args
    BY <1>1, <1>10, <1>11, <1>12, <2>1
  <2>4. n \in Tree'[body]
    BY <1>1, <1>9, <1>11, <2>1, <2>2, <2>3
  <2>5. n \in UNION {Tree'[k] : k \in Kids(body)}
    <3> HIDE DEF below
    <3>1. Tree'[body] = {body} \cup UNION {Tree'[k] : k \in Kids(body)}
      BY <1>8, <1>12
    <3> QED
      BY <2>3, <2>4, <3>1
  <2> QED
    BY <1>6, <2>5
<1> QED
  BY <1>7, <1>13

\* The inputs are the first symbols, in the outermost table.
LEMMA ConstructFunctionScopes ==
  ASSUME IInv, KindsOK, SymsOK, ConstructFunction
  PROVE  ScopesOK' /\ NamesOK'
<1> DEFINE args == prog.args
           names == {args[i].name : i \in DOMAIN args}
           entry(i) == [type |-> args[i].type, input |-> TRUE]
           found == [x \in names |-> Max({i \in DOMAIN args : args[i].name = x})]
           table == [outer |-> 0, names |-> found]
<1>1. /\ pc = "parse" /\ pc' = "type" /\ sym' = sym
      /\ syms' = [i \in DOMAIN args |-> entry(i)] /\ tables' = <<table>>
  BY DEF ConstructFunction
<1>2. DOMAIN args = 1 .. Len(args) /\ Len(args) \in Nat
  BY ArgsFacts DEF IInv, Args
<1>3. \A i \in DOMAIN args : args[i].type # Err
  <2>1. prog \in Programs
    BY DEF IInv, NodesOK
  <2>2. \A i \in DOMAIN args : IsType(args[i].type)
    BY <2>1, ProgramsAssumption DEF WellFormed
  <2> QED
    BY <2>2, TypesAreTypes
<1>4. sym' = <<>>
  BY <1>1 DEF SymsOK
<1>5. /\ DOMAIN syms' = DOMAIN args /\ \E T : syms' \in Seq(T)
      /\ \A i \in DOMAIN syms' : syms'[i].type # Err
  <2>1. \A i \in DOMAIN args : entry(i).type = args[i].type
    OBVIOUS
  <2> HIDE DEF entry
  <2>2. DOMAIN syms' = DOMAIN args /\ \A i \in DOMAIN args : syms'[i] = entry(i)
    BY <1>1
  <2>3. syms' \in Seq({entry(i) : i \in DOMAIN args})
    BY <1>1, <1>2
  <2> QED
    BY <1>3, <2>1, <2>2, <2>3
<1>6. \A x \in DOMAIN found : found[x] \in DOMAIN args
  <2> SUFFICES ASSUME NEW x \in names
               PROVE  Max({i \in DOMAIN args : args[i].name = x}) \in DOMAIN args
    OBVIOUS
  <2> DEFINE S == {i \in DOMAIN args : args[i].name = x}
  <2>1. S \subseteq 1 .. Len(args) /\ S # {}
    BY <1>2
  <2> HIDE DEF S
  <2>2. Max(S) \in S
    BY <1>2, <2>1, MaxIn
  <2> QED
    BY <2>2 DEF S
<1> HIDE DEF found
<1>7. /\ {"outer", "names"} \subseteq DOMAIN table /\ table.outer = 0 /\ table.names = found
  OBVIOUS
<1> HIDE DEF table
<1>8. /\ tables' \in Seq({table}) /\ DOMAIN tables' = {1} /\ tables'[1] = table
  BY <1>1
<1>9. ScopesOK'
  <2>1. DOMAIN sym' = {}
    BY <1>4
  <2>2. \A u \in DOMAIN tables' : u = 1 /\ 0 \in 0 .. u - 1
    BY <1>8
  <2>3. \A u \in DOMAIN tables' :
          /\ {"outer", "names"} \subseteq DOMAIN tables'[u] /\ tables'[u].outer \in 0 .. u - 1
          /\ \A x \in DOMAIN tables'[u].names : tables'[u].names[x] \in DOMAIN syms'
    BY <1>5, <1>6, <1>7, <1>8, <2>2
  <2> QED
    BY <1>5, <1>8, <2>1, <2>3 DEF ScopesOK
<1>10. NamesOK'
  <2>1. /\ work' \in Seq([node : DOMAIN nodes', in : {1}])
        /\ \A n \in Of("ident")' : \E m \in WorkNodes' : n \in Tree'[m]
    BY ConstructFunctionNames
  <2> QED
    BY <1>1, <1>8, <2>1 DEF NamesOK
<1> QED
  BY <1>9, <1>10


TypedInv == IInv /\ KindsOK /\ SymsOK /\ NamesOK

LEMMA InitTyped ==
  ASSUME Init
  PROVE  TypedInv
<1>1. pc = "parse" /\ sym = <<>>
  BY DEF Init
<1> QED
  BY <1>1, InitInv, InitKinds DEF TypedInv, SymsOK, NamesOK

LEMMA NextTypedInv ==
  ASSUME TypedInv, [Next]_vars
  PROVE  TypedInv'
<1>1. IInv' /\ KindsOK'
  BY NextInv, NextKinds DEF TypedInv
<1>2. CASE LeaveOut \/ Construct \/ ConstructLookup \/ ConstructCompound
  <2>1. pc = "parse" /\ pc' = "parse" /\ sym' = sym
    BY <1>2 DEF LeaveOut, Construct, ConstructLookup, ConstructCompound, Parsing, scopes
  <2> QED
    BY <1>1, <2>1 DEF TypedInv, SymsOK, NamesOK
<1>3. CASE ConstructFunction
  <2>1. ScopesOK' /\ NamesOK'
    BY <1>3, ConstructFunctionScopes DEF TypedInv
  <2>2. pc' # "parse" /\ nodes'[Len(nodes')].kind = "function"
    BY <1>3, ConstructFunctionKinds DEF ConstructFunction, TypedInv
  <2> QED
    BY <1>1, <2>1, <2>2 DEF TypedInv, SymsOK, Root
<1>4. CASE TypeDef \/ TypeIdent \/ TypeBody \/ TypeOther \/ TypeCheck \/ Eliminate \/ Generate
  <2>1. pc # "parse" /\ pc' # "parse" /\ nodes' = nodes
    BY <1>4, PassOK DEF parsing, TypedInv
  <2>2. ScopesOK
    BY <2>1 DEF TypedInv, SymsOK
  <2>3. CASE TypeDef
    BY <1>1, <2>1, <2>2, <2>3, TypeDefScopes DEF TypedInv, SymsOK, Root
  <2>4. CASE TypeIdent
    BY <1>1, <2>1, <2>2, <2>4, TypeIdentScopes DEF TypedInv, SymsOK, Root
  <2>5. CASE TypeBody
    BY <1>1, <2>1, <2>2, <2>5, TypeBodyScopes DEF TypedInv, SymsOK, Root
  <2>6. CASE TypeOther
    BY <1>1, <2>1, <2>2, <2>6, TypeOtherScopes DEF TypedInv, SymsOK, Root
  <2>7. CASE TypeCheck
    BY <1>1, <2>1, <2>2, <2>7, TypeCheckScopes DEF TypedInv, SymsOK, Root
  <2>8. CASE Eliminate \/ Generate
    <3>1. /\ pc \in {"eliminate", "codegen"} /\ pc' \in {"eliminate", "codegen"}
          /\ UNCHANGED <<prog, nodes, scopes>>
      BY <2>8 DEF Eliminate, Generate, parsing
    <3>2. ScopesOK' /\ NamesOK'
      BY <2>2, <3>1, LaterScopes DEF TypedInv
    <3> QED
      BY <1>1, <2>1, <3>2 DEF TypedInv, SymsOK, Root
  <2> QED
    BY <1>4, <2>3, <2>4, <2>5, <2>6, <2>7, <2>8
<1>5. CASE StartDelete \/ Delete \/ Finish
  <2>1. /\ pc \in {"codegen", "delete"} /\ pc' \in {"delete", "done", "undefined"}
        /\ UNCHANGED <<prog, nodes, scopes>>
    BY <1>5 DEF StartDelete, Delete, Finish, parsing
  <2>2. ScopesOK' /\ NamesOK'
    BY <2>1, LaterScopes DEF TypedInv, SymsOK
  <2> QED
    BY <1>1, <2>1, <2>2 DEF TypedInv, SymsOK, Root
<1>6. CASE UNCHANGED vars
  <2>1. UNCHANGED <<pc, prog, nodes, syms, sym, tables, work>>
    BY <1>6 DEF vars, parsing, scopes
  <2>2. Tree' = Tree
    BY <2>1 DEF Tree, Kids
  <2>3. NamesOK'
    BY <2>1, <2>2, BadTypesStay DEF TypedInv, NamesOK, Of, WorkNodes
  <2>4. SymsOK'
    BY <2>1 DEF TypedInv, SymsOK, ScopesOK, Root
  <2> QED
    BY <1>1, <2>3, <2>4 DEF TypedInv
<1> QED
  BY <1>2, <1>3, <1>4, <1>5, <1>6 DEF Next, Stutter

\* Where a lookup, a property or an operation can stand.
LEMMA Places ==
  ASSUME NodesOK, KindsOK, NEW m \in DOMAIN nodes, NEW i \in DOMAIN nodes[m].kids,
         KindIn(nodes, nodes[m].kids[i]) \in {"lookup", "prop", "binop"}
  PROVE  \/ nodes[m].kind = "create"
         \/ nodes[m].kind \in {"return", "precond", "def"} /\ i = 1
         \/ nodes[m].kind \in {"asg", "binop"} /\ i \in {1, 2}
         \/ nodes[m].kind = "for" /\ i = 3
         \/ nodes[m].kind = "if" /\ i = 2
         \/ nodes[m].kind = "lookup" /\ i \in 2 .. Len(nodes[m].kids)
<1> DEFINE kids == nodes[m].kids
           kind == nodes[m].kind
           kinds == KindsIn(nodes, kids)
           want == Parts(kind)
           have == KindIn(nodes, kids[i])
<1>1. Len(kids) \in Nat /\ DOMAIN kids = 1 .. Len(kids) /\ i \in 1 .. Len(kids)
  BY KidsFacts
<1>2. WellShaped(nodes[m], kinds)
  BY DEF KindsOK
<1>3. Len(kinds) = Len(kids) /\ DOMAIN kinds = DOMAIN kids /\ kinds[i] = have /\ have \in {"lookup", "prop", "binop"}
  BY <1>1 DEF KindsIn
<1> HIDE DEF kinds, kids, have, want
<1>4. kind \in Expr \cup Stmts \cup {"precond", "body", "function"}
  BY <1>2 DEF WellShaped
<1>5. CASE kind = "lookup"
  <2>1. kinds[1] = "ident"
    BY <1>2, <1>5 DEF WellShaped
  <2>2. i # 1
    BY <1>3, <2>1
  <2> QED
    BY <1>1, <1>5, <2>2 DEF kids
<1>6. CASE kind = "prop"
  <2>1. Len(kinds) = 1 /\ kinds[1] = "ident"
    BY <1>2, <1>6 DEF WellShaped
  <2>2. i = 1
    BY <1>1, <1>3, <2>1
  <2> QED
    BY <1>3, <2>1, <2>2
<1>7. CASE kind = "function"
  <2>1. kinds[i] \in {"body", "def"}
    BY <1>1, <1>2, <1>3, <1>7 DEF WellShaped
  <2> QED
    BY <1>3, <2>1
<1>8. CASE kind = "body"
  <2>1. Shape("body", kinds)
    BY <1>2, <1>8 DEF WellShaped
  <2>2. kinds[i] \in Stmts
    BY <1>1, <1>3, <2>1 DEF Shape, ToSet
  <2> QED
    BY <1>3, <2>2 DEF Stmts
<1>9. CASE kind \notin {"lookup", "prop", "function", "body"}
  <2>1. Shape(kind, kinds)
    BY <1>2, <1>9 DEF WellShaped
  <2>2. Len(kinds) = Len(want) /\ kinds[i] \in want[i]
    BY <1>1, <1>3, <1>9, <2>1 DEF Shape, want
  <2>3. i \in 1 .. Len(want) /\ have \in want[i]
    BY <1>1, <1>3, <2>2
  <2>4. CASE kind \in {"ident", "const", "break", "continue"}
    <3>1. Len(want) = 0
      BY <2>4 DEF want, Parts
    <3> QED
      BY <2>3, <3>1
  <2>5. CASE kind = "create"
    BY <2>5
  <2>6. CASE kind \in {"return", "precond", "def"}
    <3>1. Len(want) = 1
      BY <2>6 DEF want, Parts
    <3> QED
      BY <2>3, <2>6, <3>1
  <2>7. CASE kind \in {"asg", "binop"}
    <3>1. Len(want) = 2
      BY <2>7 DEF want, Parts
    <3> QED
      BY <2>3, <2>7, <3>1
  <2>8. CASE kind = "if"
    <3>1. /\ Len(want) = 4 /\ want[1] = {"precond", "null"}
          /\ want[3] = {"body"} /\ want[4] = {"body", "null"}
      BY <2>8 DEF want, Parts, Opt
    <3>2. i # 1 /\ i # 3 /\ i # 4
      BY <1>3, <2>3, <3>1
    <3> QED
      BY <2>3, <2>8, <3>1, <3>2
  <2>9. CASE kind = "for"
    <3>1. /\ Len(want) = 5 /\ want[1] = {"precond", "null"} /\ want[2] = {"asg", "null"}
          /\ want[4] = {"asg", "null"} /\ want[5] = {"body"}
      BY <2>9 DEF want, Parts, Opt
    <3>2. i # 1 /\ i # 2 /\ i # 4 /\ i # 5
      BY <1>3, <2>3, <3>1
    <3> QED
      BY <2>3, <2>9, <3>1, <3>2
  <2> QED
    BY <1>4, <1>9, <2>4, <2>5, <2>6, <2>7, <2>8, <2>9 DEF Expr, Stmts
<1> QED
  BY <1>5, <1>6, <1>7, <1>8, <1>9

LEMMA ErrIsNoType == Err # <<"bool">> /\ Err # <<"int">>
<1>1. Err[1] = "error" /\ <<"bool">>[1] = "bool" /\ <<"int">>[1] = "int"
  BY DEF Err
<1> QED
  BY <1>1

\* What type_check has looked at, or get_type of an operation, is typed.
LEMMA TypedBelow ==
  ASSUME TypedInv, pc = "codegen", NEW m \in DOMAIN nodes, NEW i \in DOMAIN nodes[m].kids,
         KindIn(nodes, nodes[m].kids[i]) \in {"lookup", "prop", "binop"},
         nodes[m].kind # "create", nodes[m].kind = "binop" => TypeOf[m] # Err
  PROVE  TypeOf[nodes[m].kids[i]] # Err
<1> DEFINE kids == nodes[m].kids
           kind == nodes[m].kind
           type(j) == TypeOf[kids[j]]
<1>1. ~ BadType(m)
  BY DEF TypedInv, NamesOK
<1>2. \/ kind \in {"return", "precond", "def"} /\ i = 1
      \/ kind \in {"asg", "binop"} /\ i \in {1, 2}
      \/ kind = "for" /\ i = 3
      \/ kind = "if" /\ i = 2
      \/ kind = "lookup" /\ i \in 2 .. Len(kids)
  BY Places DEF TypedInv, IInv
<1>3. kids[i] # 0
  BY DEF KindIn
<1>4. CASE kind = "return"
  <2>1. type(1) = prog.ret
    BY <1>1, <1>4 DEF BadType
  <2>2. IsType(prog.ret)
    BY ProgramsAssumption DEF TypedInv, IInv, NodesOK, WellFormed
  <2> QED
    BY <1>2, <1>4, <2>1, <2>2, TypesAreTypes
<1>5. CASE kind \in {"precond", "def"}
  <2>1. i = 1 /\ kids # <<0>>
    BY <1>2, <1>3, <1>5
  <2>2. kind = "precond" => type(1) = <<"bool">>
    BY <1>1, <2>1 DEF BadType
  <2>3. kind = "def" => type(1) # Err
    BY <1>1, <2>1 DEF BadType
  <2> QED
    BY <1>5, <2>1, <2>2, <2>3, ErrIsNoType
<1>6. CASE kind = "asg"
  <2>1. type(1) # Err /\ type(2) # Err
    BY <1>1, <1>6 DEF BadType
  <2> QED
    BY <1>2, <1>6, <2>1
<1>7. CASE kind = "binop"
  <2>1. TypeOf[m] = TypeBy(nodes[m], type(1), type(2), syms[sym[m]].type)
    BY TypeOfDef DEF TypedInv, IInv, TypeStep
  <2>2. TypeBy(nodes[m], type(1), type(2), syms[sym[m]].type) # Err
    BY <1>7, <2>1
  <2>3. type(1) # Err /\ type(2) # Err
    BY <1>7, <2>2 DEF TypeBy
  <2> QED
    BY <1>2, <1>7, <2>3
<1>8. CASE kind = "for"
  <2>1. type(3) = <<"bool">>
    BY <1>1, <1>8 DEF BadType
  <2> QED
    BY <1>2, <1>8, <2>1, ErrIsNoType
<1>9. CASE kind = "if"
  <2>1. type(2) = <<"bool">>
    BY <1>1, <1>9 DEF BadType
  <2> QED
    BY <1>2, <1>9, <2>1, ErrIsNoType
<1>10. CASE kind = "lookup"
  <2>1. \A j \in 2 .. Len(kids) : type(j) = <<"int">>
    BY <1>1, <1>10 DEF BadType
  <2> QED
    BY <1>2, <1>10, <2>1, ErrIsNoType
<1> QED
  BY <1>2, <1>4, <1>5, <1>6, <1>7, <1>8, <1>9, <1>10

LEMMA AllTyped ==
  ASSUME TypedInv
  PROVE  ExpressionsTyped
<1> SUFFICES ASSUME pc = "codegen"
             PROVE  \A n \in Expressions \ UNION {Tree[c] \ {c} : c \in Of("create")} : TypeOf[n] # Err
  BY DEF ExpressionsTyped
<1> DEFINE inner == UNION {Tree[c] \ {c} : c \in Of("create")}
           S == {d \in Nat : \A n \in Expressions \ inner : d = Len(nodes) - n => TypeOf[n] # Err}
<1>1. Len(nodes) \in Nat /\ DOMAIN nodes = 1 .. Len(nodes)
  BY KidsBefore DEF TypedInv, IInv
<1>2. \A n \in Expressions : n \in DOMAIN nodes /\ nodes[n].kind \in Expr
  BY DEF Expressions, Of, Expr
<1>3. ASSUME NEW d \in Nat, \A e \in Nat : e < d => e \in S
      PROVE  d \in S
  <2> SUFFICES ASSUME NEW n \in Expressions \ inner, d = Len(nodes) - n
               PROVE  TypeOf[n] # Err
    OBVIOUS
  <2>1. n \in DOMAIN nodes /\ nodes[n].kind \in Expr /\ n # 0
    BY <1>1, <1>2
  <2>2. TypeOf[n] = TypeBy(nodes[n], TypeOf[nodes[n].kids[1]], TypeOf[nodes[n].kids[2]], syms[sym[n]].type)
    BY <2>1, TypeOfDef DEF TypedInv, IInv, TypeStep
  <2>3. CASE nodes[n].kind \in {"const", "create"}
    <3>1. TypeOf[n] = nodes[n].type
      BY <2>2, <2>3 DEF TypeBy
    <3>2. WellShaped(nodes[n], KindsIn(nodes, nodes[n].kids))
      BY <2>1 DEF TypedInv, KindsOK
    <3> QED
      BY <2>3, <3>1, <3>2 DEF WellShaped
  <2>4. CASE nodes[n].kind = "ident"
    <3>1. TypeOf[n] = syms[sym[n]].type
      BY <2>2, <2>4 DEF TypeBy
    <3>2. n \in DOMAIN sym /\ ScopesOK
      BY <2>1, <2>4 DEF TypedInv, NamesOK, SymsOK, Of
    <3> QED
      BY <3>1, <3>2 DEF ScopesOK
  <2>5. CASE nodes[n].kind \in {"lookup", "prop", "binop"}
    <3>1. n # Root
      BY <2>5 DEF TypedInv, SymsOK
    <3>2. PICK m \in DOMAIN nodes : n \in Kids(m)
      BY <2>1, <3>1 DEF TypedInv, IInv, RootOK, HasParent
    <3>3. PICK i \in DOMAIN nodes[m].kids : nodes[m].kids[i] = n
      BY <3>2, KidsFacts DEF TypedInv, IInv
    <3>4. KindIn(nodes, nodes[m].kids[i]) \in {"lookup", "prop", "binop"}
      BY <2>1, <2>5, <3>3 DEF KindIn
    <3>5. n \in 1 .. m - 1
      BY <3>2, KidsBefore DEF TypedInv, IInv
    <3>6. n \in Tree[m] /\ n # m
      <4>1. n \in Tree[n] /\ Tree[m] = {m} \cup UNION {Tree[k] : k \in Kids(m)}
        BY <2>1, TreeDef DEF TypedInv, IInv
      <4> QED
        BY <1>1, <3>2, <3>5, <4>1
    <3>7. nodes[m].kind # "create"
      BY <3>6 DEF Of
    <3>8. nodes[m].kind = "binop" => TypeOf[m] # Err
      <4> SUFFICES ASSUME nodes[m].kind = "binop"
                   PROVE  TypeOf[m] # Err
        OBVIOUS
      <4>1. m \in Expressions
        BY DEF Expressions, Of
      <4>2. m \notin inner
        <5> SUFFICES ASSUME NEW c \in Of("create"), m \in Tree[c]
                     PROVE  n \in Tree[c] /\ n # c
          OBVIOUS
        <5>1. c \in DOMAIN nodes
          BY DEF Of
        <5>2. m \in 1 .. c /\ Kids(m) \subseteq Tree[c]
          BY <5>1, TreeClosed DEF TypedInv, IInv
        <5> QED
          BY <1>1, <3>2, <3>5, <5>1, <5>2
      <4> DEFINE e == Len(nodes) - m
      <4>3. e \in Nat /\ e < d
        BY <1>1, <3>5
      <4>4. e \in S
        BY <1>3, <4>3
      <4> HIDE DEF inner
      <4> QED
        BY <4>1, <4>2, <4>4
    <3> QED
      BY <3>3, <3>4, <3>7, <3>8, TypedBelow
  <2> QED
    BY <2>1, <2>3, <2>4, <2>5 DEF Expr
<1>4. \A d \in Nat : d \in S
  <2> HIDE DEF S
  <2> QED
    BY <1>3, StrongInduction
<1> HIDE DEF inner
<1>5. ASSUME NEW n \in Expressions \ inner
      PROVE  TypeOf[n] # Err
  <2>1. Len(nodes) - n \in Nat
    BY <1>1, <1>2
  <2> QED
    BY <1>4, <2>1
<1> QED
  BY <1>5 DEF inner

\* Every expression that code is generated for has a type, whatever the
\* program: type_check_visitor asks for the types of some nodes, and what it
\* does not ask for are operands of what it asks for, and names and constants,
\* which type_visitor and the grammar have typed (type_check_visitor, get_type).
THEOREM EveryExpressionTyped == Spec => []ExpressionsTyped
<1>1. Init => TypedInv
  BY InitTyped
<1>2. TypedInv /\ [Next]_vars => TypedInv'
  BY NextTypedInv
<1>3. TypedInv => ExpressionsTyped
  BY AllTyped
<1> QED
  BY <1>1, <1>2, <1>3, PTL DEF Spec
==============================================================================
