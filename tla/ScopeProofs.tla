------------------------------ MODULE ScopeProofs ------------------------------
(***************************************************************************)
(* Proofs about the names of a program, for every program: each means what *)
(* its scope says, and no variable is used before its alloca.              *)
(*                                                                         *)
(* The argument: the trees of statements lie apart and in the order of the *)
(* text, so what was visited when a node is reached is what stands in      *)
(* front of it; the tables hold the last definition of each name there;    *)
(* and code is generated for the definition before it is for the uses.     *)
(***************************************************************************)
EXTENDS SyntaxTreeProofs

-----------------------------------------------------------------------------
(* The trees of statements lie apart.                                      *)

\* What has a place of its own in the order of the text.
Placed == Stmts \cup {"body"}
\* Placed nodes below them are their children, or below those.
Blocks == {"body", "if", "for"}

\* What waits on the stack was created after what waits below it.
StackOrder ==
  pc = "parse" =>
    \A j \in DOMAIN stack : stack[j] # 0 =>
      \A m \in Tree[stack[j]] :
        m > Len(prog.args) /\ \A i \in DOMAIN stack : i < j => m > stack[i]

\* The parts of a block follow each other.
KidsOrder ==
  \A n \in DOMAIN nodes : nodes[n].kind \in Blocks =>
    \A i, j \in DOMAIN nodes[n].kids :
      i < j /\ nodes[n].kids[j] # 0 => \A m \in Tree[nodes[n].kids[j]] : m > nodes[n].kids[i]

\* A statement has one parent, and nothing below it has one elsewhere.
OwnTree ==
  \A s \in DOMAIN nodes : nodes[s].kind \in Placed =>
    /\ \A n \in DOMAIN nodes : \A k \in Kids(n) \cap Tree[s] : n \in Tree[s] \/ k = s
    /\ \A m, n \in DOMAIN nodes : s \in Kids(m) \cap Kids(n) => m = n

\* The inputs and the body are the children of the function, which is the root.
RootKids ==
  /\ \A n \in DOMAIN nodes : nodes[n].kind = "function" =>
       /\ pc # "parse" /\ n = Root /\ nodes[n].kids # <<>>
       /\ nodes[n].kids[1] \in DOMAIN nodes \ Args /\ nodes[nodes[n].kids[1]].kind = "body"
       /\ Kids(n) = {nodes[n].kids[1]} \cup Args
  /\ \A n \in DOMAIN nodes : nodes[n].kind # "function" => Kids(n) \cap Args = {}
  /\ \A a \in Args : nodes[a].name = prog.args[a].name

TreesOK == StackOrder /\ KidsOrder /\ OwnTree /\ RootKids

-----------------------------------------------------------------------------
\* A set that has the children of its nodes has their trees.
TreesWithin ==
  \A A : A \subseteq DOMAIN nodes /\ (\A a \in A : Kids(a) \subseteq A) => \A a \in A : Tree[a] \subseteq A

LEMMA TreeWithin == NodesOK => TreesWithin
<1> SUFFICES ASSUME NodesOK, NEW A, A \subseteq DOMAIN nodes, \A a \in A : Kids(a) \subseteq A
             PROVE  \A a \in A : Tree[a] \subseteq A
  BY DEF TreesWithin
<1>1. /\ Len(nodes) \in Nat /\ DOMAIN nodes = 1 .. Len(nodes)
      /\ \A i \in DOMAIN nodes : Kids(i) \subseteq 1 .. i - 1
  BY KidsBefore
<1>2. \A n \in DOMAIN nodes : Tree[n] = {n} \cup UNION {Tree[k] : k \in Kids(n)}
  BY TreeDef
<1> DEFINE S == {d \in Nat : d \in A => Tree[d] \subseteq A}
<1>3. ASSUME NEW d \in Nat, \A e \in Nat : e < d => e \in S
      PROVE  d \in S
  <2> SUFFICES ASSUME d \in A
               PROVE  Tree[d] \subseteq A
    OBVIOUS
  <2>1. \A k \in Kids(d) : k \in Nat /\ k < d /\ k \in A
    BY <1>1
  <2>2. \A k \in Kids(d) : Tree[k] \subseteq A
    BY <1>3, <2>1
  <2> QED
    BY <1>2, <2>2
<1>4. \A d \in Nat : d \in S
  <2> HIDE DEF S
  <2> QED
    BY <1>3, StrongInduction
<1> QED
  BY <1>1, <1>4

\* Trees below are within trees.
TreesNested ==
  \A n \in DOMAIN nodes :
    /\ n \in Tree[n]
    /\ \A m \in Tree[n] : /\ m \in DOMAIN nodes /\ m <= n
                          /\ Kids(m) \subseteq Tree[n] /\ Tree[m] \subseteq Tree[n]

LEMMA TreeSub == NodesOK => TreesNested
<1> SUFFICES ASSUME NodesOK, NEW n \in DOMAIN nodes
             PROVE  /\ n \in Tree[n]
                    /\ \A m \in Tree[n] : /\ m \in DOMAIN nodes /\ m <= n
                                          /\ Kids(m) \subseteq Tree[n]
                                          /\ Tree[m] \subseteq Tree[n]
  BY DEF TreesNested
<1>1. n \in Tree[n]
  BY TreeDef
<1>2. \A m \in Tree[n] : m \in DOMAIN nodes /\ m \in 1 .. n /\ Kids(m) \subseteq Tree[n]
  BY TreeClosed
<1>3. \A m \in Tree[n] : m <= n
  BY <1>2
<1>4. \A m \in Tree[n] : Tree[m] \subseteq Tree[n]
  BY <1>2, TreeWithin DEF TreesWithin
<1> QED
  BY <1>1, <1>2, <1>3, <1>4

\* Old nodes keep their trees as nodes are added.
LEMMA OldTrees ==
  ASSUME NodesOK, NodesOK', \A n \in DOMAIN nodes : n \in DOMAIN nodes' /\ nodes'[n] = nodes[n]
  PROVE  \A n \in DOMAIN nodes : Tree'[n] = Tree[n]
<1> DEFINE below(n) == ToSet(nodes'[n].kids) \ {0}
<1>1. /\ Len(nodes) \in Nat /\ DOMAIN nodes = 1 .. Len(nodes)
      /\ \A i \in DOMAIN nodes : Kids(i) \subseteq 1 .. i - 1
  BY KidsBefore
<1>2. \A n \in DOMAIN nodes : Tree[n] = {n} \cup UNION {Tree[k] : k \in Kids(n)}
  BY TreeDef
<1>3. \A n \in DOMAIN nodes' : Tree'[n] = {n} \cup UNION {Tree'[k] : k \in below(n)}
  <2>1. (NodesOK => \A n \in DOMAIN nodes : Tree[n] = {n} \cup UNION {Tree[k] : k \in Kids(n)})'
    BY TreeEq, PTL
  <2> QED
    BY <2>1 DEF Kids
<1>4. \A n \in DOMAIN nodes : below(n) = Kids(n)
  BY DEF Kids
<1> HIDE DEF below
<1> DEFINE S == {d \in Nat : d \in DOMAIN nodes => Tree'[d] = Tree[d]}
<1>5. ASSUME NEW d \in Nat, \A e \in Nat : e < d => e \in S
      PROVE  d \in S
  <2> SUFFICES ASSUME d \in DOMAIN nodes
               PROVE  Tree'[d] = Tree[d]
    OBVIOUS
  <2>1. \A k \in Kids(d) : k \in Nat /\ k < d /\ k \in DOMAIN nodes
    BY <1>1
  <2>2. \A k \in Kids(d) : Tree'[k] = Tree[k]
    BY <1>5, <2>1
  <2>3. {Tree'[k] : k \in Kids(d)} = {Tree[k] : k \in Kids(d)}
    BY <2>2
  <2>4. Tree[d] = {d} \cup UNION {Tree[k] : k \in Kids(d)}
    BY <1>2
  <2>5. Tree'[d] = {d} \cup UNION {Tree'[k] : k \in Kids(d)}
    BY <1>3, <1>4
  <2> QED
    BY <2>3, <2>4, <2>5
<1>6. \A d \in Nat : d \in S
  <2> HIDE DEF S
  <2> QED
    BY <1>5, StrongInduction
<1> QED
  BY <1>1, <1>6

\* What waits on the stack.
LEMMA StackFacts ==
  NodesOK /\ ParseOK /\ pc = "parse" =>
    /\ DOMAIN stack = 1 .. Len(stack) /\ Len(stack) \in Nat
    /\ \A j \in DOMAIN stack : stack[j] \in 0 .. Len(nodes) /\ (stack[j] # 0 => stack[j] \in DOMAIN nodes)
<1> SUFFICES ASSUME NodesOK, ParseOK, pc = "parse"
             PROVE  /\ DOMAIN stack = 1 .. Len(stack) /\ Len(stack) \in Nat
                    /\ \A j \in DOMAIN stack : /\ stack[j] \in 0 .. Len(nodes)
                                               /\ stack[j] # 0 => stack[j] \in DOMAIN nodes
  OBVIOUS
<1>1. Len(nodes) \in Nat /\ DOMAIN nodes = 1 .. Len(nodes)
  BY KidsBefore
<1> DEFINE D == 0 .. Len(nodes)
<1>2. stack \in Seq(D)
  BY DEF ParseOK
<1> HIDE DEF D
<1>3. DOMAIN stack = 1 .. Len(stack) /\ Len(stack) \in Nat /\ \A j \in DOMAIN stack : stack[j] \in D
  BY <1>2
<1> QED
  BY <1>1, <1>3 DEF D

\* Inputs have no children.
LEMMA ArgsAlone ==
  NodesOK /\ KindsOK => \A a \in Args : a \in DOMAIN nodes /\ Kids(a) = {} /\ Tree[a] = {a}
<1> SUFFICES ASSUME NodesOK, KindsOK, NEW a \in Args
             PROVE  a \in DOMAIN nodes /\ Kids(a) = {} /\ Tree[a] = {a}
  OBVIOUS
<1>1. a \in DOMAIN nodes
  BY ArgsFacts
<1>2. nodes[a].kids = <<0>>
  BY DEF KindsOK
<1>3. Kids(a) = {}
  BY <1>2 DEF Kids, ToSet
<1> QED
  BY <1>1, <1>3, TreeDef

\* Every node is an input or in the tree of what waits on the stack.
LEMMA StackAbove ==
  NodesOK /\ ParseOK /\ KindsOK /\ pc = "parse" =>
    \A n \in DOMAIN nodes : n \in Args \/ \E j \in DOMAIN stack : stack[j] # 0 /\ n \in Tree[stack[j]]
<1> SUFFICES ASSUME NodesOK, ParseOK, KindsOK, pc = "parse"
             PROVE  \A n \in DOMAIN nodes :
                      n \in Args \/ \E j \in DOMAIN stack : stack[j] # 0 /\ n \in Tree[stack[j]]
  OBVIOUS
<1>1. /\ Len(nodes) \in Nat /\ DOMAIN nodes = 1 .. Len(nodes)
      /\ \A n \in DOMAIN nodes : Kids(n) \subseteq 1 .. n - 1
  BY KidsBefore
<1> DEFINE Above(n) == n \in Args \/ \E j \in DOMAIN stack : stack[j] # 0 /\ n \in Tree[stack[j]]
           S == {d \in Nat : d < Len(nodes) => Above(Len(nodes) - d)}
<1>2. ASSUME NEW d \in Nat, \A e \in Nat : e < d => e \in S
      PROVE  d \in S
  <2> DEFINE n == Len(nodes) - d
  <2> SUFFICES ASSUME d < Len(nodes)
               PROVE  Above(n)
    OBVIOUS
  <2>1. n \in DOMAIN nodes /\ n # 0
    <3> HIDE DEF Above, S, n
    <3>1. Len(nodes) - d \in 1 .. Len(nodes)
      BY <1>1
    <3>2. n \in 1 .. Len(nodes)
      BY <3>1 DEF n
    <3>3. n # 0
      BY <1>1, <3>2
    <3> QED
      BY <1>1, <3>2, <3>3
  <2>2. n \in Args \/ n \in ToSet(stack) \/ HasParent(n)
    BY <2>1 DEF ParseOK
  <2>3. CASE n \in ToSet(stack)
    <3>1. n \in Tree[n]
      BY <2>1, TreeSub DEF TreesNested
    <3> QED
      BY <2>1, <2>3, <3>1 DEF ToSet
  <2>4. CASE HasParent(n)
    <3>1. PICK m \in DOMAIN nodes : n \in Kids(m)
      BY <2>4 DEF HasParent
    <3> DEFINE e == Len(nodes) - m
    <3>2. n \in 1 .. m - 1
      BY <1>1, <3>1
    <3>3. e \in Nat /\ e < d /\ e < Len(nodes) /\ Len(nodes) - e = m
      BY <1>1, <3>2
    <3>4. Above(m)
      BY <1>2, <3>3
    <3>5. m \notin Args
      BY <3>1, ArgsAlone
    <3>6. PICK j \in DOMAIN stack : stack[j] # 0 /\ m \in Tree[stack[j]]
      BY <3>4, <3>5
    <3>7. stack[j] \in DOMAIN nodes
      BY <3>6, StackFacts
    <3>8. n \in Tree[stack[j]]
      BY <3>1, <3>6, <3>7, TreeSub DEF TreesNested
    <3> QED
      BY <3>6, <3>8
  <2> QED
    BY <2>2, <2>3, <2>4
<1>3. \A d \in Nat : d \in S
  <2> HIDE DEF S
  <2> QED
    BY <1>2, StrongInduction
<1>4. ASSUME NEW n \in DOMAIN nodes
      PROVE  Above(n)
  <2>1. Len(nodes) - n \in Nat /\ Len(nodes) - n < Len(nodes) /\ Len(nodes) - (Len(nodes) - n) = n
    BY <1>1
  <2> HIDE DEF Above
  <2> QED
    BY <1>3, <2>1
<1> QED
  BY <1>4

\* The trees of what waits on the stack have nothing in common.
LEMMA StackApart ==
  NodesOK /\ ParseOK /\ StackOrder /\ pc = "parse" =>
    \A i, j \in DOMAIN stack :
      stack[i] # 0 /\ stack[j] # 0 /\ Tree[stack[i]] \cap Tree[stack[j]] # {} => i = j
<1> SUFFICES ASSUME NodesOK, ParseOK, StackOrder, pc = "parse"
             PROVE  \A i, j \in DOMAIN stack :
                      stack[i] # 0 /\ stack[j] # 0 /\ Tree[stack[i]] \cap Tree[stack[j]] # {} => i = j
  OBVIOUS
<1>1. /\ DOMAIN stack = 1 .. Len(stack) /\ Len(stack) \in Nat
      /\ \A j \in DOMAIN stack : stack[j] \in 0 .. Len(nodes) /\ (stack[j] # 0 => stack[j] \in DOMAIN nodes)
  BY StackFacts
<1>2. Len(nodes) \in Nat /\ DOMAIN nodes = 1 .. Len(nodes)
  BY KidsBefore
<1>3. ASSUME NEW i \in DOMAIN stack, NEW j \in DOMAIN stack, stack[i] # 0, stack[j] # 0, i < j,
             NEW m \in Tree[stack[i]], m \in Tree[stack[j]]
      PROVE  FALSE
  <2>1. m > stack[i]
    BY <1>3 DEF StackOrder
  <2>2. m <= stack[i] /\ m \in Nat /\ stack[i] \in Nat
    <3>1. stack[i] \in DOMAIN nodes
      BY <1>1, <1>3
    <3>2. m <= stack[i] /\ m \in DOMAIN nodes
      BY <1>3, <3>1, TreeSub DEF TreesNested
    <3> QED
      BY <1>2, <3>1, <3>2
  <2> QED
    BY <2>1, <2>2
<1> SUFFICES ASSUME NEW i \in DOMAIN stack, NEW j \in DOMAIN stack, stack[i] # 0, stack[j] # 0,
                    Tree[stack[i]] \cap Tree[stack[j]] # {}
             PROVE  i = j
  OBVIOUS
<1>4. PICK m \in Tree[stack[i]] : m \in Tree[stack[j]]
  OBVIOUS
<1>5. ~ (i < j) /\ ~ (j < i)
  BY <1>3, <1>4
<1> QED
  BY <1>1, <1>5

-----------------------------------------------------------------------------
(* The kinds of what is below a node.                                      *)

\* Nodes that have nothing but expressions below them.
Flat == Expr \cup {"asg", "def", "return", "break", "continue", "precond"}

\* The children of a node, position by position.
LEMMA PartKinds ==
  ASSUME NodesOK, KindsOK, NEW m \in DOMAIN nodes, nodes[m].kind \notin {"lookup", "prop", "function", "body"}
  PROVE  /\ Len(nodes[m].kids) = Len(Parts(nodes[m].kind))
         /\ \A i \in DOMAIN nodes[m].kids : KindIn(nodes, nodes[m].kids[i]) \in Parts(nodes[m].kind)[i]
<1> DEFINE kids == nodes[m].kids
           kind == nodes[m].kind
           kinds == KindsIn(nodes, kids)
           want == Parts(kind)
<1>1. Len(kids) \in Nat /\ DOMAIN kids = 1 .. Len(kids)
  BY KidsFacts
<1>2. WellShaped(nodes[m], kinds)
  BY DEF KindsOK
<1>3. Len(kinds) = Len(kids) /\ DOMAIN kinds = DOMAIN kids /\ \A i \in DOMAIN kids : kinds[i] = KindIn(nodes, kids[i])
  BY <1>1 DEF KindsIn
<1> HIDE DEF kinds, kids
<1>4. Shape(kind, kinds)
  BY <1>2 DEF WellShaped
<1>5. Len(kinds) = Len(want) /\ \A i \in DOMAIN kinds : kinds[i] \in want[i]
  BY <1>1, <1>3, <1>4 DEF Shape
<1> QED
  BY <1>3, <1>5 DEF kids

LEMMA KidKinds ==
  ASSUME NodesOK, KindsOK, NEW m \in DOMAIN nodes, NEW k \in Kids(m)
  PROVE  /\ k \in DOMAIN nodes
         /\ nodes[m].kind \in Flat => nodes[k].kind \in Expr
         /\ nodes[m].kind = "body" => nodes[k].kind \in Stmts
         /\ nodes[m].kind \in {"if", "for"} => nodes[k].kind \in Expr \cup {"precond", "asg", "body"}
         /\ nodes[m].kind = "function" => nodes[k].kind \in {"body", "def"}
<1> DEFINE kids == nodes[m].kids
           kind == nodes[m].kind
           kinds == KindsIn(nodes, kids)
           want == Parts(kind)
<1>1. Len(kids) \in Nat /\ DOMAIN kids = 1 .. Len(kids)
  BY KidsFacts
<1>2. PICK i \in DOMAIN kids : kids[i] = k
  BY KidsFacts
<1>3. k # 0 /\ k \in DOMAIN nodes
  <2>1. Kids(m) \subseteq 1 .. m - 1 /\ DOMAIN nodes = 1 .. Len(nodes) /\ Len(nodes) \in Nat
    BY KidsBefore
  <2> QED
    BY <2>1
<1>4. KindIn(nodes, kids[i]) = nodes[k].kind
  BY <1>2, <1>3 DEF KindIn
<1>5. WellShaped(nodes[m], kinds)
  BY DEF KindsOK
<1>6. Len(kinds) = Len(kids) /\ DOMAIN kinds = DOMAIN kids /\ kinds[i] = nodes[k].kind /\ i \in 1 .. Len(kids)
  BY <1>1, <1>4 DEF KindsIn
<1>7. CASE kind = "lookup"
  <2>1. kinds[1] = "ident" /\ \A j \in DOMAIN kinds \ {1} : kinds[j] \in Expr
    <3> HIDE DEF kinds
    <3> QED
      BY <1>5, <1>7 DEF WellShaped
  <2>2. nodes[k].kind \in Expr
    <3> HIDE DEF kinds, kids
    <3> QED
      BY <1>6, <2>1 DEF Expr
  <2> QED
    BY <1>3, <1>7, <2>2
<1>8. CASE kind = "prop"
  <2>1. Len(kinds) = 1 /\ kinds[1] = "ident"
    <3> HIDE DEF kinds
    <3> QED
      BY <1>5, <1>8 DEF WellShaped
  <2>2. nodes[k].kind \in Expr
    <3> HIDE DEF kinds, kids
    <3>1. i = 1
      BY <1>6, <2>1
    <3> QED
      BY <1>6, <2>1, <3>1 DEF Expr
  <2> QED
    BY <1>3, <1>8, <2>2
<1>9. CASE kind = "function"
  <2>1. nodes[k].kind \in {"body", "def"}
    <3> HIDE DEF kinds, kids
    <3> QED
      BY <1>5, <1>6, <1>9 DEF WellShaped
  <2> QED
    BY <1>3, <1>9, <2>1 DEF Flat, Expr
<1>10. CASE kind = "body"
  <2>1. Shape("body", kinds)
    <3> HIDE DEF kinds
    <3> QED
      BY <1>5, <1>10 DEF WellShaped
  <2>2. nodes[k].kind \in Stmts
    <3> HIDE DEF kinds, kids
    <3> QED
      BY <1>6, <2>1 DEF Shape, ToSet
  <2> QED
    BY <1>3, <1>10, <2>2 DEF Flat, Expr
<1>11. CASE kind \notin {"lookup", "prop", "function", "body"}
  <2>1. Len(kids) = Len(want) /\ nodes[k].kind \in want[i] /\ i \in 1 .. Len(want)
    BY <1>4, <1>6, <1>11, PartKinds
  <2> HIDE DEF kids, kinds
  <2>2. CASE kind \in {"ident", "const", "break", "continue"}
    <3>1. Len(want) = 0
      BY <2>2 DEF Parts
    <3> QED
      BY <2>1, <3>1
  <2>3. CASE kind = "precond" \/ kind = "def"
    <3>1. Len(want) = 1 /\ want[1] = Expr \cup {"null"}
      BY <2>3 DEF Parts, Opt
    <3>2. nodes[k].kind # "null"
      <4>1. WellShaped(nodes[k], KindsIn(nodes, nodes[k].kids))
        BY <1>3 DEF KindsOK
      <4> QED
        BY <4>1 DEF WellShaped, Expr, Stmts
    <3>3. i = 1
      BY <2>1, <3>1
    <3> HIDE DEF want
    <3> QED
      BY <1>3, <2>1, <2>3, <3>1, <3>2, <3>3
  <2>4. CASE kind = "create" \/ kind = "return"
    <3>1. Len(want) = 1 /\ want[1] = Expr
      BY <2>4 DEF Parts
    <3>3. i = 1
      BY <2>1, <3>1
    <3> HIDE DEF want
    <3> QED
      BY <1>3, <2>1, <2>4, <3>1, <3>3
  <2>5. CASE kind = "binop" \/ kind = "asg"
    <3>1. Len(want) = 2 /\ want[1] \subseteq Expr /\ want[2] = Expr
      BY <2>5 DEF Parts, Lvalue, Expr
    <3>3. i = 1 \/ i = 2
      BY <2>1, <3>1
    <3> HIDE DEF want
    <3> QED
      BY <1>3, <2>1, <2>5, <3>1, <3>3
  <2>6. CASE kind = "if" \/ kind = "for"
    <3>1. /\ Len(want) = 4 \/ Len(want) = 5
          /\ \A j \in 1 .. Len(want) : want[j] \subseteq Expr \cup {"precond", "asg", "body", "null"}
      <4>1. CASE kind = "if"
        <5>1. /\ Len(want) = 4 /\ want[1] = {"precond", "null"} /\ want[2] = Expr
              /\ want[3] = {"body"} /\ want[4] = {"body", "null"}
          BY <4>1 DEF Parts, Opt
        <5>2. \A j \in 1 .. 4 : j \in {1, 2, 3, 4}
          OBVIOUS
        <5> HIDE DEF want
        <5> QED
          BY <5>1, <5>2
      <4>2. CASE kind = "for"
        <5>1. /\ Len(want) = 5 /\ want[1] = {"precond", "null"} /\ want[2] = {"asg", "null"} /\ want[3] = Expr
              /\ want[4] = {"asg", "null"} /\ want[5] = {"body"}
          BY <4>2 DEF Parts, Opt
        <5>2. \A j \in 1 .. 5 : j \in {1, 2, 3, 4, 5}
          OBVIOUS
        <5> HIDE DEF want
        <5> QED
          BY <5>1, <5>2
      <4> QED
        BY <2>6, <4>1, <4>2
    <3>2. nodes[k].kind # "null"
      <4>1. WellShaped(nodes[k], KindsIn(nodes, nodes[k].kids))
        BY <1>3 DEF KindsOK
      <4> QED
        BY <4>1 DEF WellShaped, Expr, Stmts
    <3> HIDE DEF want
    <3>3. nodes[k].kind \in Expr \cup {"precond", "asg", "body"}
      BY <2>1, <3>1, <3>2
    <3>4. kind \notin Flat
      BY <2>6 DEF Flat, Expr
    <3> QED
      BY <1>3, <2>6, <3>3, <3>4
  <2>7. kind \in Expr \cup Stmts \cup {"precond", "body", "function"}
    BY <1>5 DEF WellShaped
  <2> QED
    BY <1>11, <2>2, <2>3, <2>4, <2>5, <2>6, <2>7 DEF Expr, Stmts
<1> QED
  BY <1>7, <1>8, <1>9, <1>10, <1>11

\* An expression has nothing but expressions in its tree.
LEMMA ExprTree ==
  NodesOK /\ KindsOK => \A n \in DOMAIN nodes : nodes[n].kind \in Expr => \A m \in Tree[n] : nodes[m].kind \in Expr
<1> SUFFICES ASSUME NodesOK, KindsOK, NEW n \in DOMAIN nodes, nodes[n].kind \in Expr
             PROVE  \A m \in Tree[n] : nodes[m].kind \in Expr
  OBVIOUS
<1> DEFINE A == {m \in DOMAIN nodes : nodes[m].kind \in Expr}
<1>1. \A a \in A : Kids(a) \subseteq A
  BY KidKinds DEF Flat
<1> QED
  BY <1>1, TreeWithin DEF TreesWithin

\* Nothing but expressions is below what is flat.
LEMMA FlatTree ==
  NodesOK /\ KindsOK => \A n \in DOMAIN nodes : nodes[n].kind \in Flat =>
                          \A m \in Tree[n] : m = n \/ nodes[m].kind \in Expr
<1> SUFFICES ASSUME NodesOK, KindsOK, NEW n \in DOMAIN nodes, nodes[n].kind \in Flat, NEW m \in Tree[n], m # n
             PROVE  nodes[m].kind \in Expr
  OBVIOUS
<1>1. PICK k \in Kids(n) : m \in Tree[k]
  BY TreeDef
<1> QED
  BY <1>1, KidKinds, ExprTree

-----------------------------------------------------------------------------
(* The trees that the visitor builds.                                      *)

\* What waits on the stack has no parent yet.
LEMMA NoParentYet ==
  ASSUME NodesOK, ParseOK, KindsOK, StackOrder, pc = "parse", NEW j \in DOMAIN stack, stack[j] # 0
  PROVE  ~ HasParent(stack[j])
<1> SUFFICES ASSUME NEW m \in DOMAIN nodes, stack[j] \in Kids(m)
             PROVE  FALSE
  BY DEF HasParent
<1>1. stack[j] \in DOMAIN nodes
  BY StackFacts
<1>2. m \notin Args
  BY ArgsAlone
<1>3. PICK i \in DOMAIN stack : stack[i] # 0 /\ m \in Tree[stack[i]]
  BY <1>2, StackAbove
<1>4. stack[i] \in DOMAIN nodes
  BY <1>3, StackFacts
<1>5. stack[j] \in Tree[stack[i]] /\ stack[j] \in Tree[stack[j]]
  BY <1>1, <1>3, <1>4, TreeSub DEF TreesNested
<1>6. i = j
  BY <1>3, <1>5, StackApart
<1>7. m <= stack[j]
  BY <1>1, <1>3, <1>6, TreeSub DEF TreesNested
<1>8. stack[j] \in 1 .. m - 1 /\ m \in Nat
  BY KidsBefore
<1> QED
  BY <1>7, <1>8

\* The nodes that a rule creates, the last of which it leaves on the stack: their
\* children are among them, are parts of the rule or are expressions below one.
NewKids(new) ==
  /\ (new = 0 /\ nodes' = nodes) \/ (new = Len(nodes') /\ new > Len(nodes))
  /\ \A n \in DOMAIN nodes' \ DOMAIN nodes :
       /\ n = new \/ nodes'[n].kind \in Expr
       /\ nodes'[n].kind # "function"
       /\ nodes'[n].kind \in Blocks => nodes'[n].kids = Operands
       /\ \A k \in ToSet(nodes'[n].kids) \ {0} :
            \/ k > Len(nodes)
            \/ k \in ToSet(Operands)
            \/ \E o \in ToSet(Operands) \ {0} : nodes[o].kind \in Expr /\ k \in Tree[o]

\* The new nodes have the trees of the operands below them, and nothing else.
LEMMA NewTrees ==
  ASSUME IInv, pc = "parse", text # <<>>, NEW new, RuleDone(new), IInv', NewKids(new)
  PROVE  \A n \in DOMAIN nodes' \ DOMAIN nodes : \A m \in Tree'[n] :
           m > Len(nodes) \/ \E o \in ToSet(Operands) \ {0} : m \in Tree[o]
<1> DEFINE L == Len(nodes)
           below(n) == ToSet(nodes'[n].kids) \ {0}
           Before == UNION {Tree[o] : o \in ToSet(Operands) \ {0}}
           All == Before \cup {n \in DOMAIN nodes' : n > L}
<1>1. /\ L \in Nat /\ DOMAIN nodes = 1 .. L /\ DOMAIN nodes' = 1 .. Len(nodes') /\ Len(nodes') \in Nat
      /\ L <= Len(nodes') /\ \A n \in DOMAIN nodes : n \in DOMAIN nodes' /\ nodes'[n] = nodes[n]
  BY DEF IInv, NodesOK, RuleDone
<1>2. \A o \in ToSet(Operands) \ {0} : o \in DOMAIN nodes
  <2> DEFINE D == 0 .. L
  <2>1. Operands \in Seq(D)
    BY PoppedFacts DEF IInv
  <2> HIDE DEF D
  <2>2. ToSet(Operands) \subseteq D
    BY <2>1 DEF ToSet
  <2> QED
    BY <1>1, <2>2 DEF D
<1>3. Before \subseteq DOMAIN nodes /\ \A m \in Before : Kids(m) \subseteq Before
  BY <1>2, TreeSub DEF TreesNested, IInv
<1>4. \A o \in ToSet(Operands) \ {0} : o \in Before
  BY <1>2, TreeSub DEF TreesNested, IInv
<1>5. \A a \in All : below(a) \subseteq All
  <2> SUFFICES ASSUME NEW a \in All, NEW k \in below(a)
               PROVE  k \in All
    OBVIOUS
  <2>1. CASE a \in Before
    <3>1. a \in DOMAIN nodes /\ nodes'[a] = nodes[a]
      BY <1>1, <1>3, <2>1
    <3>2. k \in Kids(a)
      BY <3>1 DEF Kids
    <3> QED
      BY <1>3, <2>1, <3>2
  <2>2. CASE a \notin Before
    <3>1. a \in DOMAIN nodes' \ DOMAIN nodes
      BY <1>1, <2>2
    <3>2. \/ k > L
          \/ k \in ToSet(Operands)
          \/ \E o \in ToSet(Operands) \ {0} : nodes[o].kind \in Expr /\ k \in Tree[o]
      BY <3>1 DEF NewKids
    <3>3. k \in DOMAIN nodes'
      <4>1. nodes'[a].kids \in Seq(0 .. a - 1) /\ a \in 1 .. Len(nodes')
        BY <1>1, <3>1 DEF IInv, NodesOK
      <4> DEFINE D == 0 .. a - 1
                 kids == nodes'[a].kids
      <4>2. kids \in Seq(D)
        BY <4>1
      <4> HIDE DEF D, kids
      <4>3. ToSet(kids) \subseteq D
        BY <4>2 DEF ToSet
      <4>4. k \in D /\ k # 0
        BY <4>3 DEF kids
      <4> QED
        BY <1>1, <4>1, <4>4 DEF D
    <3>4. k > L => k \in All
      BY <3>3
    <3>5. k \in ToSet(Operands) => k \in All
      BY <1>4
    <3> QED
      BY <3>2, <3>4, <3>5
  <2> QED
    BY <2>1, <2>2
<1>6. All \subseteq DOMAIN nodes'
  BY <1>1, <1>3
<1>7. \A a \in All : Tree'[a] \subseteq All
  <2>1. (NodesOK => TreesWithin)'
    BY TreeWithin, PTL
  <2> HIDE DEF All
  <2> QED
    BY <1>5, <1>6, <2>1 DEF IInv, Kids, TreesWithin
<1>8. ASSUME NEW n \in DOMAIN nodes' \ DOMAIN nodes, NEW m \in Tree'[n]
      PROVE  m > L \/ m \in Before
  <2>1. n \in All
    BY <1>1
  <2> QED
    BY <1>7, <2>1
<1> QED
  BY <1>8

\* The stack after a rule: what was kept, and the new node.
LEMMA PushedFacts ==
  ASSUME IInv, pc = "parse", text # <<>>, NEW new, RuleDone(new)
  PROVE  /\ Len(Kept) \in Nat /\ DOMAIN stack' = 1 .. Len(Kept) + 1 /\ stack'[Len(Kept) + 1] = new
         /\ DOMAIN stack = 1 .. Len(stack) /\ Len(stack) \in Nat /\ Len(Kept) <= Len(stack)
         /\ \A i \in 1 .. Len(Kept) : stack'[i] = stack[i] /\ i \in DOMAIN stack
         /\ \A o \in ToSet(Operands) : \E p \in DOMAIN stack : p > Len(Kept) /\ stack[p] = o
         /\ \A o \in ToSet(Operands) \ {0} : o \in DOMAIN nodes
         /\ DOMAIN Operands = 1 .. Len(Operands) /\ Len(Operands) \in Nat
         /\ \A i \in DOMAIN Operands : /\ Len(Kept) + i \in DOMAIN stack
                                       /\ stack[Len(Kept) + i] = Operands[i]
<1>1. stack' = Append(Kept, new)
  BY DEF RuleDone, Push, Kept
<1>2. /\ Len(stack) \in Nat /\ Rule.n \in 0 .. Len(stack)
      /\ Operands \in Seq(0 .. Len(nodes)) /\ Len(Operands) = Rule.n
      /\ \A j \in 1 .. Rule.n : Operands[j] = stack[Len(stack) - Rule.n + j]
      /\ Kept \in Seq(0 .. Len(nodes)) /\ Len(Kept) = Len(stack) - Rule.n
      /\ \A i \in 1 .. Len(Kept) : Kept[i] = stack[i]
  BY PoppedFacts DEF IInv
<1>3. DOMAIN stack = 1 .. Len(stack)
  BY StackFacts DEF IInv
<1>4. Len(stack') = Len(Kept) + 1 /\ DOMAIN stack' = 1 .. Len(stack') /\ stack'[Len(Kept) + 1] = new
      /\ \A i \in 1 .. Len(Kept) : stack'[i] = Kept[i]
  <2> DEFINE E == 0 .. Len(nodes) \cup {new}
             D == 0 .. Len(nodes)
  <2>1. Kept \in Seq(D) /\ D \subseteq E /\ new \in E
    BY <1>2
  <2> HIDE DEF E, D
  <2>2. Kept \in Seq(E)
    BY <2>1
  <2> QED
    BY <1>1, <2>1, <2>2
<1>5. \A i \in 1 .. Len(Kept) : i \in DOMAIN stack
  BY <1>2, <1>3
<1>6. DOMAIN Operands = 1 .. Rule.n /\ \A i \in DOMAIN Operands : Operands[i] \in 0 .. Len(nodes)
  <2> DEFINE D == 0 .. Len(nodes)
  <2>1. Operands \in Seq(D)
    BY <1>2
  <2> HIDE DEF D
  <2>2. DOMAIN Operands = 1 .. Len(Operands) /\ \A i \in DOMAIN Operands : Operands[i] \in D
    BY <2>1
  <2> QED
    BY <1>2, <2>2 DEF D
<1>7. ASSUME NEW i \in DOMAIN Operands
      PROVE  /\ Len(Kept) + i \in DOMAIN stack /\ stack[Len(Kept) + i] = Operands[i]
             /\ Len(Kept) + i > Len(Kept)
  <2>1. Len(Kept) + i \in 1 .. Len(stack) /\ Len(Kept) + i > Len(Kept) /\ i \in 1 .. Rule.n
    BY <1>2, <1>6
  <2>2. Len(stack) - Rule.n + i = Len(Kept) + i
    BY <1>2
  <2> QED
    BY <1>2, <1>3, <2>1, <2>2
<1>8. \A o \in ToSet(Operands) : \E p \in DOMAIN stack : p > Len(Kept) /\ stack[p] = o
  BY <1>7 DEF ToSet
<1>9. \A o \in ToSet(Operands) \ {0} : o \in DOMAIN nodes
  <2>1. DOMAIN nodes = 1 .. Len(nodes) /\ Len(nodes) \in Nat
    BY KidsBefore DEF IInv
  <2> QED
    BY <1>6, <2>1 DEF ToSet
<1> QED
  BY <1>2, <1>3, <1>4, <1>5, <1>6, <1>7, <1>8, <1>9

\* A rule keeps the trees apart and in order.
LEMMA ParsedTrees ==
  ASSUME IInv, KindsOK, TreesOK, pc = "parse", text # <<>>, NEW new, RuleDone(new),
         IInv', KindsOK', NewKids(new)
  PROVE  TreesOK'
<1> DEFINE L == Len(nodes)
           K == Len(Kept)
           below(n) == ToSet(nodes'[n].kids) \ {0}
           New == DOMAIN nodes' \ DOMAIN nodes
<1>0. /\ pc' = "parse" /\ prog' = prog /\ Args' = Args
      /\ \A n \in DOMAIN nodes : n \in DOMAIN nodes' /\ nodes'[n] = nodes[n]
  <2>1. /\ pc' = "parse" /\ prog' = prog /\ Len(nodes) <= Len(nodes')
        /\ \A n \in DOMAIN nodes : nodes'[n] = nodes[n]
    BY DEF RuleDone
  <2>2. /\ Len(nodes) \in Nat /\ DOMAIN nodes = 1 .. Len(nodes)
        /\ Len(nodes') \in Nat /\ DOMAIN nodes' = 1 .. Len(nodes')
    BY DEF IInv, NodesOK
  <2> QED
    BY <2>1, <2>2 DEF Args
<1>1. /\ L \in Nat /\ DOMAIN nodes = 1 .. L /\ DOMAIN nodes' = 1 .. Len(nodes') /\ Len(nodes') \in Nat
      /\ L <= Len(nodes') /\ Args = 1 .. Len(prog.args) /\ Len(prog.args) \in Nat /\ Len(prog.args) <= L
  BY ProgramsAssumption DEF IInv, NodesOK, RuleDone, Args, WellFormed
<1>2. /\ K \in Nat /\ DOMAIN stack' = 1 .. K + 1 /\ stack'[K + 1] = new
      /\ DOMAIN stack = 1 .. Len(stack) /\ Len(stack) \in Nat /\ K <= Len(stack)
      /\ \A i \in 1 .. K : stack'[i] = stack[i] /\ i \in DOMAIN stack
      /\ \A o \in ToSet(Operands) : \E p \in DOMAIN stack : p > K /\ stack[p] = o
      /\ \A o \in ToSet(Operands) \ {0} : o \in DOMAIN nodes
      /\ DOMAIN Operands = 1 .. Len(Operands) /\ Len(Operands) \in Nat
      /\ \A i \in DOMAIN Operands : K + i \in DOMAIN stack /\ stack[K + i] = Operands[i]
  BY PushedFacts
<1>3. \A j \in DOMAIN stack : stack[j] \in 0 .. L /\ (stack[j] # 0 => stack[j] \in DOMAIN nodes)
  BY StackFacts DEF IInv
<1>4. \A n \in DOMAIN nodes : Tree'[n] = Tree[n]
  BY <1>0, OldTrees DEF IInv
<1>5. \A n \in DOMAIN nodes : below(n) = Kids(n)
  BY <1>0 DEF Kids
<1>6. \A n \in New : \A m \in Tree'[n] :
        m > L \/ \E o \in ToSet(Operands) \ {0} : m \in Tree[o]
  BY NewTrees
<1>7. \A n \in DOMAIN nodes' : below(n) = Kids(n)'
  BY DEF Kids
<1>8. /\ \A j \in DOMAIN stack : stack[j] # 0 =>
           \A m \in Tree[stack[j]] :
             m > Len(prog.args) /\ \A i \in DOMAIN stack : i < j => m > stack[i]
  BY DEF TreesOK, StackOrder
<1>9. ASSUME NEW m, NEW o \in ToSet(Operands) \ {0}, m \in Tree[o]
      PROVE  m \in DOMAIN nodes /\ m > Len(prog.args) /\ \A i \in 1 .. K : m > stack[i]
  <2>1. PICK p \in DOMAIN stack : p > K /\ stack[p] = o
    BY <1>2, <1>9
  <2>2. \A i \in 1 .. K : i < p /\ i \in DOMAIN stack
    BY <1>2, <2>1
  <2>3. o \in DOMAIN nodes /\ o # 0
    BY <1>2, <1>9
  <2>4. m \in DOMAIN nodes
    BY <1>9, <2>3, TreeSub DEF TreesNested, IInv
  <2> QED
    BY <1>8, <1>9, <2>1, <2>2, <2>3, <2>4
<1>10. StackOrder'
  <2> SUFFICES ASSUME NEW j \in DOMAIN stack', stack'[j] # 0, NEW m \in Tree'[stack'[j]]
               PROVE  m > Len(prog.args) /\ \A i \in DOMAIN stack' : i < j => m > stack'[i]
    BY <1>0 DEF StackOrder
  <2>1. CASE j \in 1 .. K
    <3>1. stack'[j] = stack[j] /\ j \in DOMAIN stack /\ stack[j] \in DOMAIN nodes /\ m \in Tree[stack[j]]
      BY <1>2, <1>3, <1>4, <2>1
    <3>2. \A i \in DOMAIN stack' : i < j => i \in 1 .. K
      BY <1>2, <2>1
    <3> QED
      BY <1>2, <1>8, <3>1, <3>2
  <2>2. CASE j = K + 1
    <3>1. stack'[j] = new /\ \A i \in DOMAIN stack' : i < j => i \in 1 .. K
      BY <1>2, <2>2
    <3>2. new \in New
      BY <1>1, <3>1 DEF NewKids
    <3>3. CASE m > L
      <4>1. \A i \in 1 .. K : stack[i] \in 0 .. L
        BY <1>2, <1>3
      <4>2. m \in Nat
        <5>1. (NodesOK => TreesNested)'
          BY TreeSub, PTL
        <5>2. m \in DOMAIN nodes'
          BY <3>1, <3>2, <5>1 DEF IInv, TreesNested
        <5> QED
          BY <1>1, <5>2
      <4> QED
        BY <1>1, <1>2, <3>1, <3>3, <4>1, <4>2
    <3>4. CASE \E o \in ToSet(Operands) \ {0} : m \in Tree[o]
      BY <1>2, <1>9, <3>1, <3>4
    <3> QED
      BY <1>6, <3>1, <3>2, <3>3, <3>4
  <2>3. j \in 1 .. K \/ j = K + 1
    BY <1>2
  <2> QED
    BY <2>1, <2>2, <2>3
<1>11. KidsOrder'
  <2> SUFFICES ASSUME NEW n \in DOMAIN nodes', nodes'[n].kind \in Blocks,
                      NEW i \in DOMAIN nodes'[n].kids, NEW j \in DOMAIN nodes'[n].kids,
                      i < j, nodes'[n].kids[j] # 0, NEW m \in Tree'[nodes'[n].kids[j]]
               PROVE  m > nodes'[n].kids[i]
    BY DEF KidsOrder
  <2>1. CASE n \in DOMAIN nodes
    <3>1. nodes'[n] = nodes[n]
      BY <1>0, <2>1
    <3>2. nodes[n].kids[j] \in DOMAIN nodes
      <4>1. nodes[n].kids[j] \in 0 .. n - 1
        BY <2>1, <3>1, KidsFacts DEF IInv
      <4> QED
        BY <1>1, <2>1, <3>1, <4>1
    <3> QED
      BY <1>4, <2>1, <3>1, <3>2 DEF TreesOK, KidsOrder
  <2>2. CASE n \notin DOMAIN nodes
    <3>1. nodes'[n].kids = Operands
      BY <2>2 DEF NewKids
    <3>2. Operands[j] \in ToSet(Operands) \ {0} /\ i \in DOMAIN Operands /\ j \in DOMAIN Operands
      BY <3>1 DEF ToSet
    <3>3. K + i < K + j
      BY <1>2, <3>2
    <3>4. Operands[j] \in DOMAIN nodes /\ m \in Tree[Operands[j]]
      BY <1>2, <1>4, <3>1, <3>2
    <3>5. /\ K + i \in DOMAIN stack /\ K + j \in DOMAIN stack
          /\ stack[K + i] = Operands[i] /\ stack[K + j] = Operands[j]
      BY <1>2, <3>2
    <3> QED
      BY <1>8, <3>1, <3>2, <3>3, <3>4, <3>5
  <2> QED
    BY <2>1, <2>2
<1>12. TreesNested'
  <2>1. (NodesOK => TreesNested)'
    BY TreeSub, PTL
  <2> QED
    BY <2>1 DEF IInv
<1>13. \A n \in DOMAIN nodes' :
         n \in Args \/ \E j \in DOMAIN stack' : stack'[j] # 0 /\ n \in Tree'[stack'[j]]
  <2>1. (NodesOK /\ ParseOK /\ KindsOK /\ pc = "parse" =>
           \A n \in DOMAIN nodes : n \in Args \/ \E j \in DOMAIN stack : stack[j] # 0 /\ n \in Tree[stack[j]])'
    BY StackAbove, PTL
  <2> QED
    BY <1>0, <2>1 DEF IInv
<1>14. \A i, j \in DOMAIN stack' :
         stack'[i] # 0 /\ stack'[j] # 0 /\ Tree'[stack'[i]] \cap Tree'[stack'[j]] # {} => i = j
  <2>1. (NodesOK /\ ParseOK /\ StackOrder /\ pc = "parse" =>
           \A i, j \in DOMAIN stack :
             stack[i] # 0 /\ stack[j] # 0 /\ Tree[stack[i]] \cap Tree[stack[j]] # {} => i = j)'
    BY StackApart, PTL
  <2> QED
    BY <1>0, <1>10, <2>1 DEF IInv
<1>15. \A a \in Args : below(a) = {} /\ Tree[a] = {a} /\ a \in DOMAIN nodes
  BY <1>5, ArgsAlone DEF IInv
<1>16. /\ \A n \in DOMAIN nodes : n \in Tree[n] /\ \A m \in Tree[n] : m \in DOMAIN nodes /\ m <= n /\ Tree[m] \subseteq Tree[n]
       /\ \A n \in DOMAIN nodes' : n \in Tree'[n] /\ \A m \in Tree'[n] : m \in DOMAIN nodes' /\ m <= n
                                                                     /\ below(m) \subseteq Tree'[n]
  BY <1>7, <1>12, TreeSub DEF IInv, TreesNested
<1>17. \A n \in DOMAIN nodes : n \in Args \/ \E j \in DOMAIN stack : stack[j] # 0 /\ n \in Tree[stack[j]]
  BY StackAbove DEF IInv
<1>18. \A i, j \in DOMAIN stack :
         stack[i] # 0 /\ stack[j] # 0 /\ Tree[stack[i]] \cap Tree[stack[j]] # {} => i = j
  BY StackApart DEF IInv, TreesOK
<1>19. \A n \in DOMAIN nodes : nodes[n].kind \in Expr => \A m \in Tree[n] : nodes[m].kind \in Expr
  BY ExprTree DEF IInv
<1>20. \A n \in New : /\ n = new \/ nodes'[n].kind \in Expr
                      /\ nodes'[n].kind # "function"
                      /\ \A k \in below(n) :
                           \/ k > L
                           \/ k \in ToSet(Operands)
                           \/ \E o \in ToSet(Operands) \ {0} : nodes[o].kind \in Expr /\ k \in Tree[o]
  BY DEF NewKids
<1>25. \A n \in DOMAIN nodes' : nodes'[n].kind \in Expr => \A m \in Tree'[n] : nodes'[m].kind \in Expr
  <2>1. (NodesOK /\ KindsOK =>
           \A n \in DOMAIN nodes : nodes[n].kind \in Expr => \A m \in Tree[n] : nodes[m].kind \in Expr)'
    BY ExprTree, PTL
  <2> QED
    BY <2>1 DEF IInv
<1> HIDE DEF below, L, K, New
<1>21. ASSUME NEW s \in DOMAIN nodes', nodes'[s].kind \in Placed, NEW n \in DOMAIN nodes',
              NEW k \in below(n), k \in Tree'[s]
       PROVE  n \in Tree'[s] \/ k = s
  <2>1. CASE s \in DOMAIN nodes /\ n \in DOMAIN nodes
    <3>1. k \in Kids(n) \cap Tree[s] /\ nodes[s].kind \in Placed
      BY <1>0, <1>4, <1>5, <1>21, <2>1
    <3> QED
      BY <1>4, <2>1, <3>1 DEF TreesOK, OwnTree
  <2>2. CASE s \in DOMAIN nodes /\ n \notin DOMAIN nodes
    <3>1. k \in Tree[s] /\ k <= s /\ k \in DOMAIN nodes /\ s \in Tree[s] /\ nodes[s].kind \in Placed
      BY <1>0, <1>4, <1>16, <1>21, <2>2
    <3>2. k # 0 /\ ~ (k > L) /\ k \in Nat /\ s \in Nat
      BY <1>1, <2>2, <3>1 DEF L
    <3>3. CASE s \in Args
      BY <1>15, <3>1, <3>3
    <3>4. CASE s \notin Args
      <4>1. PICK q \in DOMAIN stack : stack[q] # 0 /\ s \in Tree[stack[q]]
        BY <1>17, <2>2, <3>4
      <4>2. stack[q] \in DOMAIN nodes
        BY <1>3, <4>1
      <4>3. k \in Tree[stack[q]]
        BY <1>16, <3>1, <4>1, <4>2
      <4>4. PICK o \in ToSet(Operands) \ {0} : k \in Tree[o] /\ (k = o \/ nodes[o].kind \in Expr)
        <5>1. \/ k \in ToSet(Operands)
              \/ \E o \in ToSet(Operands) \ {0} : nodes[o].kind \in Expr /\ k \in Tree[o]
          BY <1>20, <1>21, <2>2, <3>2 DEF New
        <5>2. k \in Tree[k]
          BY <1>16, <3>1
        <5> QED
          BY <3>2, <5>1, <5>2
      <4>5. PICK p \in DOMAIN stack : stack[p] = o
        BY <1>2
      <4>6. p = q
        BY <1>18, <4>1, <4>3, <4>4, <4>5
      <4>7. s \in Tree[o] /\ o \in DOMAIN nodes
        BY <1>2, <4>1, <4>5, <4>6
      <4>8. nodes[o].kind \notin Expr
        <5>1. nodes[s].kind \notin Expr
          BY <3>1 DEF Placed, Stmts, Expr
        <5> QED
          BY <1>19, <4>7, <5>1
      <4>9. s <= k
        BY <1>16, <4>4, <4>7, <4>8
      <4> QED
        BY <3>1, <3>2, <4>9
    <3> QED
      BY <3>3, <3>4
  <2>3. CASE s \notin DOMAIN nodes
    <3>1. s = new /\ s # 0
      <4>1. s = new
        BY <1>20, <1>21, <2>3 DEF Placed, Stmts, Expr, New
      <4> QED
        BY <1>1, <4>1
    <3>2. n \notin Args
      BY <1>15, <1>21
    <3>3. PICK j \in DOMAIN stack' : stack'[j] # 0 /\ n \in Tree'[stack'[j]]
      BY <1>13, <3>2
    <3>4. stack'[j] \in DOMAIN nodes'
      <4>1. CASE j = K + 1
        BY <1>2, <1>21, <3>1, <4>1 DEF K
      <4>2. CASE j \in 1 .. K
        BY <1>0, <1>2, <1>3, <3>3, <4>2 DEF K
      <4> QED
        BY <1>2, <4>1, <4>2 DEF K
    <3>5. k \in Tree'[stack'[j]]
      BY <1>16, <1>21, <3>3, <3>4
    <3>6. K + 1 \in DOMAIN stack' /\ stack'[K + 1] = s
      BY <1>2, <3>1 DEF K
    <3>7. j = K + 1
      BY <1>14, <1>21, <3>1, <3>3, <3>5, <3>6
    <3> QED
      BY <3>3, <3>6, <3>7
  <2> QED
    BY <2>1, <2>2, <2>3
<1>22. ASSUME NEW s \in DOMAIN nodes', nodes'[s].kind \in Placed,
              NEW m \in DOMAIN nodes', NEW n \in DOMAIN nodes', s \in below(m), s \in below(n)
       PROVE  m = n
  <2>1. ASSUME NEW a \in DOMAIN nodes, NEW b \in DOMAIN nodes', b \notin DOMAIN nodes,
               s \in below(a), s \in below(b)
        PROVE  FALSE
    <3>1. s \in Kids(a) /\ s \in DOMAIN nodes
      <4>1. s \in Kids(a)
        BY <1>5, <2>1
      <4> QED
        BY <4>1, <1>16, KidKinds DEF IInv
    <3>2. s # 0 /\ ~ (s > L) /\ nodes[s].kind \in Placed
      BY <1>0, <1>1, <1>22, <3>1 DEF L
    <3>3. PICK o \in ToSet(Operands) \ {0} : s \in Tree[o] /\ (s = o \/ nodes[o].kind \in Expr)
      <4>1. \/ s \in ToSet(Operands)
            \/ \E o \in ToSet(Operands) \ {0} : nodes[o].kind \in Expr /\ s \in Tree[o]
        BY <1>20, <2>1, <3>2 DEF New
      <4>2. s \in Tree[s]
        BY <1>16, <3>1
      <4> QED
        BY <3>2, <4>1, <4>2
    <3>4. s = o
      <4>1. nodes[s].kind \notin Expr /\ o \in DOMAIN nodes
        BY <1>2, <3>2 DEF Placed, Stmts, Expr
      <4> QED
        BY <1>19, <3>3, <4>1
    <3>5. PICK p \in DOMAIN stack : stack[p] = s
      BY <1>2, <3>4
    <3>6. ~ HasParent(s)
      BY <3>2, <3>5, NoParentYet DEF IInv, TreesOK
    <3> QED
      BY <2>1, <3>1, <3>6 DEF HasParent
  <2>2. ASSUME NEW b \in DOMAIN nodes', b \notin DOMAIN nodes, s \in below(b)
        PROVE  b = new
    <3>1. b = new \/ nodes'[b].kind \in Expr
      BY <1>20, <2>2 DEF New
    <3>2. ASSUME nodes'[b].kind \in Expr
          PROVE  FALSE
      <4>1. b \in Tree'[b] /\ s \in Tree'[b]
        BY <1>16, <2>2
      <4>3. nodes'[s].kind \in Expr
        BY <1>25, <3>2, <4>1
      <4> QED
        BY <1>22, <4>3 DEF Placed, Stmts, Expr
    <3> QED
      BY <3>1, <3>2
  <2>3. CASE m \in DOMAIN nodes /\ n \in DOMAIN nodes
    <3>1. s \in Kids(m) \cap Kids(n)
      BY <1>5, <1>22, <2>3
    <3>2. s \in DOMAIN nodes
      BY <2>3, <3>1, KidKinds DEF IInv
    <3> QED
      BY <1>0, <1>22, <2>3, <3>1, <3>2 DEF TreesOK, OwnTree
  <2> QED
    BY <1>22, <2>1, <2>2, <2>3
<1>23. OwnTree'
  BY <1>7, <1>21, <1>22 DEF OwnTree
<1>24. RootKids'
  <2>1. \A n \in DOMAIN nodes' : nodes'[n].kind # "function"
    BY <1>0, <1>20 DEF TreesOK, RootKids, New
  <2>2. ASSUME NEW n \in DOMAIN nodes', NEW a \in Args, a \in below(n)
        PROVE  FALSE
    <3>1. CASE n \in DOMAIN nodes
      BY <1>0, <1>5, <2>1, <2>2, <3>1 DEF TreesOK, RootKids
    <3>2. CASE n \notin DOMAIN nodes
      <4>1. a # 0 /\ ~ (a > L)
        BY <1>1 DEF L
      <4>2. \/ a \in ToSet(Operands)
            \/ \E o \in ToSet(Operands) \ {0} : a \in Tree[o]
        BY <1>20, <2>2, <3>2, <4>1 DEF New
      <4>3. PICK o \in ToSet(Operands) \ {0} : a \in Tree[o]
        BY <1>15, <4>1, <4>2
      <4>4. a > Len(prog.args)
        BY <1>9, <4>3
      <4> QED
        BY <1>1, <4>4
    <3> QED
      BY <3>1, <3>2
  <2>3. \A a \in Args : nodes'[a].name = prog.args[a].name
    BY <1>0, <1>15 DEF TreesOK, RootKids
  <2> QED
    BY <1>0, <1>7, <2>1, <2>2, <2>3 DEF RootKids
<1> QED
  BY <1>10, <1>11, <1>23, <1>24 DEF TreesOK

\* What is copied is below the node.
LEMMA CopiesInTree ==
  ASSUME NodesOK, NEW n \in DOMAIN nodes
  PROVE  Copies[n] \subseteq Tree[n]
<1> DEFINE S == {i \in Nat : i \in DOMAIN nodes => Copies[i] \subseteq Tree[i]}
<1>1. /\ Len(nodes) \in Nat /\ DOMAIN nodes = 1 .. Len(nodes)
      /\ \A i \in DOMAIN nodes : Kids(i) \subseteq 1 .. i - 1
  BY KidsBefore
<1>2. \A i \in DOMAIN nodes : Copies[i] = CopiesStep(Copies, i)
  BY CopiesDef
<1>3. ASSUME NEW i \in Nat, \A k \in Nat : k < i => k \in S
      PROVE  i \in S
  <2> SUFFICES ASSUME i \in DOMAIN nodes
               PROVE  Copies[i] \subseteq Tree[i]
    OBVIOUS
  <2>1. \A k \in Kids(i) : k \in Nat /\ k < i /\ k \in DOMAIN nodes
    BY <1>1
  <2>2. \A k \in Kids(i) : Copies[k] \subseteq Tree[k]
    BY <1>3, <2>1
  <2>3. Tree[i] = {i} \cup UNION {Tree[k] : k \in Kids(i)}
    BY TreeDef
  <2>4. Copies[i] = CopiesStep(Copies, i)
    BY <1>2
  <2>5. CopiesStep(Copies, i) \subseteq {i} \cup UNION {Copies[k] : k \in Kids(i)}
    BY DEF CopiesStep
  <2> QED
    BY <2>2, <2>3, <2>4, <2>5
<1>4. \A i \in Nat : i \in S
  <2> HIDE DEF S
  <2> QED
    BY <1>3, StrongInduction
<1> QED
  BY <1>1, <1>4

LEMMA LeaveOutTrees ==
  ASSUME IInv, KindsOK, TreesOK, LeaveOut, IInv', KindsOK'
  PROVE  TreesOK'
<1>1. pc = "parse" /\ text # <<>> /\ nodes' = nodes
  BY DEF LeaveOut, Parsing
<1>2. RuleDone(0)
  BY LeaveOutOK
<1>3. NewKids(0)
  BY <1>1 DEF NewKids
<1> QED
  BY <1>1, <1>2, <1>3, ParsedTrees

LEMMA ConstructTrees ==
  ASSUME IInv, KindsOK, TreesOK, Construct, IInv', KindsOK'
  PROVE  TreesOK'
<1> DEFINE L == Len(nodes)
           node == Node(Rule.do, Rule.name, Rule.type, Operands)
<1>1. /\ pc = "parse" /\ text # <<>> /\ Rule.do \in Plain /\ nodes' = Append(nodes, node)
  BY DEF Construct, Parsing
<1>2. RuleDone(L + 1) /\ Len(nodes') = L + 1
  BY ConstructOK
<1>3. L \in Nat /\ DOMAIN nodes = 1 .. L /\ DOMAIN nodes' = 1 .. Len(nodes')
  BY <1>2, KidsBefore DEF IInv, NodesOK
<1>4. nodes'[L + 1] = node
  <2>1. PICK T : nodes \in Seq(T)
    BY DEF IInv, NodesOK
  <2> HIDE DEF node
  <2> QED
    BY <1>1, <2>1
<1>5. node.kind = Rule.do /\ node.kids = Operands
  BY DEF Node
<1> HIDE DEF node
<1>6. \A n \in DOMAIN nodes' \ DOMAIN nodes : n = L + 1
  BY <1>2, <1>3
<1>7. Rule.do # "function"
  BY <1>1 DEF Plain
<1>8. L + 1 = Len(nodes') /\ L + 1 > L
  BY <1>2, <1>3
<1> HIDE DEF L
<1>9. NewKids(L + 1)
  BY <1>4, <1>5, <1>6, <1>7, <1>8 DEF NewKids, L
<1> QED
  BY <1>1, <1>2, <1>9, ParsedTrees DEF L

LEMMA ConstructLookupTrees ==
  ASSUME IInv, KindsOK, TreesOK, ConstructLookup, IInv', KindsOK'
  PROVE  TreesOK'
<1> DEFINE L == Len(nodes)
           kids == <<L + 1>> \o Operands
           ident == Node("ident", Rule.name, <<>>, <<>>)
           node == Node(Rule.do, Rule.type[1], <<>>, kids)
           more == <<ident, node>>
<1>1. /\ pc = "parse" /\ text # <<>> /\ Rule.do \in {"lookup", "prop"} /\ nodes' = nodes \o more
  BY DEF ConstructLookup, Parsing
<1>2. RuleDone(L + 2) /\ NodesOK' /\ Len(nodes') = L + 2
  BY ConstructLookupOK DEF IInv
<1>3. L \in Nat /\ DOMAIN nodes = 1 .. L /\ DOMAIN nodes' = 1 .. Len(nodes')
  BY <1>2, KidsBefore DEF IInv, NodesOK
<1>4. nodes'[L + 1] = ident /\ nodes'[L + 2] = node /\ \A n \in DOMAIN nodes : nodes'[n] = nodes[n]
  <2>1. PICK T : nodes \in Seq(T)
    BY DEF IInv, NodesOK
  <2> DEFINE U == T \cup {ident, node}
  <2> HIDE DEF node, ident
  <2>2. nodes \in Seq(U) /\ more \in Seq(U) /\ Len(more) = 2 /\ more[1] = ident /\ more[2] = node
    BY <2>1
  <2> HIDE DEF U, more
  <2> QED
    BY <1>1, <1>3, <2>2, PairAtEnd
<1>5. node.kind = Rule.do /\ node.kids = kids /\ ident.kind = "ident" /\ ident.kids = <<>>
  BY DEF Node
<1>6. ToSet(kids) \subseteq {L + 1} \cup ToSet(Operands)
  <2> DEFINE D == 0 .. L + 1
             ops == Operands
             one == <<L + 1>>
  <2>1. ops \in Seq(0 .. L)
    BY <1>1, PoppedFacts DEF IInv
  <2>2. ops \in Seq(D) /\ one \in Seq(D)
    BY <1>3, <2>1
  <2>3. ToSet(one) = {L + 1} /\ kids = one \o ops
    BY DEF ToSet
  <2> HIDE DEF D, ops, one, kids
  <2>4. ToSet(kids) = ToSet(one) \cup ToSet(ops)
    BY <2>2, <2>3, ConcatElements
  <2> QED
    BY <2>3, <2>4 DEF ops
<1> HIDE DEF node, ident, kids
<1>7. \A n \in DOMAIN nodes' \ DOMAIN nodes : n = L + 1 \/ n = L + 2
  BY <1>2, <1>3
<1>8. L + 2 = Len(nodes') /\ L + 2 > L /\ L + 1 > L
  BY <1>2, <1>3
<1> HIDE DEF L
<1>9. ASSUME NEW n \in DOMAIN nodes' \ DOMAIN nodes
      PROVE  /\ nodes'[n].kind \in Expr
             /\ \A k \in ToSet(nodes'[n].kids) \ {0} : k > L \/ k \in ToSet(Operands)
  <2>1. ToSet(<<>>) = {}
    BY DEF ToSet
  <2>2. CASE n = L + 1
    BY <1>4, <1>5, <2>1, <2>2 DEF Expr
  <2>3. CASE n = L + 2
    BY <1>1, <1>4, <1>5, <1>6, <1>8, <2>3 DEF Expr
  <2> QED
    BY <1>7, <2>2, <2>3
<1>10. NewKids(L + 2)
  <2>1. \A x \in Expr : x # "function" /\ x \notin Blocks
    BY DEF Expr, Blocks
  <2> QED
    BY <1>8, <1>9, <2>1 DEF NewKids, L
<1> QED
  BY <1>1, <1>2, <1>10, ParsedTrees DEF L

LEMMA ConstructCompoundTrees ==
  ASSUME IInv, KindsOK, TreesOK, ConstructCompound, IInv', KindsOK'
  PROVE  TreesOK'
<1> DEFINE L == Len(nodes)
           copy == Copy(Lhs)
           c == Len(copy)
           size == Size
           sum == <<CopiedLhs, Rhs>>
           both == <<Lhs, L + size + 1>>
           const == Node("const", "", <<"int">>, <<>>)
           binop == Node("binop", "+", <<>>, sum)
           asg == Node("asg", "", <<>>, both)
           Part(k) == \/ k > L
                      \/ k \in ToSet(Operands)
                      \/ \E o \in ToSet(Operands) \ {0} : nodes[o].kind \in Expr /\ k \in Tree[o]
<1>1. pc = "parse" /\ text # <<>> /\ Rule.do \in {"op=", "++"}
  BY DEF ConstructCompound, Parsing
<1>2. /\ NodesOK' /\ RuleDone(L + size + 2) /\ Lhs \in DOMAIN nodes /\ Len(nodes') = L + size + 2
  BY ConstructCompoundOK DEF IInv
<1>3. L \in Nat /\ DOMAIN nodes = 1 .. L /\ DOMAIN nodes' = 1 .. Len(nodes')
  BY <1>2, KidsBefore DEF IInv, NodesOK
<1>4. /\ c \in Nat /\ size \in Nat /\ CopiedLhs \in 1 .. L + size /\ Rhs \in 0 .. L + size
      /\ \E T : \E more \in Seq(T) :
           /\ nodes' = nodes \o more /\ Len(more) = size + 2
           /\ \A i \in 1 .. c : more[i] = copy[i]
           /\ Rule.do = "++" => more[size] = const
           /\ more[size + 1] = binop /\ more[size + 2] = asg
  BY CompoundNodes
<1>6. /\ size = c + Ones /\ (Rule.do = "++" => Ones = 1) /\ (Rule.do # "++" => Ones = 0)
      /\ Rule.do = "++" => Rhs = L + size
      /\ Rule.do = "op=" => Rhs = Operands[2]
  BY DEF Size, Ones, Rhs
<1>7. CopiedLhs = Lhs \/ (c # 0 /\ CopiedLhs = L + c)
  <2>1. \E T : copy \in Seq(T)
    BY <1>2, CopyFacts DEF IInv
  <2>2. CopiedLhs = IF copy = <<>> THEN Lhs ELSE L + Len(copy)
    BY DEF CopiedLhs
  <2> HIDE DEF copy, L
  <2>3. copy = <<>> <=> Len(copy) = 0
    BY <2>1
  <2> QED
    BY <2>2, <2>3
<1>8. /\ binop.kind = "binop" /\ binop.kids = sum
      /\ asg.kind = "asg" /\ asg.kids = both
      /\ const.kind = "const" /\ const.kids = <<>>
  <2> HIDE DEF sum, both
  <2> QED
    BY DEF Node
<1>5. /\ Operands \in Seq(0 .. L) /\ Len(Operands) = Rule.n
      /\ (Rule.do = "op=" => Rule.n = 2) /\ (Rule.do = "++" => Rule.n = 1)
  BY <1>1, PoppedFacts DEF IInv
<1>14. Lhs \in ToSet(Operands) \ {0} /\ (Rule.do = "op=" => Operands[2] \in ToSet(Operands))
  <2> DEFINE D == 0 .. L
             ops == Operands
  <2>1. ops \in Seq(D) /\ (Len(ops) = 2 \/ Len(ops) = 1) /\ (Rule.do = "op=" => Len(ops) = 2)
    BY <1>1, <1>5
  <2> HIDE DEF D, ops
  <2>2. 1 \in DOMAIN ops /\ (Rule.do = "op=" => 2 \in DOMAIN ops)
    BY <2>1
  <2>3. ops[1] \in ToSet(ops) /\ (Rule.do = "op=" => ops[2] \in ToSet(ops))
    BY <2>2 DEF ToSet
  <2>4. Lhs # 0
    BY <1>2, <1>3
  <2> QED
    BY <2>3, <2>4 DEF Lhs, ops
<1>15. nodes[Lhs].kind \in Expr /\ \A m \in Tree[Lhs] : nodes[m].kind \in Expr /\ Kids(m) \subseteq Tree[Lhs]
  <2>1. KindIn(nodes, Lhs) \in Lvalue /\ Lhs # 0
    BY <1>2, <1>3, CompoundParts
  <2>2. nodes[Lhs].kind \in Expr
    BY <2>1 DEF KindIn, Lvalue, Expr
  <2> QED
    BY <1>2, <2>2, ExprTree, TreeSub DEF IInv, TreesNested
<1> HIDE DEF L, c, size, sum, both, const, binop, asg
<1>4a. c \in Nat /\ size \in Nat /\ CopiedLhs \in 1 .. L + size /\ Rhs \in 0 .. L + size
  BY <1>4
<1>6a. (Rule.do = "++" => size = c + 1) /\ (Rule.do # "++" => size = c + 0)
  BY <1>6
<1>9. /\ \A i \in 1 .. c : nodes'[L + i] = copy[i]
      /\ Rule.do = "++" => nodes'[L + size] = const
      /\ nodes'[L + size + 1] = binop /\ nodes'[L + size + 2] = asg
  <2>1. PICK T0 : nodes \in Seq(T0)
    BY DEF IInv, NodesOK
  <2>2. PICK T : \E more \in Seq(T) :
           /\ nodes' = nodes \o more /\ Len(more) = size + 2
           /\ \A i \in 1 .. c : more[i] = copy[i]
           /\ Rule.do = "++" => more[size] = const
           /\ more[size + 1] = binop /\ more[size + 2] = asg
    BY <1>4
  <2>3. PICK more \in Seq(T) :
           /\ nodes' = nodes \o more /\ Len(more) = size + 2
           /\ \A i \in 1 .. c : more[i] = copy[i]
           /\ Rule.do = "++" => more[size] = const
           /\ more[size + 1] = binop /\ more[size + 2] = asg
    BY <2>2
  <2>4. \A i \in 1 .. size + 2 : nodes'[L + i] = more[i]
    <3>1. nodes \in Seq(T0 \cup T) /\ more \in Seq(T0 \cup T)
      BY <2>1
    <3> QED
      BY <2>3, <3>1 DEF L
  <2>5. /\ \A i \in 1 .. c : i \in 1 .. size + 2
        /\ Rule.do = "++" => size \in 1 .. size + 2
        /\ size + 1 \in 1 .. size + 2 /\ size + 2 \in 1 .. size + 2
        /\ L + size + 1 = L + (size + 1) /\ L + size + 2 = L + (size + 2)
    BY <1>3, <1>4a, <1>6a
  <2> QED
    BY <2>3, <2>4, <2>5
<1>11. /\ c = Len(Old(Lhs))
       /\ \A i \in 1 .. c : /\ Old(Lhs)[i] \in DOMAIN nodes /\ Old(Lhs)[i] \in Tree[Lhs]
                            /\ copy[i].kind = nodes[Old(Lhs)[i]].kind
                            /\ copy[i].kids = [j \in DOMAIN nodes[Old(Lhs)[i]].kids |->
                                                 NewOf(Lhs, nodes[Old(Lhs)[i]].kids[j])]
  <2>1. c = Len(Old(Lhs))
    BY <1>2, CopyFacts DEF IInv, c
  <2>2. \A i \in 1 .. Len(Old(Lhs)) : Old(Lhs)[i] \in Copies[Lhs]
    BY <1>2, PlaceFacts DEF IInv
  <2> QED
    BY <1>2, <2>1, <2>2, CopyRecords, CopyFacts, CopiesInTree DEF IInv, c
<1>12. ASSUME NEW k, k \in Copies[Lhs] \/ k \in Tree[Lhs]
       PROVE  Part(NewOf(Lhs, k))
  <2>1. CASE k \in Copies[Lhs]
    <3> DEFINE p == Place(Lhs, k)
    <3>1. p \in 1 .. c
      BY <1>2, <1>11, <2>1, PlaceFacts DEF IInv
    <3>2. NewOf(Lhs, k) = L + p
      BY <2>1 DEF NewOf, L
    <3> HIDE DEF p
    <3>3. L + p > L
      BY <1>3, <1>4a, <3>1
    <3> QED
      BY <3>2, <3>3
  <2>2. CASE k \notin Copies[Lhs]
    BY <1>12, <1>14, <1>15, <2>2 DEF NewOf
  <2> QED
    BY <2>1, <2>2
<1>13. ASSUME NEW i \in 1 .. c
       PROVE  copy[i].kind \in Expr /\ \A k \in ToSet(copy[i].kids) \ {0} : Part(k)
  <2> DEFINE o == Old(Lhs)[i]
             kids == nodes[o].kids
  <2>1. o \in DOMAIN nodes /\ nodes[o].kind \in Expr /\ Kids(o) \subseteq Tree[Lhs]
    BY <1>11, <1>15
  <2>2. copy[i].kind = nodes[o].kind /\ copy[i].kids = [j \in DOMAIN kids |-> NewOf(Lhs, kids[j])]
    BY <1>11
  <2> SUFFICES ASSUME NEW k \in ToSet(copy[i].kids) \ {0}
               PROVE  Part(k)
    BY <2>1, <2>2
  <2> HIDE DEF Part, o
  <2>3. PICK j \in DOMAIN kids : k = NewOf(Lhs, kids[j])
    BY <2>2 DEF ToSet
  <2>4. CASE kids[j] # 0
    <3>1. kids[j] \in Kids(o)
      BY <2>4 DEF Kids, ToSet
    <3> QED
      BY <1>12, <2>1, <2>3, <3>1
  <2>5. CASE kids[j] = 0
    <3>1. 0 \notin Copies[Lhs]
      <4>1. Copies[Lhs] \subseteq 1 .. Lhs
        BY <1>2, CopiesFacts DEF IInv
      <4> QED
        BY <4>1
    <3> QED
      BY <2>3, <2>5, <3>1 DEF NewOf
  <2> QED
    BY <2>4, <2>5
<1>16. Part(Lhs) /\ Part(CopiedLhs) /\ Part(Rhs) /\ Part(L + size + 1)
  <2>1. Part(Lhs)
    BY <1>14
  <2>2. Part(L + size + 1)
    BY <1>3, <1>4a
  <2>3. Part(CopiedLhs)
    BY <1>3, <1>4a, <1>7, <2>1
  <2>4. Part(Rhs)
    <3>1. CASE Rule.do = "++"
      BY <1>3, <1>4a, <1>6, <1>6a, <3>1
    <3>2. CASE Rule.do = "op="
      BY <1>6, <1>14, <3>2
    <3> QED
      BY <1>1, <3>1, <3>2
  <2> QED
    BY <2>1, <2>2, <2>3, <2>4
<1>17. ToSet(const.kids) = {} /\ ToSet(binop.kids) = {CopiedLhs, Rhs} /\ ToSet(asg.kids) = {Lhs, L + size + 1}
  BY <1>8 DEF ToSet, sum, both
<1>22. ASSUME NEW n \in DOMAIN nodes' \ DOMAIN nodes
       PROVE  /\ n = L + size + 2 \/ nodes'[n].kind \in Expr
              /\ nodes'[n].kind \in Expr \cup {"asg"}
              /\ \A k \in ToSet(nodes'[n].kids) \ {0} : Part(k)
  <2> DEFINE i == n - L
  <2>1. /\ n = L + i
        /\ i \in 1 .. c \/ (Rule.do = "++" /\ i = size) \/ i = size + 1 \/ i = size + 2
    <3>1. i \in 1 .. size + 2 /\ n = L + i
      BY <1>2, <1>3, <1>4a
    <3> QED
      BY <1>4a, <1>6a, <3>1
  <2> HIDE DEF i, Part
  <2>2. L + (size + 1) = L + size + 1 /\ L + (size + 2) = L + size + 2
    BY <1>3, <1>4
  <2>3. CASE i \in 1 .. c
    BY <1>9, <1>13, <2>1, <2>3
  <2>4. CASE Rule.do = "++" /\ i = size
    BY <1>8, <1>9, <1>17, <2>1, <2>4 DEF Expr
  <2>5. CASE i = size + 1
    BY <1>8, <1>9, <1>16, <1>17, <2>1, <2>2, <2>5 DEF Expr
  <2>6. CASE i = size + 2
    BY <1>8, <1>9, <1>16, <1>17, <2>1, <2>2, <2>6
  <2> QED
    BY <2>1, <2>3, <2>4, <2>5, <2>6
<1>23. NewKids(L + size + 2)
  <2>1. \A x \in Expr \cup {"asg"} : x # "function" /\ x \notin Blocks
    BY DEF Expr, Blocks
  <2>2. L + size + 2 = Len(nodes') /\ L + size + 2 > L
    BY <1>2, <1>3, <1>4a DEF size, L
  <2> QED
    BY <1>22, <2>1, <2>2 DEF NewKids, L
<1> QED
  BY <1>1, <1>2, <1>23, ParsedTrees DEF L, size

\* The function takes the body and the inputs, which had no parent.
LEMMA ConstructFunctionTrees ==
  ASSUME IInv, KindsOK, TreesOK, ConstructFunction
  PROVE  TreesOK'
<1> DEFINE L == Len(nodes)
           args == [i \in Args |-> i]
           kids == <<stack[1]>> \o args
           below(n) == ToSet(nodes'[n].kids) \ {0}
<1>1. pc = "parse" /\ text = <<>> /\ pc' = "type" /\ prog' = prog /\ Args' = Args
  BY DEF ConstructFunction, Args
<1>2. /\ IInv' /\ Len(nodes') = L + 1 /\ nodes'[L + 1].kids = kids
      /\ \A n \in DOMAIN nodes : nodes'[n] = nodes[n]
  BY ConstructFunctionOK
<1>3. /\ KindsOK' /\ stack[1] \in DOMAIN nodes /\ nodes[stack[1]].kind = "body"
      /\ nodes'[L + 1].kind = "function" /\ Kids(Root)' = {stack[1]} \cup Args
  BY ConstructFunctionKinds
<1>4. /\ L \in Nat /\ DOMAIN nodes = 1 .. L /\ DOMAIN nodes' = 1 .. L + 1 /\ Root' = L + 1
  BY <1>2, KidsBefore DEF IInv, NodesOK, Root
<1>5. Args = 1 .. Len(prog.args) /\ Len(prog.args) \in Nat /\ Args \subseteq DOMAIN nodes
  BY ArgsFacts DEF IInv
<1>6. Len(kids) \in Nat /\ Len(kids) # 0 /\ kids[1] = stack[1]
  <2>1. stack[1] \in Nat /\ args \in Seq(Nat)
    BY <1>3, <1>4, <1>5
  <2> HIDE DEF args
  <2> QED
    BY <2>1
<1> HIDE DEF kids, L
<1>7. \A n \in DOMAIN nodes : n \in DOMAIN nodes' /\ Tree'[n] = Tree[n]
  <2>1. \A n \in DOMAIN nodes : n \in DOMAIN nodes' /\ nodes'[n] = nodes[n]
    BY <1>2, <1>4
  <2> QED
    BY <1>2, <2>1, OldTrees DEF IInv
<1>8. /\ \A n \in DOMAIN nodes : below(n) = Kids(n) /\ \A k \in below(n) : k \in DOMAIN nodes
      /\ below(L + 1) = {stack[1]} \cup Args
      /\ \A n \in DOMAIN nodes' : below(n) = Kids(n)' /\ (n \in DOMAIN nodes \/ n = L + 1)
  <2>1. \A n \in DOMAIN nodes : below(n) = Kids(n)
    BY <1>2 DEF Kids
  <2>2. \A n \in DOMAIN nodes : \A k \in Kids(n) : k \in DOMAIN nodes
    BY KidKinds DEF IInv
  <2>3. below(L + 1) = {stack[1]} \cup Args
    BY <1>3, <1>4 DEF Kids
  <2>4. \A n \in DOMAIN nodes' : below(n) = Kids(n)'
    BY DEF Kids
  <2>5. \A n \in DOMAIN nodes' : n \in DOMAIN nodes \/ n = L + 1
    BY <1>4
  <2> QED
    BY <2>1, <2>2, <2>3, <2>4, <2>5
<1>9. DOMAIN stack = {1} /\ stack[1] # 0
  <2>1. Len(stack) = 1 /\ DOMAIN stack = 1 .. Len(stack)
    BY <1>1, BodyWaits, StackFacts DEF IInv
  <2>2. \A i : i \in 1 .. 1 <=> i = 1
    OBVIOUS
  <2> QED
    BY <1>3, <1>4, <2>1, <2>2
<1>10. \A m \in Tree[stack[1]] : m \notin Args
  BY <1>1, <1>5, <1>9 DEF TreesOK, StackOrder
<1>11. \A n \in DOMAIN nodes : n \in Args \/ n \in Tree[stack[1]]
  BY <1>1, <1>9, StackAbove DEF IInv
<1>12. \A a \in Args : Tree[a] = {a}
  BY ArgsAlone DEF IInv
<1>13. \A n \in DOMAIN nodes : n \in Tree[n] /\ \A m \in Tree[n] : m \in DOMAIN nodes /\ m <= n /\ Tree[m] \subseteq Tree[n]
  BY TreeSub DEF IInv, TreesNested
<1>14. \A n \in DOMAIN nodes : nodes[n].kind # "function" /\ Kids(n) \cap Args = {}
  BY <1>1 DEF TreesOK, RootKids
<1>15. ~ HasParent(stack[1])
  BY <1>1, <1>9, NoParentYet DEF IInv, TreesOK
<1> HIDE DEF below
<1>16. StackOrder'
  BY <1>1 DEF StackOrder
<1>17. KidsOrder'
  <2> SUFFICES ASSUME NEW n \in DOMAIN nodes', nodes'[n].kind \in Blocks,
                      NEW i \in DOMAIN nodes'[n].kids, NEW j \in DOMAIN nodes'[n].kids,
                      i < j, nodes'[n].kids[j] # 0, NEW m \in Tree'[nodes'[n].kids[j]]
               PROVE  m > nodes'[n].kids[i]
    BY DEF KidsOrder
  <2>1. n \in DOMAIN nodes
    BY <1>3, <1>8 DEF Blocks
  <2>2. nodes'[n] = nodes[n]
    BY <1>2, <2>1
  <2>3. nodes[n].kids[j] \in DOMAIN nodes
    <3>1. nodes[n].kids[j] \in 0 .. n - 1
      BY <2>1, <2>2, KidsFacts DEF IInv
    <3> QED
      BY <1>4, <2>1, <2>2, <3>1
  <2> QED
    BY <1>7, <2>1, <2>2, <2>3 DEF TreesOK, KidsOrder
<1>18. ASSUME NEW s \in DOMAIN nodes', nodes'[s].kind \in Placed
       PROVE  s \in DOMAIN nodes /\ nodes[s].kind \in Placed /\ Tree'[s] = Tree[s]
  BY <1>2, <1>3, <1>7, <1>8, <1>18 DEF Placed, Stmts
<1>19. ASSUME NEW s \in DOMAIN nodes', nodes'[s].kind \in Placed, NEW n \in DOMAIN nodes',
              NEW k \in below(n), k \in Tree'[s]
       PROVE  n \in Tree'[s] \/ k = s
  <2>1. CASE n \in DOMAIN nodes
    BY <1>8, <1>18, <1>19, <2>1 DEF TreesOK, OwnTree
  <2>2. CASE n = L + 1
    <3>1. s \in DOMAIN nodes /\ k \in Tree[s] /\ k \in {stack[1]} \cup Args
      BY <1>8, <1>18, <1>19, <2>2
    <3>2. CASE s \in Args
      BY <1>12, <3>1, <3>2
    <3>3. CASE s \in Tree[stack[1]]
      <4>1. k \in Tree[stack[1]] /\ s <= stack[1] /\ k <= s
        BY <1>3, <1>13, <3>1, <3>3
      <4>2. k = stack[1]
        BY <1>10, <3>1, <4>1
      <4> QED
        BY <1>3, <1>4, <3>1, <4>1, <4>2
    <3> QED
      BY <1>11, <3>1, <3>2, <3>3
  <2> QED
    BY <1>8, <2>1, <2>2
<1>20. ASSUME NEW s \in DOMAIN nodes', nodes'[s].kind \in Placed,
              NEW m \in DOMAIN nodes', NEW n \in DOMAIN nodes', s \in below(m), s \in below(n)
       PROVE  m = n
  <2>1. ASSUME NEW a \in DOMAIN nodes, s \in below(a), s \in below(L + 1)
        PROVE  FALSE
    BY <1>8, <1>14, <1>15, <2>1 DEF HasParent
  <2>2. CASE m \in DOMAIN nodes /\ n \in DOMAIN nodes
    <3>1. s \in Kids(m) \cap Kids(n)
      BY <1>8, <1>20, <2>2
    <3> QED
      BY <1>18, <1>20, <2>2, <3>1 DEF TreesOK, OwnTree
  <2> QED
    BY <1>8, <1>20, <2>1, <2>2
<1>21. OwnTree'
  BY <1>8, <1>19, <1>20 DEF OwnTree
<1>22. RootKids'
  <2>1. \A n \in DOMAIN nodes : nodes'[n].kind # "function"
    BY <1>2, <1>14
  <2>2. nodes'[L + 1].kids # <<>> /\ nodes'[L + 1].kids[1] = stack[1]
    <3>1. kids # <<>>
      BY <1>6
    <3> QED
      BY <1>2, <1>6, <3>1
  <2>3. stack[1] \notin Args /\ stack[1] \in DOMAIN nodes' /\ nodes'[stack[1]].kind = "body"
    BY <1>2, <1>3, <1>7, <1>10, <1>13
  <2>4. \A n \in DOMAIN nodes' : nodes'[n].kind = "function" =>
          /\ pc' # "parse" /\ n = Root' /\ nodes'[n].kids # <<>>
          /\ nodes'[n].kids[1] \in DOMAIN nodes' \ Args /\ nodes'[nodes'[n].kids[1]].kind = "body"
          /\ below(n) = {nodes'[n].kids[1]} \cup Args
    BY <1>1, <1>4, <1>8, <2>1, <2>2, <2>3
  <2>5. \A n \in DOMAIN nodes' : nodes'[n].kind # "function" => below(n) \cap Args = {}
    BY <1>3, <1>8, <1>14
  <2>6. \A a \in Args : nodes'[a].name = prog.args[a].name
    BY <1>2, <1>5 DEF TreesOK, RootKids
  <2> QED
    BY <1>1, <1>8, <2>4, <2>5, <2>6 DEF RootKids
<1> QED
  BY <1>16, <1>17, <1>21, <1>22 DEF TreesOK

LEMMA InitTrees ==
  ASSUME Init
  PROVE  TreesOK
<1>1. /\ stack = <<>> /\ prog \in Programs
      /\ nodes = [i \in DOMAIN prog.args |-> Node("def", prog.args[i].name, prog.args[i].type, <<0>>)]
  BY DEF Init
<1>2. DOMAIN stack = {}
  BY <1>1
<1>3. IInv /\ KindsOK
  BY InitInv, InitKinds
<1>4. DOMAIN nodes = Args
  BY <1>1 DEF Args
<1>5. \A a \in Args : nodes[a].kind = "def" /\ nodes[a].name = prog.args[a].name
  <2>1. \A a \in Args : nodes[a] = Node("def", prog.args[a].name, prog.args[a].type, <<0>>)
    BY <1>1 DEF Args
  <2>2. \A x, y, z, w : Node(x, y, z, w).kind = x /\ Node(x, y, z, w).name = y
    BY DEF Node
  <2> QED
    BY <2>1, <2>2
<1>6. \A a \in Args : Kids(a) = {} /\ Tree[a] = {a}
  BY <1>3, ArgsAlone DEF IInv
<1>7. StackOrder
  BY <1>2 DEF StackOrder
<1>8. KidsOrder
  BY <1>4, <1>5 DEF KidsOrder, Blocks
<1>9. OwnTree
  BY <1>4, <1>6 DEF OwnTree
<1>10. RootKids
  BY <1>4, <1>5, <1>6 DEF RootKids
<1> QED
  BY <1>7, <1>8, <1>9, <1>10 DEF TreesOK

\* The passes and the deletion leave the trees as they are.
LEMMA TreesStay ==
  ASSUME TreesOK, pc # "parse", pc' # "parse", UNCHANGED <<nodes, prog>>
  PROVE  TreesOK'
<1>1. Tree' = Tree /\ Args' = Args /\ Root' = Root /\ \A n : Kids(n)' = Kids(n)
  BY DEF Tree, Kids, Args, Root
<1>2. StackOrder'
  BY DEF StackOrder
<1>3. KidsOrder'
  BY <1>1 DEF KidsOrder, TreesOK
<1>4. OwnTree'
  BY <1>1 DEF OwnTree, TreesOK
<1>5. RootKids'
  BY <1>1 DEF RootKids, TreesOK
<1> QED
  BY <1>2, <1>3, <1>4, <1>5 DEF TreesOK

LEMMA NextTrees ==
  ASSUME IInv, KindsOK, TreesOK, [Next]_vars, IInv', KindsOK'
  PROVE  TreesOK'
<1>1. CASE LeaveOut
  BY <1>1, LeaveOutTrees
<1>2. CASE Construct
  BY <1>2, ConstructTrees
<1>3. CASE ConstructLookup
  BY <1>3, ConstructLookupTrees
<1>4. CASE ConstructCompound
  BY <1>4, ConstructCompoundTrees
<1>5. CASE ConstructFunction
  BY <1>5, ConstructFunctionTrees
<1>6. CASE TypeDef \/ TypeIdent \/ TypeBody \/ TypeOther \/ TypeCheck \/ Eliminate \/ Generate
  <2>1. /\ UNCHANGED <<prog, nodes>> /\ pc # "parse" /\ pc' # "parse"
    BY <1>6, PassOK DEF parsing
  <2> QED
    BY <2>1, TreesStay
<1>7. CASE StartDelete \/ Delete \/ Finish
  <2>1. /\ UNCHANGED <<prog, nodes>> /\ pc # "parse" /\ pc' # "parse"
    BY <1>7 DEF StartDelete, Delete, Finish, parsing
  <2> QED
    BY <2>1, TreesStay
<1>8. CASE UNCHANGED vars
  <2>1. UNCHANGED <<pc, prog, stack, nodes>>
    BY <1>8 DEF vars, parsing
  <2>2. Tree' = Tree /\ Args' = Args /\ Root' = Root
    BY <2>1 DEF Tree, Kids, Args, Root
  <2> QED
    BY <2>1, <2>2 DEF TreesOK, StackOrder, KidsOrder, OwnTree, RootKids, Kids
<1> QED
  BY <1>1, <1>2, <1>3, <1>4, <1>5, <1>6, <1>7, <1>8 DEF Next, Stutter

-----------------------------------------------------------------------------
(* What is visible where.                                                  *)

\* Definition d stands in front of the statement that m is part of.
InFront(d, m) ==
  \E b \in Of("body") : d \in Kids(b) /\ \E s \in Kids(b) : m \in Tree[s] /\ d <= s

\* The same stands in front of a node and of its children, but for the statements
\* of a body.
LEMMA InFrontOfKid ==
  ASSUME NodesOK, KindsOK, TreesOK, NEW n \in DOMAIN nodes, NEW k \in Kids(n), NEW d
  PROVE  InFront(d, k) <=> InFront(d, n) \/ (nodes[n].kind = "body" /\ d \in Kids(n) /\ d <= k)
<1>1. k \in DOMAIN nodes
  BY KidKinds
<1>2. ASSUME InFront(d, k)
      PROVE  InFront(d, n) \/ (nodes[n].kind = "body" /\ d \in Kids(n) /\ d <= k)
  <2>1. PICK b \in Of("body") : d \in Kids(b) /\ \E s \in Kids(b) : k \in Tree[s] /\ d <= s
    BY <1>2 DEF InFront
  <2>2. PICK s \in Kids(b) : k \in Tree[s] /\ d <= s
    BY <2>1
  <2>3. b \in DOMAIN nodes /\ nodes[b].kind = "body"
    BY DEF Of
  <2>4. s \in DOMAIN nodes /\ nodes[s].kind \in Placed
    BY <2>3, KidKinds DEF Placed
  <2>5. n \in Tree[s] \/ k = s
    BY <2>2, <2>4 DEF TreesOK, OwnTree
  <2>6. CASE n \in Tree[s]
    BY <2>1, <2>2, <2>6 DEF InFront
  <2>7. CASE k = s
    <3>1. b = n
      BY <2>3, <2>4, <2>7 DEF TreesOK, OwnTree
    <3> QED
      BY <2>1, <2>2, <2>3, <2>7, <3>1
  <2> QED
    BY <2>5, <2>6, <2>7
<1>3. ASSUME InFront(d, n)
      PROVE  InFront(d, k)
  <2>1. PICK b \in Of("body") : d \in Kids(b) /\ \E s \in Kids(b) : n \in Tree[s] /\ d <= s
    BY <1>3 DEF InFront
  <2>2. PICK s \in Kids(b) : n \in Tree[s] /\ d <= s
    BY <2>1
  <2>3. s \in DOMAIN nodes
    BY KidKinds DEF Of
  <2>4. k \in Tree[s]
    BY <2>2, <2>3, TreeSub DEF TreesNested
  <2> QED
    BY <2>1, <2>2, <2>4 DEF InFront
<1>4. ASSUME nodes[n].kind = "body", d \in Kids(n), d <= k
      PROVE  InFront(d, k)
  <2>1. n \in Of("body") /\ k \in Tree[k]
    BY <1>1, <1>4, TreeSub DEF Of, TreesNested
  <2> QED
    BY <1>4, <2>1 DEF InFront
<1> QED
  BY <1>2, <1>3, <1>4

\* Nothing stands in front of the body of the function.
LEMMA InFrontOfBody ==
  ASSUME NodesOK, KindsOK, TreesOK, nodes # <<>>, nodes[Root].kind = "function", NEW d
  PROVE  ~ InFront(d, nodes[Root].kids[1])
<1> DEFINE body == nodes[Root].kids[1]
<1>1. /\ Len(nodes) \in Nat /\ DOMAIN nodes = 1 .. Len(nodes)
      /\ \A n \in DOMAIN nodes : Kids(n) \subseteq 1 .. n - 1
  BY KidsBefore
<1>2. Root \in DOMAIN nodes
  <2>1. Len(nodes) # 0
    BY DEF NodesOK
  <2> QED
    BY <1>1, <2>1 DEF Root
<1>3. body \in DOMAIN nodes /\ nodes[body].kind = "body" /\ body \in Kids(Root)
  BY <1>2 DEF TreesOK, RootKids
<1> HIDE DEF body
<1> SUFFICES ASSUME InFront(d, body)
             PROVE  FALSE
  BY DEF body
<1>4. PICK b \in Of("body") : \E s \in Kids(b) : body \in Tree[s]
  BY DEF InFront
<1>5. PICK s \in Kids(b) : body \in Tree[s]
  BY <1>4
<1>6. b \in DOMAIN nodes /\ nodes[b].kind = "body"
  BY DEF Of
<1>7. s \in DOMAIN nodes /\ nodes[s].kind \in Stmts
  BY <1>6, KidKinds
<1>8. Root \in Tree[s] \/ body = s
  BY <1>2, <1>3, <1>5, <1>7 DEF TreesOK, OwnTree, Placed
<1>9. Root <= s
  BY <1>3, <1>7, <1>8, TreeSub DEF TreesNested, Stmts
<1>10. s \in 1 .. b - 1 /\ b \in 1 .. Len(nodes)
  BY <1>1, <1>6
<1> QED
  BY <1>1, <1>9, <1>10 DEF Root

-----------------------------------------------------------------------------
(* What is visited next, and with which tables.                            *)

\* The root and the inputs are not visited.
Inner(w) == \A j \in DOMAIN w : w[j].node \in DOMAIN nodes \ (Args \cup {Root}) /\ w[j].in \in Nat
\* Inner tables are left before outer ones.
Outwards(w) == \A i, j \in DOMAIN w : i < j => w[j].in <= w[i].in
\* What is visited later follows in the text.
Forwards(w) ==
  \A i, j \in DOMAIN w :
    i < j /\ nodes[w[i].node].kind \in Placed => \A m \in Tree[w[j].node] : m > w[i].node
\* The definitions of S, which were visited, are behind.
Passed(w, S) ==
  \A d \in Of("def") \cap S, j \in DOMAIN w : \A m \in Of("def") \cap Tree[w[j].node] : d < m
\* The others are visited before the nodes they are visible to.
Awaited(w, S) ==
  \A j \in DOMAIN w, d \in Of("def") :
    InFront(d, w[j].node) /\ d \notin S => \E i \in 1 .. j : w[i].node = d
\* A definition is visible to what is visited with the same table later.
Shared(w) ==
  \A i, j \in DOMAIN w :
    i < j /\ nodes[w[i].node].kind = "def" => (w[j].in = w[i].in <=> InFront(w[i].node, w[j].node))

WorkOrder(w, S) ==
  Inner(w) /\ Outwards(w) /\ Forwards(w) /\ Passed(w, S) /\ Awaited(w, S) /\ Shared(w)

\* The children of n in their order, to be visited with table t.
Below(s, n, t) ==
  /\ \A i \in DOMAIN s : s[i].node \in Kids(n) /\ s[i].in = t
  /\ \A k \in Kids(n) : \E i \in DOMAIN s : s[i].node = k
  /\ \A i, j \in DOMAIN s : i < j =>
       \E a, c \in DOMAIN nodes[n].kids : a < c /\ nodes[n].kids[a] = s[i].node /\ nodes[n].kids[c] = s[j].node

\* A node that is neither the root nor an input has no such children.
LEMMA KidsInside ==
  ASSUME NodesOK, KindsOK, TreesOK, NEW n \in DOMAIN nodes, n # Root, NEW k \in Kids(n)
  PROVE  /\ k \in DOMAIN nodes \ (Args \cup {Root}) /\ k < n /\ Tree[k] \subseteq Tree[n]
         /\ nodes[k].kind \in Placed => nodes[n].kind \in Blocks
         /\ nodes[k].kind = "def" => nodes[n].kind = "body"
<1>1. /\ Len(nodes) \in Nat /\ DOMAIN nodes = 1 .. Len(nodes)
      /\ Kids(n) \subseteq 1 .. n - 1
  BY KidsBefore
<1>2. nodes[n].kind # "function" /\ k \notin Args
  BY DEF TreesOK, RootKids
<1>3. k \in DOMAIN nodes /\ k < n /\ k # Root
  BY <1>1 DEF Root
<1>4. n \in Tree[n] /\ Kids(n) \subseteq Tree[n] /\ \A m \in Tree[n] : Tree[m] \subseteq Tree[n]
  BY TreeSub DEF TreesNested
<1>5. nodes[n].kind \in Flat \cup Blocks
  <2>1. WellShaped(nodes[n], KindsIn(nodes, nodes[n].kids))
    BY DEF KindsOK
  <2> QED
    BY <1>2, <2>1 DEF WellShaped, Flat, Blocks, Stmts, Expr
<1>6. nodes[k].kind \in Placed => nodes[n].kind \in Blocks
  <2>1. nodes[n].kind \in Flat => nodes[k].kind \in Expr
    BY KidKinds
  <2> QED
    BY <1>5, <2>1 DEF Placed, Stmts, Expr
<1>7. nodes[k].kind = "def" => nodes[n].kind = "body"
  <2>1. nodes[n].kind \in {"if", "for"} => nodes[k].kind \in Expr \cup {"precond", "asg", "body"}
    BY KidKinds
  <2>2. nodes[n].kind \in Flat => nodes[k].kind \in Expr
    BY KidKinds
  <2> QED
    BY <1>5, <2>1, <2>2 DEF Blocks, Expr
<1> QED
  BY <1>2, <1>3, <1>4, <1>6, <1>7

\* The children of a node are visited in the order of the text.
LEMMA BelowOrder ==
  ASSUME NodesOK, KindsOK, TreesOK, NEW n \in DOMAIN nodes, n # Root, NEW s, NEW t, Below(s, n, t),
         NEW i \in DOMAIN s, NEW j \in DOMAIN s, i < j, nodes[s[i].node].kind \in Placed
  PROVE  \A m \in Tree[s[j].node] : m > s[i].node
<1>1. PICK a \in DOMAIN nodes[n].kids, c \in DOMAIN nodes[n].kids :
        a < c /\ nodes[n].kids[a] = s[i].node /\ nodes[n].kids[c] = s[j].node
  BY DEF Below
<1>2. s[i].node \in Kids(n) /\ s[j].node \in Kids(n)
  BY DEF Below
<1>3. nodes[n].kind \in Blocks
  BY <1>2, KidsInside
<1>4. s[j].node # 0
  BY <1>2 DEF Kids
<1> QED
  BY <1>1, <1>3, <1>4 DEF TreesOK, KidsOrder

\* A node is replaced by its children, which are visited with its table, or with
\* one of their own when it is a body.
LEMMA WorkStep ==
  ASSUME NodesOK, KindsOK, TreesOK, NEW C, NEW w \in Seq(C), w # <<>>, NEW S, WorkOrder(w, S),
         NEW s \in Seq(C), NEW t \in Nat, Below(s, w[1].node, t),
         IF nodes[w[1].node].kind = "body" THEN t > w[1].in ELSE t = w[1].in,
         NEW S2, S2 \cap Of("def") = (S \cup {w[1].node}) \cap Of("def")
  PROVE  WorkOrder(s \o Tail(w), S2)
<1> DEFINE next == s \o Tail(w)
           n == w[1].node
           B == Len(s)
<1>1. /\ Len(w) \in Nat \ {0} /\ DOMAIN w = 1 .. Len(w) /\ 1 \in DOMAIN w
      /\ B \in Nat /\ DOMAIN s = 1 .. B
      /\ DOMAIN next = 1 .. B + Len(w) - 1
      /\ \A i \in DOMAIN s : next[i] = s[i]
      /\ \A i \in DOMAIN next : i \notin DOMAIN s => i - B + 1 \in DOMAIN w /\ i - B + 1 > 1
                                                     /\ next[i] = w[i - B + 1]
  <2>1. Len(w) \in Nat \ {0} /\ DOMAIN w = 1 .. Len(w) /\ 1 \in DOMAIN w
    OBVIOUS
  <2>2. /\ Tail(w) \in Seq(C) /\ Len(Tail(w)) = Len(w) - 1
        /\ \A i \in 1 .. Len(w) - 1 : Tail(w)[i] = w[i + 1]
    OBVIOUS
  <2> DEFINE r == Tail(w)
  <2>3. B \in Nat /\ DOMAIN s = 1 .. B
    OBVIOUS
  <2> HIDE DEF r
  <2>4. /\ DOMAIN (s \o r) = 1 .. B + Len(r)
        /\ \A i \in 1 .. B : (s \o r)[i] = s[i]
        /\ \A i \in 1 .. B + Len(r) : i > B => (s \o r)[i] = r[i - B]
    BY <2>2, <2>3 DEF r
  <2> HIDE DEF B
  <2>5. /\ DOMAIN next = 1 .. B + Len(w) - 1
        /\ \A i \in DOMAIN s : next[i] = s[i]
    BY <2>1, <2>2, <2>3, <2>4 DEF r
  <2>6. ASSUME NEW i \in DOMAIN next, i \notin DOMAIN s
        PROVE  i - B + 1 \in DOMAIN w /\ i - B + 1 > 1 /\ next[i] = w[i - B + 1]
    <3>1. i > B /\ i - B \in 1 .. Len(w) - 1 /\ i \in 1 .. B + Len(r)
      BY <2>1, <2>2, <2>3, <2>5, <2>6 DEF r
    <3>2. next[i] = r[i - B] /\ r[i - B] = w[i - B + 1]
      BY <2>2, <2>4, <3>1 DEF r
    <3>3. i - B + 1 \in 1 .. Len(w) /\ i - B + 1 > 1
      BY <2>1, <3>1
    <3> QED
      BY <2>1, <3>2, <3>3
  <2> QED
    BY <2>1, <2>3, <2>5, <2>6
<1>2. /\ n \in DOMAIN nodes \ (Args \cup {Root}) /\ n # Root /\ w[1].in \in Nat
  BY <1>1 DEF WorkOrder, Inner
<1>3. /\ \A i \in DOMAIN s : s[i].node \in Kids(n) /\ s[i].in = t
      /\ \A k \in Kids(n) : \E i \in DOMAIN s : s[i].node = k
  BY DEF Below
<1>4. /\ t >= w[1].in /\ (nodes[n].kind = "body" => t > w[1].in)
      /\ (nodes[n].kind # "body" => t = w[1].in)
  BY <1>2
<1>5. \A m \in DOMAIN nodes : m \in Nat
  BY KidsBefore
<1>6. \A k \in Kids(n) :
        /\ k \in DOMAIN nodes \ (Args \cup {Root}) /\ k < n /\ Tree[k] \subseteq Tree[n]
        /\ nodes[k].kind \in Placed => nodes[n].kind \in Blocks
        /\ nodes[k].kind = "def" => nodes[n].kind = "body"
  BY <1>2, KidsInside
<1>7. \A m \in DOMAIN nodes : m \in Tree[m] /\ \A c \in Tree[m] : c \in DOMAIN nodes /\ c <= m
  BY TreeSub DEF TreesNested
<1>8. \A k \in Kids(n) : \A d : InFront(d, k) <=> InFront(d, n) \/ (nodes[n].kind = "body" /\ d \in Kids(n) /\ d <= k)
  BY <1>2, InFrontOfKid
<1> DEFINE Early(i) == i \in DOMAIN s
           From(i) == i - B + 1
<1>9. \A i \in DOMAIN next :
        \/ i \in DOMAIN s /\ next[i] = s[i] /\ s[i].node \in Kids(n) /\ s[i].in = t
        \/ i \notin DOMAIN s /\ From(i) \in DOMAIN w /\ From(i) > 1 /\ next[i] = w[From(i)]
  BY <1>1, <1>3
<1>10. \A i, j \in DOMAIN next : i < j =>
         /\ j \in DOMAIN s => i \in DOMAIN s
         /\ From(i) < From(j)
  BY <1>1
<1>11. \A i \in DOMAIN next : 1 < From(i) /\ i \notin DOMAIN s => \A h \in 2 .. From(i) :
         h + B - 1 \in 1 .. i /\ h + B - 1 \notin DOMAIN s /\ From(h + B - 1) = h /\ h + B - 1 \in DOMAIN next
  BY <1>1
<1> HIDE DEF next, B, From
<1>12. Inner(next)
  <2> SUFFICES ASSUME NEW j \in DOMAIN next
               PROVE  next[j].node \in DOMAIN nodes \ (Args \cup {Root}) /\ next[j].in \in Nat
    BY DEF Inner
  <2>1. CASE j \in DOMAIN s
    BY <1>6, <1>9, <2>1
  <2>2. CASE j \notin DOMAIN s
    BY <1>9, <2>2 DEF WorkOrder, Inner
  <2> QED
    BY <2>1, <2>2
<1>13. Outwards(next)
  <2> SUFFICES ASSUME NEW i \in DOMAIN next, NEW j \in DOMAIN next, i < j
               PROVE  next[j].in <= next[i].in
    BY DEF Outwards
  <2>1. CASE j \in DOMAIN s
    BY <1>9, <1>10, <2>1
  <2>2. CASE i \in DOMAIN s /\ j \notin DOMAIN s
    <3>1. w[From(j)].in <= w[1].in /\ w[From(j)].in \in Nat
      BY <1>1, <1>9, <2>2 DEF WorkOrder, Outwards, Inner
    <3> QED
      BY <1>2, <1>4, <1>9, <2>2, <3>1
  <2>3. CASE i \notin DOMAIN s
    BY <1>9, <1>10, <2>3 DEF WorkOrder, Outwards
  <2> QED
    BY <2>1, <2>2, <2>3
<1>14. ASSUME NEW j \in DOMAIN next, j \notin DOMAIN s, nodes[n].kind \in Placed
       PROVE  \A m \in Tree[next[j].node] : m > n
  BY <1>1, <1>9, <1>14 DEF WorkOrder, Forwards
<1>15. Forwards(next)
  <2> SUFFICES ASSUME NEW i \in DOMAIN next, NEW j \in DOMAIN next, i < j,
                      nodes[next[i].node].kind \in Placed, NEW m \in Tree[next[j].node]
               PROVE  m > next[i].node
    BY DEF Forwards
  <2>1. CASE j \in DOMAIN s
    BY <1>2, <1>9, <1>10, <2>1, BelowOrder
  <2>2. CASE i \in DOMAIN s /\ j \notin DOMAIN s
    <3>1. nodes[n].kind \in Placed /\ next[i].node < n /\ next[i].node \in Nat /\ n \in Nat
      BY <1>2, <1>5, <1>6, <1>9, <2>2 DEF Blocks, Placed, Stmts
    <3>2. m > n
      BY <1>14, <2>2, <3>1
    <3>3. m \in Nat
      BY <1>5, <1>7, <1>12 DEF Inner
    <3> QED
      BY <3>1, <3>2, <3>3
  <2>3. CASE i \notin DOMAIN s
    <3>1. j \notin DOMAIN s /\ From(i) < From(j)
      BY <1>10, <2>3
    <3> QED
      BY <1>9, <2>3, <3>1 DEF WorkOrder, Forwards
  <2> QED
    BY <2>1, <2>2, <2>3
<1>16. Passed(next, S2)
  <2> SUFFICES ASSUME NEW d \in Of("def") \cap S2, NEW j \in DOMAIN next, NEW m \in Of("def") \cap Tree[next[j].node]
               PROVE  d < m
    BY DEF Passed
  <2>1. CASE d \in S
    <3>1. CASE j \in DOMAIN s
      <4>1. m \in Tree[w[1].node]
        BY <1>6, <1>9, <3>1
      <4> QED
        BY <1>1, <2>1, <4>1 DEF WorkOrder, Passed
    <3>2. CASE j \notin DOMAIN s
      BY <1>9, <2>1, <3>2 DEF WorkOrder, Passed
    <3> QED
      BY <3>1, <3>2
  <2>2. CASE d = n
    <3>1. nodes[n].kind = "def"
      BY <2>2 DEF Of
    <3>2. CASE j \in DOMAIN s
      <4>1. m \in Tree[next[j].node] /\ next[j].node \in Kids(n) /\ nodes[m].kind = "def"
        BY <1>9, <3>2 DEF Of
      <4>2. nodes[next[j].node].kind \in Expr /\ next[j].node \in DOMAIN nodes
        BY <1>2, <3>1, <4>1, KidKinds DEF Flat
      <4>3. nodes[m].kind \in Expr
        BY <4>1, <4>2, ExprTree
      <4> QED
        BY <4>1, <4>3 DEF Expr
    <3>3. CASE j \notin DOMAIN s
      <4>1. m > n
        BY <1>14, <3>1, <3>3 DEF Placed, Stmts
      <4>2. m \in Nat /\ n \in Nat
        BY <1>2, <1>5 DEF Of
      <4> QED
        BY <2>2, <4>1, <4>2
    <3> QED
      BY <3>2, <3>3
  <2> QED
    BY <2>1, <2>2
<1>17. Awaited(next, S2)
  <2> SUFFICES ASSUME NEW j \in DOMAIN next, NEW d \in Of("def"), InFront(d, next[j].node), d \notin S2
               PROVE  \E i \in 1 .. j : next[i].node = d
    BY DEF Awaited
  <2>1. d \notin S /\ d # n
    OBVIOUS
  <2>2. CASE j \in DOMAIN s
    <3>1. ~ InFront(d, n)
      <4> SUFFICES ASSUME InFront(d, n)
                   PROVE  FALSE
        OBVIOUS
      <4>1. \E i \in 1 .. 1 : w[i].node = d
        BY <1>1, <2>1 DEF WorkOrder, Awaited
      <4> QED
        BY <2>1, <4>1
    <3>2. nodes[n].kind = "body" /\ d \in Kids(n) /\ d <= next[j].node
      BY <1>8, <1>9, <2>2, <3>1
    <3>3. PICK i \in DOMAIN s : s[i].node = d
      BY <1>3, <3>2
    <3>4. i <= j
      <4> SUFFICES ASSUME j < i
                   PROVE  FALSE
        BY <1>1, <2>2
      <4>1. nodes[s[j].node].kind \in Placed
        BY <1>2, <1>3, <2>2, <3>2, KidKinds DEF Placed
      <4>2. d \in Tree[s[i].node]
        BY <1>6, <1>7, <3>2, <3>3
      <4>3. d > s[j].node
        BY <1>2, <2>2, <4>1, <4>2, BelowOrder
      <4>4. d \in Nat /\ next[j].node \in Nat /\ next[j] = s[j]
        BY <1>5, <1>6, <1>9, <2>2, <3>2
      <4> QED
        BY <3>2, <4>3, <4>4
    <3> QED
      BY <1>1, <1>9, <2>2, <3>3, <3>4
  <2>3. CASE j \notin DOMAIN s
    <3>1. From(j) \in DOMAIN w /\ From(j) > 1 /\ next[j] = w[From(j)]
      BY <1>9, <2>3
    <3>2. PICK h \in 1 .. From(j) : w[h].node = d
      BY <2>1, <3>1 DEF WorkOrder, Awaited
    <3>3. h \in 2 .. From(j)
      BY <1>1, <2>1, <3>1, <3>2
    <3> DEFINE i == h + B - 1
    <3>4. i \in 1 .. j /\ i \notin DOMAIN s /\ From(i) = h /\ i \in DOMAIN next
      BY <1>11, <2>3, <3>1, <3>3
    <3> HIDE DEF i
    <3>5. next[i] = w[h]
      BY <1>9, <3>4
    <3> QED
      BY <3>2, <3>4, <3>5
  <2> QED
    BY <2>2, <2>3
<1>18. Shared(next)
  <2> SUFFICES ASSUME NEW i \in DOMAIN next, NEW j \in DOMAIN next, i < j, nodes[next[i].node].kind = "def"
               PROVE  next[j].in = next[i].in <=> InFront(next[i].node, next[j].node)
    BY DEF Shared
  <2>1. CASE j \in DOMAIN s
    <3>1. i \in DOMAIN s /\ next[j].in = next[i].in /\ next[i] = s[i] /\ next[j] = s[j]
          /\ next[i].node \in Kids(n) /\ next[j].node \in Kids(n)
      BY <1>9, <1>10, <2>1
    <3>2. nodes[n].kind = "body"
      BY <1>6, <3>1
    <3>3. next[j].node > next[i].node
      <4>1. next[j].node \in Tree[next[j].node]
        BY <1>6, <1>7, <3>1
      <4> QED
        BY <1>2, <2>1, <3>1, <4>1, BelowOrder DEF Placed, Stmts
    <3>4. next[i].node <= next[j].node
      <4>1. next[i].node \in Nat /\ next[j].node \in Nat
        BY <1>5, <1>6, <3>1
      <4> QED
        BY <3>3, <4>1
    <3> QED
      BY <1>8, <3>1, <3>2, <3>4
  <2>2. CASE i \in DOMAIN s /\ j \notin DOMAIN s
    <3>1. next[i].node \in Kids(n) /\ next[i].in = t /\ nodes[n].kind = "body" /\ n \in Nat
      BY <1>2, <1>5, <1>6, <1>9, <2>2
    <3>2. next[j].in <= w[1].in /\ next[j].in \in Nat
      BY <1>1, <1>9, <2>2 DEF WorkOrder, Outwards, Inner
    <3>3. next[j].in # next[i].in
      BY <1>2, <1>4, <3>1, <3>2
    <3>4. ~ InFront(next[i].node, next[j].node)
      <4> SUFFICES ASSUME InFront(next[i].node, next[j].node)
                   PROVE  FALSE
        OBVIOUS
      <4>1. PICK b \in Of("body") : next[i].node \in Kids(b) /\ \E p \in Kids(b) : next[j].node \in Tree[p]
        BY DEF InFront
      <4>2. PICK p \in Kids(b) : next[j].node \in Tree[p]
        BY <4>1
      <4>3. b \in DOMAIN nodes
        BY DEF Of
      <4>4. b = n
        BY <1>2, <1>6, <2>2, <3>1, <4>1, <4>3 DEF TreesOK, OwnTree, Placed, Stmts
      <4>5. p \in DOMAIN nodes /\ p < n /\ next[j].node <= p /\ p \in Nat /\ next[j].node \in Nat
        BY <1>5, <1>6, <1>7, <4>2, <4>4
      <4>6. next[j].node > n
        <5>1. next[j].node \in Tree[next[j].node]
          BY <1>7, <1>12 DEF Inner
        <5> QED
          BY <1>14, <2>2, <3>1, <5>1 DEF Placed
      <4> QED
        BY <3>1, <4>5, <4>6
    <3> QED
      BY <3>3, <3>4
  <2>3. CASE i \notin DOMAIN s
    <3>1. j \notin DOMAIN s /\ From(i) < From(j)
      BY <1>10, <2>3
    <3> QED
      BY <1>9, <2>3, <3>1 DEF WorkOrder, Shared
  <2> QED
    BY <2>1, <2>2, <2>3
<1> QED
  BY <1>12, <1>13, <1>15, <1>16, <1>17, <1>18 DEF WorkOrder, next

LEMMA VisitsBelow ==
  ASSUME NodesOK, NEW n \in DOMAIN nodes, NEW t
  PROVE  /\ Visits(nodes[n].kids, t) \in Seq([node : DOMAIN nodes, in : {t}])
         /\ Below(Visits(nodes[n].kids, t), n, t)
<1> DEFINE ids == nodes[n].kids
           there == Among(ids, DOMAIN nodes)
           s == Visits(ids, t)
           R == {p \in Nat \X Nat : \E a, c \in DOMAIN ids : a < c /\ p[1] = ids[a] /\ p[2] = ids[c]}
<1>1. /\ Len(nodes) \in Nat /\ DOMAIN nodes = 1 .. Len(nodes)
      /\ Kids(n) \subseteq 1 .. n - 1
  BY KidsBefore
<1>2. ids \in Seq(Nat)
  <2>1. n \in Nat /\ Len(ids) \in Nat /\ DOMAIN ids = 1 .. Len(ids) /\ \A i \in DOMAIN ids : ids[i] \in 0 .. n - 1
    BY <1>1, KidsFacts
  <2>2. \A i \in DOMAIN ids : ids[i] \in Nat
    BY <2>1
  <2>3. \E T : ids \in Seq(T)
    BY DEF NodesOK
  <2> HIDE DEF ids
  <2>4. ids = [i \in 1 .. Len(ids) |-> ids[i]]
    BY <2>1, <2>3
  <2> QED
    BY <2>1, <2>2, <2>4
<1>3. Ordered(ids, R)
  <2>1. ASSUME NEW a \in 1 .. Len(ids), NEW c \in 1 .. Len(ids), a < c
        PROVE  <<ids[a], ids[c]>> \in R
    <3>1. a \in DOMAIN ids /\ c \in DOMAIN ids /\ ids[a] \in Nat /\ ids[c] \in Nat
      BY <1>2
    <3> QED
      BY <2>1, <3>1
  <2> HIDE DEF R
  <2> QED
    BY <2>1 DEF Ordered
<1>4. there \in Seq(Nat) /\ ToSet(there) = ToSet(ids) \cap DOMAIN nodes /\ Ordered(there, R)
  <2> HIDE DEF R, ids
  <2> QED
    BY <1>2, <1>3, AmongFacts
<1>5. s \in Seq([node : DOMAIN nodes, in : {t}])
  BY <1>2, VisitsFacts
<1>6. s = [i \in DOMAIN there |-> [node |-> there[i], in |-> t]]
  BY DEF Visits
<1> HIDE DEF there, s
<1>7. DOMAIN there = 1 .. Len(there) /\ Len(there) \in Nat
  BY <1>4
<1>8. DOMAIN s = DOMAIN there /\ \A i \in DOMAIN s : s[i].node = there[i] /\ s[i].in = t
  BY <1>6
<1>9. ToSet(there) = Kids(n)
  <2>1. \A k \in Kids(n) : k \in DOMAIN nodes
    BY <1>1
  <2>2. 0 \notin DOMAIN nodes
    BY <1>1
  <2> QED
    BY <1>4, <2>1, <2>2 DEF Kids
<1>10. ASSUME NEW i \in DOMAIN s, NEW j \in DOMAIN s, i < j
       PROVE  \E a, c \in DOMAIN ids : a < c /\ ids[a] = s[i].node /\ ids[c] = s[j].node
  <2>1. <<there[i], there[j]>> \in R
    BY <1>4, <1>7, <1>8, <1>10 DEF Ordered
  <2>2. \E a, c \in DOMAIN ids : a < c /\ there[i] = ids[a] /\ there[j] = ids[c]
    BY <2>1
  <2> QED
    BY <1>8, <2>2
<1>11. \A i \in DOMAIN s : s[i].node \in Kids(n)
  BY <1>8, <1>9 DEF ToSet
<1>12. \A k \in Kids(n) : \E i \in DOMAIN s : s[i].node = k
  BY <1>8, <1>9 DEF ToSet
<1> QED
  BY <1>5, <1>8, <1>10, <1>11, <1>12 DEF Below, s

\* The passes begin with the statements of the body of the function.
LEMMA WorkStart ==
  ASSUME NodesOK, KindsOK, TreesOK, nodes # <<>>, nodes[Root].kind = "function",
         NEW s, NEW t \in Nat, Below(s, nodes[Root].kids[1], t), \E C : s \in Seq(C)
  PROVE  WorkOrder(s, {})
<1> DEFINE n == nodes[Root].kids[1]
<1>1. /\ Len(nodes) \in Nat /\ DOMAIN nodes = 1 .. Len(nodes)
      /\ \A m \in DOMAIN nodes : m \in Nat /\ Kids(m) \subseteq 1 .. m - 1
  BY KidsBefore
<1>2. Root \in DOMAIN nodes
  <2>1. Len(nodes) # 0
    BY DEF NodesOK
  <2> QED
    BY <1>1, <2>1 DEF Root
<1>3. n \in DOMAIN nodes /\ nodes[n].kind = "body" /\ n \in Kids(Root)
  BY <1>2 DEF TreesOK, RootKids
<1>4. n # Root
  BY <1>1, <1>2, <1>3
<1>5. \A d : ~ InFront(d, n)
  BY InFrontOfBody
<1> HIDE DEF n
<1>6. /\ \A i \in DOMAIN s : s[i].node \in Kids(n) /\ s[i].in = t
      /\ \A k \in Kids(n) : \E i \in DOMAIN s : s[i].node = k
  BY DEF Below, n
<1>7. Below(s, n, t)
  BY DEF n
<1>8. \A k \in Kids(n) : k \in DOMAIN nodes \ (Args \cup {Root}) /\ nodes[k].kind \in Placed /\ k \in Tree[k]
  BY <1>3, <1>4, KidsInside, KidKinds, TreeSub DEF Placed, TreesNested
<1>9. \A k \in Kids(n) : \A d : InFront(d, k) <=> d \in Kids(n) /\ d <= k
  BY <1>3, <1>5, InFrontOfKid
<1>10. \A i, j \in DOMAIN s : i < j => s[j].node > s[i].node
  BY <1>3, <1>4, <1>6, <1>7, <1>8, BelowOrder
<1>11. DOMAIN s \subseteq Nat /\ \A j \in DOMAIN s : \A i \in DOMAIN s : i <= j => i \in 1 .. j
  <2>1. PICK C : s \in Seq(C)
    OBVIOUS
  <2>2. DOMAIN s = 1 .. Len(s) /\ Len(s) \in Nat
    BY <2>1
  <2> QED
    BY <2>2
<1>12. Inner(s) /\ Outwards(s)
  BY <1>6, <1>8 DEF Inner, Outwards
<1>13. Forwards(s)
  BY <1>3, <1>4, <1>7, BelowOrder DEF Forwards
<1>14. Passed(s, {})
  BY DEF Passed
<1>15. Awaited(s, {})
  <2> SUFFICES ASSUME NEW j \in DOMAIN s, NEW d \in Of("def"), InFront(d, s[j].node)
               PROVE  \E i \in 1 .. j : s[i].node = d
    BY DEF Awaited
  <2>1. d \in Kids(n) /\ d <= s[j].node
    BY <1>6, <1>9
  <2>2. PICK i \in DOMAIN s : s[i].node = d
    BY <1>6, <2>1
  <2>3. ~ (j < i)
    <3>1. d \in Nat /\ s[j].node \in Nat
      BY <1>1, <1>6, <1>8, <2>1
    <3>2. j < i => d > s[j].node
      BY <1>10, <2>2
    <3> QED
      BY <2>1, <3>1, <3>2
  <2>4. i <= j
    BY <1>11, <2>3
  <2> QED
    BY <1>11, <2>2, <2>4
<1>16. Shared(s)
  <2> SUFFICES ASSUME NEW i \in DOMAIN s, NEW j \in DOMAIN s, i < j
               PROVE  s[j].in = s[i].in /\ InFront(s[i].node, s[j].node)
    BY DEF Shared
  <2>1. s[i].node \in Nat /\ s[j].node \in Nat /\ s[i].node \in Kids(n) /\ s[j].node \in Kids(n)
    BY <1>1, <1>6, <1>8
  <2>2. s[i].node <= s[j].node
    BY <1>10, <2>1
  <2> QED
    BY <1>6, <1>9, <2>1, <2>2
<1> QED
  BY <1>12, <1>13, <1>14, <1>15, <1>16 DEF WorkOrder

-----------------------------------------------------------------------------
(* What find_symbol finds.                                                 *)

\* A table is asked, and the one around it when the name is not in it.
FoundEqs ==
  \A name :
    /\ Found(name, 0) = 0
    /\ \A u \in DOMAIN tables : \A o : o = tables[u].outer =>
         Found(name, u) = IF name \in DOMAIN tables[u].names THEN tables[u].names[name] ELSE Found(name, o)

LEMMA FoundEq == ScopesOK => FoundEqs
<1> SUFFICES ASSUME ScopesOK, NEW name
             PROVE  /\ Found(name, 0) = 0
                    /\ \A u \in DOMAIN tables : \A o : o = tables[u].outer =>
                         Found(name, u) = IF name \in DOMAIN tables[u].names THEN tables[u].names[name]
                                          ELSE Found(name, o)
  BY DEF FoundEqs
<1> DEFINE Def(f, n) == /\ f = [i \in 0 .. n |-> f[i]]
                        /\ \A i \in 0 .. n : f[i] = FoundStep(f, name, i)
           S == {n \in Nat : n <= Len(tables) => \E f : Def(f, n)}
<1>0. /\ Len(tables) \in Nat /\ DOMAIN tables = 1 .. Len(tables)
  BY DEF ScopesOK
<1>1. 0 \in S
  <2> DEFINE f == [i \in 0 .. 0 |-> 0]
  <2>1. f = [i \in 0 .. 0 |-> f[i]] /\ f[0] = 0
    OBVIOUS
  <2> HIDE DEF f
  <2>2. \A i \in 0 .. 0 : i = 0
    OBVIOUS
  <2>3. Def(f, 0)
    BY <2>1, <2>2 DEF FoundStep
  <2> QED
    BY <2>3
<1>2. ASSUME NEW n \in Nat, n \in S
      PROVE  n + 1 \in S
  <2> SUFFICES ASSUME n + 1 <= Len(tables)
               PROVE  \E g : Def(g, n + 1)
    OBVIOUS
  <2>1. PICK f : Def(f, n)
    BY <1>0, <1>2
  <2> DEFINE g == [i \in 0 .. n + 1 |-> IF i = n + 1 THEN FoundStep(f, name, n + 1) ELSE f[i]]
  <2>2. g = [i \in 0 .. n + 1 |-> g[i]]
    OBVIOUS
  <2>3. g[n + 1] = FoundStep(f, name, n + 1) /\ \A i \in 0 .. n : g[i] = f[i]
    OBVIOUS
  <2> HIDE DEF g
  <2>4. ASSUME NEW i \in 0 .. n + 1
        PROVE  g[i] = FoundStep(g, name, i)
    <3>1. i # 0 => i \in DOMAIN tables /\ tables[i].outer \in 0 .. n
      <4>1. i # 0 => i \in DOMAIN tables
        BY <1>0
      <4>2. i \in DOMAIN tables => tables[i].outer \in 0 .. i - 1
        BY DEF ScopesOK
      <4>3. 0 .. i - 1 \subseteq 0 .. n
        OBVIOUS
      <4> QED
        BY <4>1, <4>2, <4>3
    <3>2. FoundStep(g, name, i) = FoundStep(f, name, i)
      BY <2>3, <3>1 DEF FoundStep
    <3>4. CASE i = n + 1
      BY <2>3, <3>2, <3>4
    <3>5. CASE i # n + 1
      <4>1. i \in 0 .. n
        BY <3>5
      <4> QED
        BY <2>1, <2>3, <3>2, <4>1
    <3> QED
      BY <3>4, <3>5
  <2>5. Def(g, n + 1)
    BY <2>2, <2>4
  <2> HIDE DEF Def
  <2> QED
    BY <2>5
<1>3. \A n \in Nat : n \in S
  <2> HIDE DEF S
  <2> QED
    BY <1>1, <1>2, Induction
<1>4. PICK f : Def(f, Len(tables))
  BY <1>0, <1>3
<1>5. f = [u \in 0 .. Len(tables) |-> FoundStep(f, name, u)]
  BY <1>0, <1>4
<1> DEFINE g == CHOOSE h : h = [u \in 0 .. Len(tables) |-> FoundStep(h, name, u)]
<1>6. \A t : Found(name, t) = g[t]
  BY DEF Found, FoundStep
<1>7. g = [u \in 0 .. Len(tables) |-> FoundStep(g, name, u)]
  BY <1>5
<1> HIDE DEF g, Def, S
<1>8. \A u \in 0 .. Len(tables) : g[u] = FoundStep(g, name, u)
  BY <1>7
<1>9. g[0] = 0
  BY <1>0, <1>8 DEF FoundStep
<1>10. ASSUME NEW u \in DOMAIN tables
       PROVE  g[u] = IF name \in DOMAIN tables[u].names THEN tables[u].names[name] ELSE g[tables[u].outer]
  <2>1. u \in 0 .. Len(tables) /\ u # 0
    BY <1>0
  <2> QED
    BY <1>8, <2>1 DEF FoundStep
<1> QED
  BY <1>6, <1>9, <1>10

\* What is found with a table depends on this table and those around it.
LEMMA SameFound ==
  ASSUME ScopesOK, ScopesOK', NEW name, NEW N \in Nat, N <= Len(tables), N <= Len(tables'),
         \A u \in 1 .. N :
           /\ tables'[u].outer = tables[u].outer
           /\ name \in DOMAIN tables'[u].names <=> name \in DOMAIN tables[u].names
           /\ name \in DOMAIN tables[u].names => tables'[u].names[name] = tables[u].names[name]
  PROVE  \A u \in 0 .. N : Found(name, u)' = Found(name, u)
<1>1. FoundEqs /\ FoundEqs'
  <2>1. (ScopesOK => FoundEqs)'
    BY FoundEq, PTL
  <2> QED
    BY <2>1, FoundEq
<1>2. /\ Len(tables) \in Nat /\ DOMAIN tables = 1 .. Len(tables)
      /\ Len(tables') \in Nat /\ DOMAIN tables' = 1 .. Len(tables')
  BY DEF ScopesOK
<1> DEFINE S == {n \in Nat : n <= N => Found(name, n)' = Found(name, n)}
<1>3. ASSUME NEW n \in Nat, \A m \in Nat : m < n => m \in S
      PROVE  n \in S
  <2> SUFFICES ASSUME n <= N
               PROVE  Found(name, n)' = Found(name, n)
    OBVIOUS
  <2>1. CASE n = 0
    <3>1. Found(name, 0) = 0 /\ Found(name, 0)' = 0
      BY <1>1 DEF FoundEqs
    <3> QED
      BY <2>1, <3>1
  <2>2. CASE n # 0
    <3>1. n \in DOMAIN tables /\ n \in DOMAIN tables' /\ n \in 1 .. N
      BY <1>2, <2>2
    <3>2. PICK o \in 0 .. n - 1 : o = tables[n].outer /\ o = tables'[n].outer
      BY <3>1 DEF ScopesOK
    <3>3. o \in Nat /\ o < n /\ o <= N
      BY <3>2
    <3>4. Found(name, o)' = Found(name, o)
      BY <1>3, <3>3
    <3>5. Found(name, n) = IF name \in DOMAIN tables[n].names THEN tables[n].names[name] ELSE Found(name, o)
      BY <1>1, <3>1, <3>2 DEF FoundEqs
    <3>6. Found(name, n)' = IF name \in DOMAIN tables'[n].names THEN tables'[n].names[name] ELSE Found(name, o)'
      BY <1>1, <3>1, <3>2 DEF FoundEqs
    <3> QED
      BY <3>1, <3>4, <3>5, <3>6
  <2> QED
    BY <2>1, <2>2
<1>4. \A n \in Nat : n \in S
  <2> HIDE DEF S
  <2> QED
    BY <1>3, StrongInduction
<1> QED
  BY <1>4

-----------------------------------------------------------------------------
(* The tables hold what is visible.                                        *)

\* What name can mean at node m, as far as definitions were visited.
Seen(name, m) ==
  {d \in Of("def") : nodes[d].name = name /\ (d \in Args \/ (d \in DOMAIN sym /\ InFront(d, m)))}
Latest(name, m) == IF Seen(name, m) = {} THEN 0 ELSE SymOf(Max(Seen(name, m)))

\* With table t a name means what it does at node m.
Meaning(t, m) == \A name : Found(name, t) = Latest(name, m)

OrderInv == pc = "type" => WorkOrder(work, DOMAIN sym)
MeansInv ==
  pc = "type" =>
    \A j \in DOMAIN work : \A t, m : work[j].in = t /\ work[j].node = m => Meaning(t, m)

\* The text is not changed by type_ast.
LEMMA SameText ==
  ASSUME nodes' = nodes, prog' = prog
  PROVE  /\ Tree' = Tree /\ Args' = Args /\ Root' = Root
         /\ \A d, m : InFront(d, m)' <=> InFront(d, m)
         /\ WorkOrder(work', DOMAIN sym') => WorkOrder(work, DOMAIN sym)'
         /\ \A name, m : Seen(name, m)' =
              {d \in Of("def") : nodes[d].name = name /\ (d \in Args \/ (d \in DOMAIN sym' /\ InFront(d, m)))}
         /\ \A d : SymOf(d)' = IF d \in Args THEN d ELSE sym'[d]
<1>1. Tree' = Tree /\ Args' = Args /\ Root' = Root /\ \A kind : Of(kind)' = Of(kind)
  BY DEF Tree, Kids, Args, Root, Of
<1>2. \A d, m : InFront(d, m)' <=> InFront(d, m)
  BY <1>1 DEF InFront, Kids
<1>3. WorkOrder(work', DOMAIN sym') => WorkOrder(work, DOMAIN sym)'
  BY <1>1, <1>2 DEF WorkOrder, Inner, Outwards, Forwards, Passed, Awaited, Shared
<1>4. \A name, m : Seen(name, m)' =
        {d \in Of("def") : nodes[d].name = name /\ (d \in Args \/ (d \in DOMAIN sym' /\ InFront(d, m)))}
  BY <1>1, <1>2 DEF Seen
<1>5. \A d : SymOf(d)' = IF d \in Args THEN d ELSE sym'[d]
  BY <1>1 DEF SymOf, Args
<1> QED
  BY <1>1, <1>2, <1>3, <1>4, <1>5

LEMMA MaxIs ==
  ASSUME NEW S, S \subseteq Nat, NEW x \in S, \A y \in S : y <= x
  PROVE  Max(S) = x
<1>1. \E z \in S : \A y \in S : z >= y
  OBVIOUS
<1>2. Max(S) \in S /\ \A y \in S : Max(S) >= y
  BY <1>1 DEF Max
<1>3. Max(S) \in Nat /\ x \in Nat /\ Max(S) >= x /\ Max(S) <= x
  BY <1>2
<1> QED
  BY <1>3

\* The greatest of what a name can mean is one of it.
LEMMA MaxSeen ==
  ASSUME NodesOK, NEW S, S \subseteq Of("def"), S # {}
  PROVE  Max(S) \in S
<1>1. Len(nodes) \in Nat /\ DOMAIN nodes = 1 .. Len(nodes)
  BY KidsBefore
<1> QED
  BY <1>1, MaxIn DEF Of

LEMMA LatestSame ==
  ASSUME NodesOK, nodes' = nodes, prog' = prog, NEW name, NEW m, NEW o,
         Seen(name, m)' = Seen(name, o), \A d \in Seen(name, o) \ Args : sym'[d] = sym[d]
  PROVE  Latest(name, m)' = Latest(name, o)
<1>1. Latest(name, m)' = IF Seen(name, m)' = {} THEN 0 ELSE SymOf(Max(Seen(name, m)))'
  BY DEF Latest
<1>2. CASE Seen(name, o) = {}
  BY <1>1, <1>2 DEF Latest
<1>3. CASE Seen(name, o) # {}
  <2>1. Max(Seen(name, o)) \in Seen(name, o)
    BY <1>3, MaxSeen DEF Seen
  <2> DEFINE x == Max(Seen(name, o))
  <2>2. SymOf(Max(Seen(name, m)))' = IF Max(Seen(name, m)') \in Args THEN Max(Seen(name, m)') ELSE sym'[Max(Seen(name, m)')]
    BY DEF SymOf, Args
  <2>3. SymOf(x) = IF x \in Args THEN x ELSE sym[x]
    BY DEF SymOf, Args
  <2> QED
    BY <1>1, <1>3, <2>1, <2>2, <2>3 DEF Latest
<1> QED
  BY <1>2, <1>3

\* What is visited next is of s, or was behind the first of w.
Replaced(next, s, w) ==
  \A j \in DOMAIN next :
    (\E i \in DOMAIN s : next[j] = s[i]) \/ (\E i \in DOMAIN w : i > 1 /\ next[j] = w[i])

LEMMA NextWork ==
  ASSUME NEW C, NEW w \in Seq(C), w # <<>>, NEW s \in Seq(C)
  PROVE  Replaced(s \o Tail(w), s, w)
<1>1. Len(w) \in Nat \ {0} /\ DOMAIN w = 1 .. Len(w)
  OBVIOUS
<1> DEFINE r == Tail(w)
<1>2. /\ r \in Seq(C) /\ Len(r) = Len(w) - 1 /\ DOMAIN r = 1 .. Len(w) - 1
      /\ \A i \in 1 .. Len(w) - 1 : r[i] = w[i + 1]
  OBVIOUS
<1>3. Len(s) \in Nat /\ DOMAIN s = 1 .. Len(s)
  OBVIOUS
<1> HIDE DEF r
<1>4. /\ DOMAIN (s \o r) = 1 .. Len(s) + Len(r)
      /\ \A j \in 1 .. Len(s) : (s \o r)[j] = s[j]
      /\ \A j \in 1 .. Len(s) + Len(r) : j > Len(s) => (s \o r)[j] = r[j - Len(s)]
  BY <1>2, <1>3 DEF r
<1> SUFFICES ASSUME NEW j \in 1 .. Len(s) + Len(r)
             PROVE  \/ \E i \in DOMAIN s : (s \o r)[j] = s[i]
                    \/ \E i \in DOMAIN w : i > 1 /\ (s \o r)[j] = w[i]
  BY <1>4 DEF r, Replaced
<1>5. CASE j <= Len(s)
  BY <1>3, <1>4, <1>5
<1>6. CASE ~ (j <= Len(s))
  <2>1. j - Len(s) \in 1 .. Len(w) - 1
    BY <1>1, <1>2, <1>3, <1>6
  <2>2. (s \o r)[j] = w[j - Len(s) + 1]
    <3>1. j > Len(s)
      BY <1>3, <1>6
    <3> QED
      BY <1>2, <1>4, <2>1, <3>1
  <2>3. j - Len(s) + 1 \in DOMAIN w /\ j - Len(s) + 1 > 1
    BY <1>1, <1>3, <2>1
  <2> QED
    BY <2>2, <2>3
<1> QED
  BY <1>5, <1>6

\* What is visited next, with tables that are numbers.
LEMMA NextVisit ==
  ASSUME IInv, ScopesOK, NamesOK, pc = "type", work # <<>>
  PROVE  /\ Next1 = work[1].node /\ In = work[1].in /\ 1 \in DOMAIN work
         /\ Next1 \in DOMAIN nodes /\ In \in DOMAIN tables /\ In \in Nat
         /\ work \in Seq([node : DOMAIN nodes, in : Nat])
         /\ \A t \in Nat : Visits(nodes[Next1].kids, t) \in Seq([node : DOMAIN nodes, in : Nat])
         /\ \A t \in Nat : Below(Visits(nodes[Next1].kids, t), Next1, t)
<1>1. Next1 \in DOMAIN nodes /\ In \in DOMAIN tables /\ work \in Seq([node : DOMAIN nodes, in : DOMAIN tables])
  BY NextTyped
<1>2. DOMAIN tables \subseteq Nat
  <2>1. PICK T : tables \in Seq(T)
    BY DEF ScopesOK
  <2> QED
    BY <2>1
<1>3. work \in Seq([node : DOMAIN nodes, in : Nat])
  <2> DEFINE C == [node : DOMAIN nodes, in : DOMAIN tables]
             D == [node : DOMAIN nodes, in : Nat]
  <2>1. C \subseteq D /\ work \in Seq(C)
    BY <1>1, <1>2
  <2> HIDE DEF C, D
  <2>2. work \in Seq(D)
    BY <2>1
  <2> QED
    BY <2>2 DEF D
<1>4. Next1 = work[1].node /\ In = work[1].in /\ 1 \in DOMAIN work
  <2> DEFINE D == [node : DOMAIN nodes, in : Nat]
  <2>1. work \in Seq(D)
    BY <1>3
  <2> HIDE DEF D
  <2>2. Head(work) = work[1] /\ 1 \in DOMAIN work
    BY <2>1
  <2> QED
    BY <2>2 DEF Next1, In
<1>5. ASSUME NEW t \in Nat
      PROVE  /\ Visits(nodes[Next1].kids, t) \in Seq([node : DOMAIN nodes, in : Nat])
             /\ Below(Visits(nodes[Next1].kids, t), Next1, t)
  <2> DEFINE C == [node : DOMAIN nodes, in : {t}]
             D == [node : DOMAIN nodes, in : Nat]
             s == Visits(nodes[Next1].kids, t)
  <2>1. s \in Seq(C) /\ Below(s, Next1, t)
    BY <1>1, VisitsBelow DEF IInv
  <2>2. C \subseteq D
    OBVIOUS
  <2> HIDE DEF C, D, s
  <2>3. s \in Seq(D)
    BY <2>1, <2>2
  <2> QED
    BY <2>1, <2>3 DEF D, s
<1> QED
  BY <1>1, <1>2, <1>3, <1>4, <1>5

\* The node that is visited next makes way for its children.
LEMMA WorkPassed ==
  ASSUME IInv, KindsOK, TreesOK, ScopesOK, NamesOK, OrderInv, pc = "type", work # <<>>,
         nodes' = nodes, prog' = prog,
         NEW t \in Nat, work' = Visits(nodes[Next1].kids, t) \o Tail(work),
         IF nodes[Next1].kind = "body" THEN t > In ELSE t = In,
         DOMAIN sym' \cap Of("def") = (DOMAIN sym \cup {Next1}) \cap Of("def"),
         \A k \in Kids(Next1) : Meaning(t, k)',
         \A i \in DOMAIN work : i > 1 =>
           \A u, m : work[i].in = u /\ work[i].node = m => Meaning(u, m)'
  PROVE  OrderInv' /\ MeansInv'
<1> DEFINE C == [node : DOMAIN nodes, in : Nat]
           s == Visits(nodes[Next1].kids, t)
           visited == DOMAIN sym'
<1>1. /\ work \in Seq(C) /\ s \in Seq(C) /\ Below(s, Next1, t) /\ Next1 = work[1].node /\ In = work[1].in
  BY NextVisit
<1>2. work' = s \o Tail(work)
  OBVIOUS
<1>3. visited \cap Of("def") = (DOMAIN sym \cup {Next1}) \cap Of("def")
  OBVIOUS
<1> HIDE DEF C, s, visited
<1>4. WorkOrder(s \o Tail(work), visited)
  <2>1. WorkOrder(work, DOMAIN sym)
    BY DEF OrderInv
  <2>2. Below(s, work[1].node, t)
    BY <1>1
  <2>3. IF nodes[work[1].node].kind = "body" THEN t > work[1].in ELSE t = work[1].in
    BY <1>1
  <2>4. visited \cap Of("def") = (DOMAIN sym \cup {work[1].node}) \cap Of("def")
    BY <1>1, <1>3
  <2> QED
    BY <1>1, <2>1, <2>2, <2>3, <2>4, WorkStep DEF IInv
<1>5. OrderInv'
  <2>1. WorkOrder(work', DOMAIN sym')
    BY <1>2, <1>4 DEF visited
  <2> QED
    BY <2>1, SameText DEF OrderInv
<1>6. ASSUME NEW j \in DOMAIN work', NEW u, NEW m, work'[j].in = u, work'[j].node = m
      PROVE  Meaning(u, m)'
  <2>1. \/ \E i \in DOMAIN s : work'[j] = s[i]
        \/ \E i \in DOMAIN work : i > 1 /\ work'[j] = work[i]
    <3>1. Replaced(s \o Tail(work), s, work)
      BY <1>1, NextWork
    <3> QED
      BY <1>2, <3>1 DEF Replaced
  <2>2. CASE \E i \in DOMAIN s : work'[j] = s[i]
    <3>1. u = t /\ m \in Kids(Next1)
      BY <1>1, <1>6, <2>2 DEF Below
    <3> QED
      BY <3>1
  <2>3. CASE \E i \in DOMAIN work : i > 1 /\ work'[j] = work[i]
    BY <1>6, <2>3
  <2> QED
    BY <2>1, <2>2, <2>3
<1>7. MeansInv'
  BY <1>6 DEF MeansInv
<1> QED
  BY <1>5, <1>7

\* A definition that is below what waits was not visited.
LEMMA NotYetNamed ==
  ASSUME IInv, OrderInv, pc = "type", NEW j \in DOMAIN work, NEW d \in Of("def"), d \in Tree[work[j].node]
  PROVE  d \notin DOMAIN sym
<1>1. WorkOrder(work, DOMAIN sym)
  BY DEF OrderInv
<1>2. d \in Nat
  BY KidsBefore DEF IInv, Of
<1> QED
  BY <1>1, <1>2 DEF WorkOrder, Passed

\* A meaning is handed on where the same is visible.
LEMMA MeaningKept ==
  ASSUME NodesOK, nodes' = nodes, prog' = prog, NEW u, NEW v, NEW m, NEW o, Meaning(v, o),
         \A name : Found(name, u)' = Found(name, v),
         \A d \in Of("def") \cap DOMAIN sym : InFront(d, m) <=> InFront(d, o),
         \A d \in Of("def") : d \in DOMAIN sym' <=> d \in DOMAIN sym,
         \A d \in Of("def") \cap DOMAIN sym : sym'[d] = sym[d]
  PROVE  Meaning(u, m)'
<1> SUFFICES ASSUME NEW name
             PROVE  Found(name, u)' = Latest(name, m)'
  BY DEF Meaning
<1>1. Seen(name, m)' = Seen(name, o)
  <2>1. Seen(name, m)' =
          {d \in Of("def") : nodes[d].name = name /\ (d \in Args \/ (d \in DOMAIN sym' /\ InFront(d, m)))}
    BY SameText
  <2> QED
    BY <2>1 DEF Seen
<1>2. \A d \in Seen(name, o) \ Args : sym'[d] = sym[d]
  BY DEF Seen
<1>3. Latest(name, m)' = Latest(name, o)
  BY <1>1, <1>2, LatestSame
<1> QED
  BY <1>3 DEF Meaning

LEMMA TypeOtherMeans ==
  ASSUME IInv, KindsOK, TreesOK, ScopesOK, NamesOK, OrderInv, MeansInv, TypeOther
  PROVE  OrderInv' /\ MeansInv'
<1>1. /\ pc = "type" /\ work # <<>> /\ nodes[Next1].kind \notin {"def", "ident", "body"}
      /\ nodes' = nodes /\ prog' = prog /\ tables' = tables /\ sym' = sym
      /\ work' = Visits(nodes[Next1].kids, In) \o Tail(work)
  BY DEF TypeOther, parsing, scopes
<1>2. /\ Next1 = work[1].node /\ In = work[1].in /\ 1 \in DOMAIN work /\ Next1 \in DOMAIN nodes /\ In \in Nat
  BY <1>1, NextVisit
<1>3. \A name, u : Found(name, u)' = Found(name, u)
  BY <1>1 DEF Found
<1>4. PICK t, n : t = In /\ n = Next1
  OBVIOUS
<1>5. t \in Nat /\ n \in DOMAIN nodes /\ n = work[1].node /\ t = work[1].in
  BY <1>2, <1>4
<1>6. Meaning(t, n)
  BY <1>1, <1>2, <1>5 DEF MeansInv
<1>7. ASSUME NEW k \in Kids(Next1)
      PROVE  Meaning(t, k)'
  <2>1. \A d : InFront(d, k) <=> InFront(d, n)
    BY <1>1, <1>4, <1>5, InFrontOfKid DEF IInv
  <2> QED
    BY <1>1, <1>3, <1>6, <2>1, MeaningKept DEF IInv
<1>8. ASSUME NEW i \in DOMAIN work, NEW u, NEW m, work[i].in = u, work[i].node = m
      PROVE  Meaning(u, m)'
  <2>1. Meaning(u, m)
    BY <1>1, <1>8 DEF MeansInv
  <2> QED
    BY <1>1, <1>3, <2>1, MeaningKept DEF IInv
<1>9. DOMAIN sym' \cap Of("def") = (DOMAIN sym \cup {Next1}) \cap Of("def")
  BY <1>1 DEF Of
<1>10. work' = Visits(nodes[Next1].kids, t) \o Tail(work) /\ t = In
  BY <1>1, <1>4
<1> QED
  BY <1>1, <1>5, <1>7, <1>8, <1>9, <1>10, WorkPassed

LEMMA TypeIdentMeans ==
  ASSUME IInv, KindsOK, TreesOK, ScopesOK, NamesOK, OrderInv, MeansInv, TypeIdent
  PROVE  OrderInv' /\ MeansInv'
<1>1. /\ pc = "type" /\ work # <<>> /\ nodes[Next1].kind = "ident"
      /\ nodes' = nodes /\ prog' = prog /\ tables' = tables
      /\ \/ pc' = "undeclared"
         \/ \E found : sym' = Mapped(sym, Next1, found) /\ work' = Tail(work)
  BY DEF TypeIdent, Typing, parsing
<1> SUFFICES ASSUME NEW found, sym' = Mapped(sym, Next1, found), work' = Tail(work)
             PROVE  OrderInv' /\ MeansInv'
  <2>1. CASE pc' = "undeclared"
    BY <2>1 DEF OrderInv, MeansInv
  <2> QED
    BY <1>1, <2>1
<1>2. /\ Next1 = work[1].node /\ In = work[1].in /\ 1 \in DOMAIN work /\ Next1 \in DOMAIN nodes /\ In \in Nat
      /\ Visits(nodes[Next1].kids, In) \in Seq([node : DOMAIN nodes, in : Nat])
      /\ Below(Visits(nodes[Next1].kids, In), Next1, In)
  BY <1>1, NextVisit
<1>3. \A name, u : Found(name, u)' = Found(name, u)
  BY <1>1 DEF Found
<1>4. PICK t : t = In
  OBVIOUS
<1>5. Kids(Next1) = {}
  BY <1>1, <1>2, NoKids DEF IInv
<1>6. DOMAIN sym' = DOMAIN sym \cup {Next1} /\ \A d \in DOMAIN sym : d # Next1 => sym'[d] = sym[d]
  BY DEF Mapped
<1>7. Next1 \notin Of("def")
  BY <1>1 DEF Of
<1>8. ASSUME NEW i \in DOMAIN work, NEW u, NEW m, work[i].in = u, work[i].node = m
      PROVE  Meaning(u, m)'
  <2>1. Meaning(u, m)
    BY <1>1, <1>8 DEF MeansInv
  <2>2. \A d \in Of("def") : d \in DOMAIN sym' <=> d \in DOMAIN sym
    BY <1>6, <1>7
  <2>3. \A d \in Of("def") \cap DOMAIN sym : sym'[d] = sym[d]
    BY <1>6, <1>7
  <2> QED
    BY <1>1, <1>3, <2>1, <2>2, <2>3, MeaningKept DEF IInv
<1>9. DOMAIN sym' \cap Of("def") = (DOMAIN sym \cup {Next1}) \cap Of("def")
  BY <1>6
<1>10. work' = Visits(nodes[Next1].kids, t) \o Tail(work)
  <2> DEFINE C == [node : DOMAIN nodes, in : Nat]
             s == Visits(nodes[Next1].kids, In)
             r == Tail(work)
  <2>1. s \in Seq(C) /\ \A i \in DOMAIN s : FALSE
    BY <1>2, <1>5 DEF Below
  <2>2. r \in Seq(C)
    <3>1. work \in Seq(C)
      BY <1>1, NextVisit
    <3> HIDE DEF C
    <3> QED
      BY <1>1, <3>1
  <2> HIDE DEF C, s, r
  <2>3. s = <<>>
    <3>1. Len(s) \in Nat /\ DOMAIN s = 1 .. Len(s)
      BY <2>1
    <3>2. Len(s) = 0
      BY <2>1, <3>1
    <3> QED
      BY <2>1, <3>2
  <2>4. s \o r = r
    BY <2>2, <2>3
  <2> QED
    BY <1>4, <2>4 DEF s, r
<1> QED
  BY <1>1, <1>2, <1>4, <1>5, <1>8, <1>9, <1>10, WorkPassed

\* A body has a table of its own: as yet the same is found with it.
LEMMA TypeBodyMeans ==
  ASSUME IInv, KindsOK, TreesOK, ScopesOK, NamesOK, OrderInv, MeansInv, TypeBody
  PROVE  OrderInv' /\ MeansInv'
<1> DEFINE new == Len(tables) + 1
<1>1. /\ pc = "type" /\ work # <<>> /\ nodes[Next1].kind = "body"
      /\ nodes' = nodes /\ prog' = prog /\ sym' = sym
      /\ tables' = Append(tables, [outer |-> In, names |-> <<>>])
      /\ work' = Visits(nodes[Next1].kids, new) \o Tail(work)
  BY DEF TypeBody, Typing, parsing
<1>2. /\ Next1 = work[1].node /\ In = work[1].in /\ 1 \in DOMAIN work /\ Next1 \in DOMAIN nodes
      /\ In \in DOMAIN tables
  BY <1>1, NextVisit
<1>3. ScopesOK'
  BY TypeBodyScopes
<1>4. PICK t, n, v : t = new /\ n = Next1 /\ v = In
  OBVIOUS
<1>5. /\ Len(tables) \in Nat /\ DOMAIN tables = 1 .. Len(tables) /\ t \in Nat /\ t > v /\ v \in 0 .. Len(tables)
      /\ Len(tables') = t /\ DOMAIN tables' = 1 .. t /\ t = Len(tables) + 1
  <2>1. PICK T : tables \in Seq(T)
    BY DEF ScopesOK
  <2>2. Len(tables) \in Nat /\ DOMAIN tables = 1 .. Len(tables)
    BY <2>1
  <2>3. Len(tables') = new /\ DOMAIN tables' = 1 .. new
    BY <1>1, <2>1
  <2> QED
    BY <1>2, <1>4, <2>2, <2>3
<1>6. /\ tables'[t].outer = v /\ DOMAIN tables'[t].names = {}
      /\ \A u \in 1 .. Len(tables) : tables'[u] = tables[u]
  <2> DEFINE table == [outer |-> In, names |-> <<>>]
  <2>1. PICK T : tables \in Seq(T)
    BY DEF ScopesOK
  <2>2. table.outer = In /\ table.names = <<>>
    OBVIOUS
  <2> HIDE DEF table
  <2>3. tables'[new] = table /\ \A u \in 1 .. Len(tables) : tables'[u] = tables[u]
    BY <1>1, <2>1 DEF table
  <2> QED
    BY <1>4, <2>2, <2>3
<1>7. \A name : \A u \in 0 .. Len(tables) : Found(name, u)' = Found(name, u)
  <2> SUFFICES ASSUME NEW name
               PROVE  \A u \in 0 .. Len(tables) : Found(name, u)' = Found(name, u)
    OBVIOUS
  <2> DEFINE N == Len(tables)
  <2>1. N \in Nat /\ N <= Len(tables) /\ N <= Len(tables')
    BY <1>5
  <2>2. \A u \in 1 .. N : tables'[u] = tables[u]
    BY <1>6
  <2> HIDE DEF N
  <2>3. \A u \in 0 .. N : Found(name, u)' = Found(name, u)
    BY <1>3, <2>1, <2>2, SameFound
  <2> QED
    BY <2>3 DEF N
<1>8. \A name : Found(name, t)' = Found(name, v)
  <2>1. FoundEqs'
    <3>1. (ScopesOK => FoundEqs)'
      BY FoundEq, PTL
    <3> QED
      BY <1>3, <3>1
  <2>2. t \in DOMAIN tables'
    BY <1>5
  <2>3. \A name : Found(name, t)' = Found(name, v)'
    BY <1>6, <2>1, <2>2 DEF FoundEqs
  <2> QED
    BY <1>5, <1>7, <2>3
<1>9. Meaning(v, n)
  BY <1>1, <1>2, <1>4 DEF MeansInv
<1>10. ASSUME NEW k \in Kids(Next1)
       PROVE  Meaning(t, k)'
  <2>1. \A d \in Of("def") \cap DOMAIN sym : InFront(d, k) <=> InFront(d, n)
    <3> SUFFICES ASSUME NEW d \in Of("def") \cap DOMAIN sym
                 PROVE  ~ (d \in Kids(n))
      BY <1>1, <1>2, <1>4, InFrontOfKid DEF IInv
    <3>1. Kids(n) \subseteq Tree[n]
      BY <1>2, <1>4, TreeSub DEF IInv, TreesNested
    <3> QED
      BY <1>1, <1>2, <1>4, <3>1, NotYetNamed
  <2> QED
    BY <1>1, <1>8, <1>9, <2>1, MeaningKept DEF IInv
<1>11. ASSUME NEW i \in DOMAIN work, NEW u, NEW m, work[i].in = u, work[i].node = m
       PROVE  Meaning(u, m)'
  <2>1. Meaning(u, m)
    BY <1>1, <1>11 DEF MeansInv
  <2>2. u \in 0 .. Len(tables)
    <3> DEFINE C == [node : DOMAIN nodes, in : DOMAIN tables]
    <3>1. work \in Seq(C)
      BY <1>1, NextTyped
    <3> HIDE DEF C
    <3>2. work[i] \in C
      BY <3>1
    <3> QED
      BY <1>5, <1>11, <3>2 DEF C
  <2>3. \A name : Found(name, u)' = Found(name, u)
    BY <1>7, <2>2
  <2> QED
    BY <1>1, <2>1, <2>3, MeaningKept DEF IInv
<1>12. DOMAIN sym' \cap Of("def") = (DOMAIN sym \cup {Next1}) \cap Of("def")
  BY <1>1 DEF Of
<1>13. work' = Visits(nodes[Next1].kids, t) \o Tail(work) /\ t > In
  BY <1>1, <1>4, <1>5
<1> QED
  BY <1>1, <1>5, <1>10, <1>11, <1>12, <1>13, WorkPassed

\* A definition of the body is visible to itself.
LEMMA InFrontOfItself ==
  ASSUME IInv, KindsOK, TreesOK, pc # "parse", nodes[Root].kind = "function", NEW d \in Of("def") \ (Args \cup {Root})
  PROVE  InFront(d, d)
<1>1. d \in DOMAIN nodes /\ nodes[d].kind = "def"
  BY DEF Of
<1>2. PICK b \in DOMAIN nodes : d \in Kids(b)
  BY <1>1 DEF IInv, RootOK, HasParent
<1>3. b # Root
  <2> SUFFICES ASSUME b = Root
               PROVE  FALSE
    OBVIOUS
  <2>1. nodes[nodes[b].kids[1]].kind = "body" /\ Kids(b) = {nodes[b].kids[1]} \cup Args
    BY <1>2 DEF TreesOK, RootKids
  <2> QED
    BY <1>1, <1>2, <2>1
<1>4. nodes[b].kind = "body"
  BY <1>1, <1>2, <1>3, KidsInside DEF IInv
<1>5. d \in Nat /\ d \in Tree[d]
  BY <1>1, KidsBefore, TreeSub DEF IInv, TreesNested
<1> QED
  BY <1>1, <1>2, <1>4, <1>5 DEF InFront, Of

\* A definition is found where it is visible, and nowhere else.
LEMMA TypeDefMeans ==
  ASSUME IInv, KindsOK, TreesOK, ScopesOK, NamesOK, nodes[Root].kind = "function", OrderInv, MeansInv, TypeDef
  PROVE  OrderInv' /\ MeansInv' /\ Next1 \notin DOMAIN sym
<1> DEFINE new == Len(syms) + 1
<1>1. /\ pc = "type" /\ work # <<>> /\ nodes[Next1].kind = "def"
      /\ nodes' = nodes /\ prog' = prog /\ sym' = Mapped(sym, Next1, new)
      /\ tables' = [tables EXCEPT ![In].names = Mapped(@, nodes[Next1].name, new)]
      /\ work' = Visits(nodes[Next1].kids, In) \o Tail(work)
  BY DEF TypeDef, Typing, parsing
<1>2. /\ Next1 = work[1].node /\ In = work[1].in /\ 1 \in DOMAIN work /\ Next1 \in DOMAIN nodes
      /\ In \in DOMAIN tables /\ In \in Nat
  BY <1>1, NextVisit
<1>3. ScopesOK'
  BY TypeDefScopes
<1>4. PICK d, t, symbol, call : d = Next1 /\ t = In /\ symbol = new /\ call = nodes[Next1].name
  OBVIOUS
<1> HIDE DEF new
<1>5. /\ d \in DOMAIN nodes /\ nodes[d].kind = "def" /\ d \in Of("def") /\ call = nodes[d].name
      /\ t \in DOMAIN tables /\ t \in Nat /\ d = work[1].node /\ t = work[1].in
      /\ sym' = Mapped(sym, d, symbol)
      /\ tables' = [tables EXCEPT ![t].names = Mapped(@, call, symbol)]
  BY <1>1, <1>2, <1>4 DEF Of
<1>6. WorkOrder(work, DOMAIN sym)
  BY <1>1 DEF OrderInv
<1>7. /\ d \notin Args \cup {Root} /\ d \in Tree[d] /\ d \notin DOMAIN sym
      /\ \A e \in Of("def") \cap DOMAIN sym : e < d
      /\ \A e \in Args : e < d
      /\ d \in Nat /\ Of("def") \subseteq Nat
  <2>1. d \notin Args \cup {Root}
    BY <1>2, <1>5, <1>6 DEF WorkOrder, Inner
  <2>2. d \in Tree[d]
    BY <1>5, TreeSub DEF IInv, TreesNested
  <2>3. \A e \in Of("def") \cap DOMAIN sym : e < d
    BY <1>2, <1>5, <1>6, <2>2 DEF WorkOrder, Passed
  <2>4. d \in Nat /\ Of("def") \subseteq Nat
    BY <1>5, KidsBefore DEF IInv, Of
  <2>5. \A e \in Args : e < d
    <3>1. Args = 1 .. Len(prog.args) /\ Len(prog.args) \in Nat
      BY ArgsFacts DEF IInv, Args
    <3>2. d \in 1 .. Len(nodes) /\ Len(nodes) \in Nat
      BY <1>5, KidsBefore DEF IInv
    <3> QED
      BY <2>1, <3>1, <3>2
  <2>6. d \notin DOMAIN sym
    BY <1>5, <2>3, <2>4
  <2> QED
    BY <2>1, <2>2, <2>3, <2>4, <2>5, <2>6
<1>8. InFront(d, d)
  BY <1>1, <1>5, <1>7, InFrontOfItself
<1>9. /\ DOMAIN sym' = DOMAIN sym \cup {d} /\ sym'[d] = symbol
      /\ \A e \in DOMAIN sym : sym'[e] = sym[e]
  BY <1>5, <1>7 DEF Mapped
<1>10. /\ Len(tables) \in Nat /\ DOMAIN tables = 1 .. Len(tables)
       /\ DOMAIN tables' = DOMAIN tables /\ Len(tables') = Len(tables)
  <2>1. PICK T : tables \in Seq(T)
    BY DEF ScopesOK
  <2>2. Len(tables) \in Nat /\ DOMAIN tables = 1 .. Len(tables)
    BY <2>1
  <2>3. PICK U : tables' \in Seq(U)
    BY <1>3 DEF ScopesOK
  <2>4. Len(tables') \in Nat /\ DOMAIN tables' = 1 .. Len(tables')
    BY <2>3
  <2>5. DOMAIN tables' = DOMAIN tables
    BY <1>5
  <2> DEFINE a == Len(tables)
             b == Len(tables')
  <2>6. a \in Nat /\ b \in Nat /\ 1 .. b = 1 .. a
    BY <2>2, <2>4, <2>5
  <2> HIDE DEF a, b
  <2>7. ~ (a < b)
    <3> SUFFICES ASSUME a < b
                 PROVE  FALSE
      OBVIOUS
    <3>1. b \in 1 .. b /\ b \notin 1 .. a
      BY <2>6
    <3> QED
      BY <2>6, <3>1
  <2>8. ~ (b < a)
    <3> SUFFICES ASSUME b < a
                 PROVE  FALSE
      OBVIOUS
    <3>1. a \in 1 .. a /\ a \notin 1 .. b
      BY <2>6
    <3> QED
      BY <2>6, <3>1
  <2>9. a = b
    BY <2>6, <2>7, <2>8
  <2> QED
    BY <2>2, <2>5, <2>9 DEF a, b
<1>11. \A u \in DOMAIN tables :
         /\ u # t => tables'[u] = tables[u]
         /\ tables'[u].outer = tables[u].outer
         /\ u = t => DOMAIN tables'[u].names = DOMAIN tables[u].names \cup {call} /\ tables'[u].names[call] = symbol
         /\ \A name : name # call =>
              /\ name \in DOMAIN tables'[u].names <=> name \in DOMAIN tables[u].names
              /\ name \in DOMAIN tables[u].names => tables'[u].names[name] = tables[u].names[name]
  <2> TAKE u \in DOMAIN tables
  <2> DEFINE table == tables[u]
             names == Mapped(table.names, call, symbol)
  <2>1. {"outer", "names"} \subseteq DOMAIN table
    BY DEF ScopesOK
  <2>2. tables'[u] = IF u = t THEN [table EXCEPT !.names = names] ELSE table
    BY <1>5
  <2>3. /\ DOMAIN names = DOMAIN table.names \cup {call} /\ names[call] = symbol
        /\ \A name \in DOMAIN table.names : name # call => names[name] = table.names[name]
    BY DEF Mapped
  <2> HIDE DEF names, table
  <2>4. u = t => tables'[u].names = names /\ tables'[u].outer = table.outer
    BY <2>1, <2>2
  <2>5. u # t => tables'[u] = table
    BY <2>2
  <2> QED
    BY <2>3, <2>4, <2>5 DEF table
<1>12. \A name, m : Seen(name, m)' =
         {e \in Of("def") : nodes[e].name = name /\ (e \in Args \/ (e \in DOMAIN sym' /\ InFront(e, m)))}
  BY <1>1, SameText
\* The other names mean what they meant.
<1>13. ASSUME NEW u \in 0 .. Len(tables), NEW m, Meaning(u, m), NEW name, name # call
       PROVE  Found(name, u)' = Latest(name, m)'
  <2> DEFINE N == Len(tables)
  <2>1. N \in Nat /\ N <= Len(tables) /\ N <= Len(tables') /\ u \in 0 .. N
    BY <1>10
  <2>2. \A w \in 1 .. N :
           /\ tables'[w].outer = tables[w].outer
           /\ name \in DOMAIN tables'[w].names <=> name \in DOMAIN tables[w].names
           /\ name \in DOMAIN tables[w].names => tables'[w].names[name] = tables[w].names[name]
    BY <1>10, <1>11, <1>13
  <2> HIDE DEF N
  <2>3. Found(name, u)' = Found(name, u)
    BY <1>3, <2>1, <2>2, SameFound
  <2>4. Seen(name, m)' = Seen(name, m)
    <3>1. \A e \in Of("def") : nodes[e].name = name => (e \in DOMAIN sym' <=> e \in DOMAIN sym)
      BY <1>5, <1>9, <1>13
    <3>2. Seen(name, m)' =
            {e \in Of("def") : nodes[e].name = name /\ (e \in Args \/ (e \in DOMAIN sym' /\ InFront(e, m)))}
      BY <1>12
    <3> QED
      BY <3>1, <3>2 DEF Seen
  <2>5. \A e \in Seen(name, m) \ Args : sym'[e] = sym[e]
    BY <1>9 DEF Seen
  <2>6. Latest(name, m)' = Latest(name, m)
    BY <1>1, <2>4, <2>5, LatestSame DEF IInv
  <2> QED
    BY <1>13, <2>3, <2>6 DEF Meaning
\* Where it is visible the name means the new definition.
<1>14. ASSUME NEW m, InFront(d, m)
       PROVE  Found(call, t)' = Latest(call, m)'
  <2>1. FoundEqs'
    <3>1. (ScopesOK => FoundEqs)'
      BY FoundEq, PTL
    <3> QED
      BY <1>3, <3>1
  <2>2. t \in DOMAIN tables' /\ call \in DOMAIN tables'[t].names /\ tables'[t].names[call] = symbol
    BY <1>5, <1>10, <1>11
  <2>3. Found(call, t)' = symbol
    BY <2>1, <2>2 DEF FoundEqs
  <2>4. Seen(call, m)' = {e \in Of("def") : nodes[e].name = call /\ (e \in Args \/ (e \in DOMAIN sym' /\ InFront(e, m)))}
    BY <1>12
  <2> DEFINE S == {e \in Of("def") : nodes[e].name = call /\ (e \in Args \/ (e \in DOMAIN sym' /\ InFront(e, m)))}
  <2>5. d \in S
    BY <1>5, <1>9, <1>14
  <2>6. S \subseteq Nat /\ \A e \in S : e <= d
    BY <1>7, <1>9
  <2> HIDE DEF S
  <2>7. Max(S) = d
    BY <2>5, <2>6, MaxIs
  <2>8. Seen(call, m)' = S
    BY <2>4 DEF S
  <2>9. Latest(call, m)' = SymOf(Max(Seen(call, m)))'
    <3>1. Seen(call, m)' # {}
      BY <2>5, <2>8
    <3> QED
      BY <3>1 DEF Latest
  <2>10. SymOf(Max(Seen(call, m)))' = IF Max(Seen(call, m)') \in Args' THEN Max(Seen(call, m)') ELSE sym'[Max(Seen(call, m)')]
    BY DEF SymOf, Args
  <2>11. SymOf(Max(Seen(call, m)))' = symbol
    <3>1. Args' = Args
      BY <1>1 DEF Args
    <3>2. Max(Seen(call, m)') = d
      BY <2>7, <2>8
    <3> QED
      BY <1>7, <1>9, <2>10, <3>1, <3>2
  <2> QED
    BY <2>3, <2>9, <2>11
\* Around the body it means what it meant.
<1>15. ASSUME NEW u \in 0 .. Len(tables), u < t, NEW m, ~ InFront(d, m), Meaning(u, m)
       PROVE  Found(call, u)' = Latest(call, m)'
  <2>1. u \in Nat /\ u <= Len(tables) /\ u <= Len(tables') /\ u \in 0 .. u
    BY <1>10
  <2>2. \A w \in 1 .. u : tables'[w] = tables[w]
    <3>1. \A w \in 1 .. u : w \in DOMAIN tables /\ w # t
      BY <1>5, <1>10, <1>15, <2>1
    <3> QED
      BY <1>11, <3>1
  <2>3. \A w \in 0 .. u : Found(call, w)' = Found(call, w)
    BY <1>3, <2>1, <2>2, SameFound
  <2>4. Found(call, u)' = Found(call, u)
    BY <2>1, <2>3
  <2>5. Seen(call, m)' = Seen(call, m)
    <3>1. \A e : e \in DOMAIN sym' /\ InFront(e, m) <=> e \in DOMAIN sym /\ InFront(e, m)
      BY <1>9, <1>15
    <3>2. Seen(call, m)' =
            {e \in Of("def") : nodes[e].name = call /\ (e \in Args \/ (e \in DOMAIN sym' /\ InFront(e, m)))}
      BY <1>12
    <3> QED
      BY <3>1, <3>2 DEF Seen
  <2>6. \A e \in Seen(call, m) \ Args : sym'[e] = sym[e]
    BY <1>9 DEF Seen
  <2>7. Latest(call, m)' = Latest(call, m)
    BY <1>1, <2>5, <2>6, LatestSame DEF IInv
  <2> QED
    BY <1>15, <2>4, <2>7 DEF Meaning
<1>16. ASSUME NEW i \in DOMAIN work, NEW u, NEW m, work[i].in = u, work[i].node = m
       PROVE  Meaning(u, m)'
  <2>1. Meaning(u, m)
    BY <1>1, <1>16 DEF MeansInv
  <2>2. u \in 0 .. Len(tables) /\ u \in Nat
    <3> DEFINE C == [node : DOMAIN nodes, in : DOMAIN tables]
    <3>1. work \in Seq(C)
      BY <1>1, NextTyped
    <3> HIDE DEF C
    <3>2. work[i] \in C
      BY <3>1
    <3>3. u \in DOMAIN tables
      BY <1>16, <3>2 DEF C
    <3> QED
      BY <1>10, <3>3
  <2>3. (u = t /\ InFront(d, m)) \/ (u < t /\ ~ InFront(d, m))
    <3>1. CASE i = 1
      BY <1>5, <1>8, <1>16, <3>1
    <3>2. CASE i # 1
      <4>1. 1 < i
        <5> DEFINE C == [node : DOMAIN nodes, in : Nat]
        <5>1. work \in Seq(C)
          BY <1>1, NextVisit
        <5> HIDE DEF C
        <5>2. DOMAIN work = 1 .. Len(work) /\ Len(work) \in Nat
          BY <5>1
        <5> QED
          BY <3>2, <5>2
      <4>2. (u = t <=> InFront(d, m)) /\ u <= t
        BY <1>2, <1>5, <1>6, <1>16, <4>1 DEF WorkOrder, Shared, Outwards
      <4> QED
        BY <1>5, <2>2, <4>2
    <3> QED
      BY <3>1, <3>2
  <2>4. ASSUME NEW name
        PROVE  Found(name, u)' = Latest(name, m)'
    <3>1. CASE name # call
      BY <1>13, <2>1, <2>2, <3>1
    <3>2. CASE name = call /\ u = t /\ InFront(d, m)
      <4>1. Found(call, t)' = Latest(call, m)'
        BY <1>14, <3>2
      <4> QED
        BY <3>2, <4>1
    <3>3. CASE name = call /\ u < t /\ ~ InFront(d, m)
      <4>1. Found(call, u)' = Latest(call, m)'
        BY <1>15, <2>1, <2>2, <3>3
      <4> QED
        BY <3>3, <4>1
    <3> QED
      BY <2>3, <3>1, <3>2, <3>3
  <2> QED
    BY <2>4 DEF Meaning
<1>17. ASSUME NEW k \in Kids(d)
       PROVE  Meaning(t, k)'
  <2>1. \A e : InFront(e, k) <=> InFront(e, d)
    BY <1>5, <1>17, InFrontOfKid DEF IInv
  <2>2. Meaning(t, d)'
    BY <1>2, <1>5, <1>16
  <2>3. \A name : Seen(name, k)' = Seen(name, d)'
    BY <1>12, <2>1
  <2>4. \A name : Latest(name, k)' = Latest(name, d)'
    <3> TAKE name
    <3>1. Seen(name, k)' = Seen(name, d)'
      BY <2>3
    <3> QED
      BY <3>1 DEF Latest, SymOf
  <2> QED
    BY <2>2, <2>4 DEF Meaning
<1>18. DOMAIN sym' \cap Of("def") = (DOMAIN sym \cup {Next1}) \cap Of("def")
  BY <1>4, <1>9
<1>19. work' = Visits(nodes[Next1].kids, t) \o Tail(work) /\ t = In
  BY <1>1, <1>4
<1>20. \A k \in Kids(Next1) : Meaning(t, k)'
  BY <1>4, <1>17
<1> QED
  BY <1>1, <1>4, <1>5, <1>7, <1>16, <1>18, <1>19, <1>20, WorkPassed

\* What is visited first, when the inputs are in the outermost table.
Beginning ==
  /\ nodes # <<>> /\ nodes[Root].kind = "function"
  /\ sym = <<>>
  /\ work = Visits(nodes[nodes[Root].kids[1]].kids, 1)
  /\ tables = <<[outer |-> 0,
                 names |-> [x \in {prog.args[i].name : i \in Args} |->
                              Max({i \in Args : prog.args[i].name = x})]]>>

InOrder == WorkOrder(work, DOMAIN sym)
InputsOnly == \A m : Meaning(1, m)
AllFirst == \A j \in DOMAIN work : work[j].in = 1

LEMMA OrderStart == NodesOK /\ KindsOK /\ TreesOK /\ Beginning => InOrder /\ AllFirst
<1> SUFFICES ASSUME NodesOK, KindsOK, TreesOK, Beginning
             PROVE  InOrder /\ AllFirst
  OBVIOUS
<1> DEFINE body == nodes[Root].kids[1]
<1>1. Root \in DOMAIN nodes
  <2>1. Len(nodes) # 0 /\ Len(nodes) \in Nat /\ DOMAIN nodes = 1 .. Len(nodes)
    BY KidsBefore DEF NodesOK, Beginning
  <2> QED
    BY <2>1 DEF Root
<1>2. body \in DOMAIN nodes
  BY <1>1 DEF TreesOK, RootKids, Beginning
<1> DEFINE C == [node : DOMAIN nodes, in : {1}]
<1>3. work \in Seq(C) /\ Below(work, body, 1)
  BY <1>2, VisitsBelow DEF Beginning
<1>4. \E D : work \in Seq(D)
  <2> HIDE DEF C
  <2> QED
    BY <1>3
<1>5. WorkOrder(work, {})
  BY <1>3, <1>4, WorkStart DEF Beginning
<1>6. DOMAIN sym = {}
  BY DEF Beginning
<1>7. AllFirst
  BY <1>3 DEF Below, AllFirst
<1> QED
  BY <1>5, <1>6, <1>7 DEF InOrder

LEMMA MeansStart == NodesOK /\ KindsOK /\ TreesOK /\ ScopesOK /\ Beginning => InputsOnly
<1> SUFFICES ASSUME NodesOK, KindsOK, TreesOK, ScopesOK, Beginning, NEW m, NEW name
             PROVE  Found(name, 1) = Latest(name, m)
  BY DEF InputsOnly, Meaning
<1> DEFINE names == [x \in {prog.args[i].name : i \in Args} |-> Max({i \in Args : prog.args[i].name = x})]
           S == {i \in Args : prog.args[i].name = name}
<1>1. FoundEqs
  BY FoundEq
<1>2. tables = <<[outer |-> 0, names |-> names]>>
  BY DEF Beginning
<1>3. /\ DOMAIN names = {prog.args[i].name : i \in Args}
      /\ name \in DOMAIN names => names[name] = Max(S)
  OBVIOUS
<1>4. name \in DOMAIN names <=> S # {}
  OBVIOUS
<1> HIDE DEF names
<1>5. 1 \in DOMAIN tables /\ tables[1].outer = 0 /\ tables[1].names = names
  BY <1>2
<1>6. Found(name, 1) = IF S = {} THEN 0 ELSE Max(S)
  <2>1. Found(name, 1) = IF name \in DOMAIN tables[1].names THEN tables[1].names[name] ELSE 0
    BY <1>1, <1>5 DEF FoundEqs
  <2> HIDE DEF S
  <2> QED
    BY <1>3, <1>4, <1>5, <2>1
<1>7. Args \subseteq Of("def")
  BY ArgsFacts DEF KindsOK, Of
<1>8. Seen(name, m) = S
  <2>1. \A d \in Args : nodes[d].name = prog.args[d].name
    BY DEF TreesOK, RootKids
  <2>2. DOMAIN sym = {}
    BY DEF Beginning
  <2> QED
    BY <1>7, <2>1, <2>2 DEF Seen
<1>9. S # {} => SymOf(Max(S)) = Max(S)
  <2>1. S # {} => Max(S) \in S
    BY <1>7, MaxSeen
  <2>2. S \subseteq Args
    OBVIOUS
  <2> HIDE DEF S
  <2> QED
    BY <2>1, <2>2 DEF SymOf, Args
<1> QED
  BY <1>6, <1>8, <1>9 DEF Latest

\* The nodes among the children of a body are the same when the function is added.
LEMMA VisitsSame ==
  ASSUME NEW ids, ToSet(ids) \cap DOMAIN nodes' = ToSet(ids) \cap DOMAIN nodes, NEW t
  PROVE  Visits(ids, t)' = Visits(ids, t)
<1>1. \A i \in DOMAIN ids : ids[i] \in DOMAIN nodes' <=> ids[i] \in DOMAIN nodes
  BY DEF ToSet
<1>2. [i \in DOMAIN ids |-> IF ids[i] \in DOMAIN nodes' THEN <<ids[i]>> ELSE <<>>]
        = [i \in DOMAIN ids |-> IF ids[i] \in DOMAIN nodes THEN <<ids[i]>> ELSE <<>>]
  BY <1>1
<1>3. Among(ids, DOMAIN nodes') = Among(ids, DOMAIN nodes)
  BY <1>2 DEF Among
<1>4. Visits(ids, t)' = LET there == Among(ids, DOMAIN nodes')
                        IN  [i \in DOMAIN there |-> [node |-> there[i], in |-> t]]
  BY DEF Visits, Among
<1> QED
  BY <1>3, <1>4 DEF Visits

LEMMA TypeStarts ==
  ASSUME IInv, KindsOK, TreesOK, SymsOK, ConstructFunction
  PROVE  OrderInv' /\ MeansInv'
<1> DEFINE L == Len(nodes)
           args == [i \in Args |-> i]
           kids == <<stack[1]>> \o args
<1>1. /\ pc = "parse" /\ pc' = "type" /\ prog' = prog /\ Args' = Args /\ sym' = sym
      /\ work' = Visits(nodes[stack[1]].kids, 1)
      /\ tables' = <<[outer |-> 0, names |-> [x \in {prog.args[i].name : i \in Args} |->
                                               Max({i \in Args : prog.args[i].name = x})]]>>
  BY DEF ConstructFunction, Args
<1>2. /\ IInv' /\ Len(nodes') = L + 1 /\ nodes'[L + 1].kids = kids
      /\ \A n \in DOMAIN nodes : nodes'[n] = nodes[n]
  BY ConstructFunctionOK
<1>3. /\ KindsOK' /\ stack[1] \in DOMAIN nodes /\ nodes'[L + 1].kind = "function"
  BY ConstructFunctionKinds
<1>4. TreesOK' /\ ScopesOK'
  BY ConstructFunctionTrees, ConstructFunctionScopes
<1>5. /\ L \in Nat /\ DOMAIN nodes = 1 .. L /\ DOMAIN nodes' = 1 .. L + 1 /\ Root' = L + 1
  BY <1>2, KidsBefore DEF IInv, NodesOK, Root
<1>6. kids[1] = stack[1]
  <2>1. Args = 1 .. Len(prog.args) /\ Len(prog.args) \in Nat
    BY ArgsFacts DEF IInv
  <2>2. stack[1] \in Nat /\ args \in Seq(Nat)
    BY <1>3, <1>5, <2>1
  <2> HIDE DEF args
  <2> QED
    BY <2>2
<1> HIDE DEF kids, L
<1>7. PICK body, ids : body = stack[1] /\ ids = nodes[stack[1]].kids
  OBVIOUS
<1>8. work' = Visits(ids, 1)'
  <2>1. ToSet(ids) \cap DOMAIN nodes' = ToSet(ids) \cap DOMAIN nodes
    <3>1. \A k \in ToSet(ids) : k = 0 \/ k \in DOMAIN nodes
      <4>1. Kids(stack[1]) = ToSet(ids) \ {0} /\ Kids(stack[1]) \subseteq 1 .. stack[1] - 1
        BY <1>3, <1>7, KidsBefore DEF IInv, Kids
      <4>2. 1 .. stack[1] - 1 \subseteq 1 .. L
        BY <1>3, <1>5
      <4> QED
        BY <1>5, <4>1, <4>2
    <3>2. 0 \notin DOMAIN nodes' /\ DOMAIN nodes \subseteq DOMAIN nodes'
      BY <1>5
    <3> QED
      BY <3>1, <3>2
  <2> QED
    BY <1>1, <1>7, <2>1, VisitsSame
<1>9. nodes'[Root'].kids[1] = body /\ nodes'[body].kids = ids /\ nodes'[Root'].kind = "function"
  BY <1>2, <1>3, <1>5, <1>6, <1>7
<1>10. Beginning'
  <2>1. nodes' # <<>>
    BY <1>1, <1>2 DEF IInv, RootOK
  <2>2. sym' = <<>>
    BY <1>1 DEF SymsOK
  <2>3. Visits(ids, 1)' = Visits(nodes[nodes[Root].kids[1]].kids, 1)'
    BY <1>9 DEF Visits
  <2> QED
    BY <1>1, <1>8, <1>9, <2>1, <2>2, <2>3 DEF Beginning
<1>11. InOrder' /\ AllFirst'
  <2>1. (NodesOK /\ KindsOK /\ TreesOK /\ Beginning => InOrder /\ AllFirst)'
    BY OrderStart, PTL
  <2> QED
    BY <1>2, <1>3, <1>4, <1>10, <2>1 DEF IInv
<1>12. InputsOnly'
  <2>1. (NodesOK /\ KindsOK /\ TreesOK /\ ScopesOK /\ Beginning => InputsOnly)'
    BY MeansStart, PTL
  <2> QED
    BY <1>2, <1>3, <1>4, <1>10, <2>1 DEF IInv
<1> QED
  BY <1>11, <1>12 DEF OrderInv, MeansInv, InOrder, AllFirst, InputsOnly

-----------------------------------------------------------------------------
(* What the names mean.                                                    *)

\* A name that was visited has the symbol of the last definition that is visible,
\* and all that are visible were visited.
Resolved(n) ==
  /\ Visible(n) # {} /\ Visible(n) \ Args \subseteq DOMAIN sym
  /\ sym[n] = SymOf(Max(Visible(n)))

LexOK == \A n \in Of("ident") \cap DOMAIN sym : Resolved(n)
RefusedOK == pc = "undeclared" => Visible(Next1) = {}

LEMMA VisibleIs ==
  ASSUME NEW n
  PROVE  Visible(n) = {d \in Of("def") : nodes[d].name = nodes[n].name /\ (d \in Args \/ InFront(d, n))}
BY DEF Visible, InFront, Args

LEMMA VisibleSame ==
  ASSUME nodes' = nodes, prog' = prog, NEW n
  PROVE  Visible(n)' = Visible(n)
<1>1. Tree' = Tree /\ \A kind : Of(kind)' = Of(kind)
  BY DEF Tree, Kids, Of
<1> QED
  BY <1>1 DEF Visible, Kids

\* What a name means does not change.
LEMMA LexKept ==
  ASSUME NodesOK, nodes' = nodes, prog' = prog, NEW n, Visible(n) # {}, Visible(n) \ Args \subseteq DOMAIN sym,
         \A d \in Of("def") \cap DOMAIN sym : d \in DOMAIN sym' /\ sym'[d] = sym[d],
         sym'[n] = SymOf(Max(Visible(n)))
  PROVE  Resolved(n)'
<1>1. Visible(n)' = Visible(n)
  BY VisibleSame
<1>2. Visible(n) \subseteq Of("def")
  BY DEF Visible
<1>3. Max(Visible(n)) \in Visible(n)
  BY <1>2, MaxSeen
<1>4. PICK x : x = Max(Visible(n))
  OBVIOUS
<1>5. Args' = Args
  BY DEF Args
<1>6. SymOf(Max(Visible(n)))' = IF x \in Args THEN x ELSE sym'[x]
  <2>1. SymOf(Max(Visible(n)))' = IF Max(Visible(n)') \in Args' THEN Max(Visible(n)') ELSE sym'[Max(Visible(n)')]
    BY DEF SymOf, Args
  <2> QED
    BY <1>1, <1>4, <1>5, <2>1
<1>7. SymOf(Max(Visible(n))) = IF x \in Args THEN x ELSE sym[x]
  BY <1>4 DEF SymOf, Args
<1>8. x \notin Args => sym'[x] = sym[x]
  BY <1>2, <1>3, <1>4
<1>9. Visible(n)' \ Args' \subseteq DOMAIN sym'
  BY <1>1, <1>2, <1>5
<1>10. sym'[n] = SymOf(Max(Visible(n)))'
  BY <1>6, <1>7, <1>8
<1> QED
  BY <1>1, <1>9, <1>10 DEF Resolved

LEMMA LexStays ==
  ASSUME NodesOK, nodes' = nodes, prog' = prog, LexOK,
         DOMAIN sym' \cap Of("ident") = DOMAIN sym \cap Of("ident"),
         \A n \in DOMAIN sym : n \in DOMAIN sym' /\ sym'[n] = sym[n]
  PROVE  LexOK'
<1>1. Of("ident")' = Of("ident")
  BY DEF Of
<1>2. ASSUME NEW n \in Of("ident") \cap DOMAIN sym'
      PROVE  Resolved(n)'
  <2>1. Resolved(n) /\ n \in DOMAIN sym
    BY DEF LexOK
  <2> QED
    BY <2>1, LexKept DEF Resolved
<1> QED
  BY <1>1, <1>2 DEF LexOK

\* All that is visible to the name that is visited next was visited.
LEMMA NextSeen ==
  ASSUME IInv, ScopesOK, NamesOK, OrderInv, MeansInv, pc = "type", work # <<>>, nodes[Next1].kind = "ident"
  PROVE  LET found == Found(nodes[Next1].name, In)
         IN  /\ Visible(Next1) \ Args \subseteq DOMAIN sym
             /\ found = 0 => Visible(Next1) = {}
             /\ found # 0 => Visible(Next1) # {} /\ found = SymOf(Max(Visible(Next1)))
<1> DEFINE V == Visible(Next1)
<1>1. /\ Next1 = work[1].node /\ In = work[1].in /\ 1 \in DOMAIN work /\ Next1 \in DOMAIN nodes
  BY NextVisit
<1>2. WorkOrder(work, DOMAIN sym)
  BY DEF OrderInv
<1>3. \A d \in Of("def") : InFront(d, Next1) => d \in DOMAIN sym
  <2> SUFFICES ASSUME NEW d \in Of("def"), InFront(d, Next1), d \notin DOMAIN sym
               PROVE  FALSE
    OBVIOUS
  <2>1. PICK i \in 1 .. 1 : work[i].node = d
    BY <1>1, <1>2 DEF WorkOrder, Awaited
  <2>2. d = Next1
    BY <1>1, <2>1
  <2> QED
    BY <2>2 DEF Of
<1>4. V = {d \in Of("def") : nodes[d].name = nodes[Next1].name /\ (d \in Args \/ InFront(d, Next1))}
  BY VisibleIs
<1>5. V \ Args \subseteq DOMAIN sym
  BY <1>3, <1>4
<1>6. V = Seen(nodes[Next1].name, Next1)
  BY <1>3, <1>4 DEF Seen
<1>7. Found(nodes[Next1].name, In) = Latest(nodes[Next1].name, Next1)
  BY <1>1 DEF MeansInv, Meaning
<1> HIDE DEF V
<1>8. V # {} => SymOf(Max(V)) # 0
  <2> SUFFICES ASSUME V # {}
               PROVE  SymOf(Max(V)) # 0
    OBVIOUS
  <2>1. V \subseteq Of("def") /\ Max(V) \in V
    BY <1>4, MaxSeen DEF IInv
  <2>2. CASE Max(V) \in Args
    <3>1. Args = 1 .. Len(prog.args) /\ Len(prog.args) \in Nat
      BY ArgsFacts DEF IInv
    <3>2. SymOf(Max(V)) = Max(V)
      BY <2>2 DEF SymOf, Args
    <3> QED
      BY <2>2, <3>1, <3>2
  <2>3. CASE Max(V) \notin Args
    <3>1. SymOf(Max(V)) = sym[Max(V)] /\ Max(V) \in DOMAIN sym
      BY <1>5, <2>1, <2>3 DEF SymOf, Args
    <3>2. \A i \in DOMAIN syms : i # 0
      <4>1. PICK T : syms \in Seq(T)
        BY DEF ScopesOK
      <4> QED
        BY <4>1
    <3> QED
      BY <3>1, <3>2 DEF ScopesOK
  <2> QED
    BY <2>2, <2>3
<1> QED
  BY <1>5, <1>6, <1>7, <1>8 DEF Latest, V

LEMMA TypeIdentLex ==
  ASSUME IInv, ScopesOK, NamesOK, OrderInv, MeansInv, LexOK, TypeIdent
  PROVE  LexOK' /\ RefusedOK'
<1> DEFINE found == Found(nodes[Next1].name, In)
<1>1. /\ pc = "type" /\ work # <<>> /\ nodes[Next1].kind = "ident" /\ nodes' = nodes /\ prog' = prog
      /\ \/ found = 0 /\ pc' = "undeclared" /\ sym' = sym /\ work' = work
         \/ found # 0 /\ sym' = Mapped(sym, Next1, found) /\ pc' = pc
  BY DEF TypeIdent, Typing, parsing
<1>2. /\ Visible(Next1) \ Args \subseteq DOMAIN sym
      /\ found = 0 => Visible(Next1) = {}
      /\ found # 0 => Visible(Next1) # {} /\ found = SymOf(Max(Visible(Next1)))
  BY <1>1, NextSeen
<1> HIDE DEF found
<1>3. CASE found = 0
  <2>1. pc' = "undeclared" /\ sym' = sym /\ work' = work
    BY <1>1, <1>3
  <2>2. LexOK'
    BY <1>1, <2>1, LexStays DEF IInv
  <2>3. PICK n : n = Next1
    OBVIOUS
  <2>4. Next1' = n
    BY <2>1, <2>3 DEF Next1
  <2>5. Visible(n)' = {}
    BY <1>1, <1>2, <1>3, <2>3, VisibleSame
  <2>6. Visible(Next1)' = {}
    BY <2>4, <2>5 DEF Visible
  <2> QED
    BY <2>2, <2>6 DEF RefusedOK
<1>4. CASE found # 0
  <2>1. sym' = Mapped(sym, Next1, found) /\ pc' = "type"
    BY <1>1, <1>4
  <2>2. PICK n : n = Next1
    OBVIOUS
  <2>3. /\ DOMAIN sym' = DOMAIN sym \cup {n} /\ sym'[n] = found
        /\ \A d \in DOMAIN sym : d # n => sym'[d] = sym[d]
    BY <2>1, <2>2 DEF Mapped
  <2>4. n \notin Of("def")
    BY <1>1, <2>2 DEF Of
  <2>5. Resolved(n)'
    BY <1>1, <1>2, <1>4, <2>2, <2>3, <2>4, LexKept DEF IInv
  <2>6. ASSUME NEW m \in Of("ident") \cap DOMAIN sym', m # n
        PROVE  Resolved(m)'
    <3>1. Resolved(m) /\ m \in DOMAIN sym /\ sym'[m] = sym[m]
      BY <2>3, <2>6 DEF LexOK
    <3> QED
      BY <1>1, <2>3, <2>4, <3>1, LexKept DEF IInv, Resolved
  <2>7. Of("ident")' = Of("ident")
    BY <1>1 DEF Of
  <2> QED
    BY <2>1, <2>5, <2>6, <2>7 DEF LexOK, RefusedOK
<1> QED
  BY <1>3, <1>4

LEMMA TypeDefLex ==
  ASSUME IInv, LexOK, TypeDef, Next1 \notin DOMAIN sym
  PROVE  LexOK'
<1>1. /\ nodes[Next1].kind = "def" /\ nodes' = nodes /\ prog' = prog
      /\ sym' = Mapped(sym, Next1, Len(syms) + 1)
  BY DEF TypeDef, Typing, parsing
<1>2. DOMAIN sym' = DOMAIN sym \cup {Next1} /\ \A n \in DOMAIN sym : sym'[n] = sym[n]
  BY <1>1 DEF Mapped
<1>3. Next1 \notin Of("ident")
  BY <1>1 DEF Of
<1> QED
  BY <1>1, <1>2, <1>3, LexStays DEF IInv

ScopeInv == TypedInv /\ TreesOK /\ OrderInv /\ MeansInv /\ LexOK /\ RefusedOK

LEMMA InitScope ==
  ASSUME Init
  PROVE  ScopeInv
<1>1. TypedInv /\ TreesOK
  BY InitTyped, InitTrees
<1>2. pc = "parse" /\ sym = <<>>
  BY DEF Init
<1> QED
  BY <1>1, <1>2 DEF ScopeInv, OrderInv, MeansInv, LexOK, RefusedOK

LEMMA NextScope ==
  ASSUME ScopeInv, [Next]_vars
  PROVE  ScopeInv'
<1>1. TypedInv' /\ TreesOK'
  BY NextTypedInv, NextTrees DEF ScopeInv, TypedInv
<1>2. CASE LeaveOut \/ Construct \/ ConstructLookup \/ ConstructCompound
  <2>1. pc = "parse" /\ pc' = "parse" /\ sym' = sym
    BY <1>2 DEF LeaveOut, Construct, ConstructLookup, ConstructCompound, Parsing, scopes
  <2>2. sym' = <<>>
    BY <2>1 DEF ScopeInv, TypedInv, SymsOK
  <2> QED
    BY <1>1, <2>1, <2>2 DEF ScopeInv, OrderInv, MeansInv, LexOK, RefusedOK
<1>3. CASE ConstructFunction
  <2>1. OrderInv' /\ MeansInv'
    BY <1>3, TypeStarts DEF ScopeInv, TypedInv
  <2>2. sym' = <<>> /\ pc' = "type"
    BY <1>3 DEF ScopeInv, TypedInv, SymsOK, ConstructFunction
  <2> QED
    BY <1>1, <2>1, <2>2 DEF ScopeInv, LexOK, RefusedOK
<1>4. CASE TypeDef \/ TypeIdent \/ TypeBody \/ TypeOther
  <2>1. pc = "type"
    BY <1>4 DEF TypeDef, TypeIdent, TypeBody, TypeOther, Typing
  <2>2. IInv /\ KindsOK /\ ScopesOK /\ NamesOK /\ nodes[Root].kind = "function" /\ TreesOK /\ OrderInv /\ MeansInv /\ LexOK
    BY <2>1 DEF ScopeInv, TypedInv, SymsOK
  <2>3. CASE TypeDef
    <3>1. OrderInv' /\ MeansInv' /\ Next1 \notin DOMAIN sym
      BY <2>2, <2>3, TypeDefMeans
    <3>2. LexOK'
      BY <2>2, <2>3, <3>1, TypeDefLex
    <3>3. pc' = "type"
      BY <2>1, <2>3 DEF TypeDef
    <3> QED
      BY <1>1, <3>1, <3>2, <3>3 DEF ScopeInv, RefusedOK
  <2>4. CASE TypeIdent
    <3>1. OrderInv' /\ MeansInv'
      BY <2>2, <2>4, TypeIdentMeans
    <3>2. LexOK' /\ RefusedOK'
      BY <2>2, <2>4, TypeIdentLex
    <3> QED
      BY <1>1, <3>1, <3>2 DEF ScopeInv
  <2>5. CASE TypeBody
    <3>1. OrderInv' /\ MeansInv'
      BY <2>2, <2>5, TypeBodyMeans
    <3>2. pc' = "type" /\ nodes' = nodes /\ prog' = prog /\ sym' = sym
      BY <2>1, <2>5 DEF TypeBody, parsing
    <3>3. LexOK'
      BY <2>2, <3>2, LexStays DEF IInv
    <3> QED
      BY <1>1, <3>1, <3>2, <3>3 DEF ScopeInv, RefusedOK
  <2>6. CASE TypeOther
    <3>1. OrderInv' /\ MeansInv'
      BY <2>2, <2>6, TypeOtherMeans
    <3>2. pc' = "type" /\ nodes' = nodes /\ prog' = prog /\ sym' = sym
      BY <2>1, <2>6 DEF TypeOther, parsing, scopes
    <3>3. LexOK'
      BY <2>2, <3>2, LexStays DEF IInv
    <3> QED
      BY <1>1, <3>1, <3>2, <3>3 DEF ScopeInv, RefusedOK
  <2> QED
    BY <1>4, <2>3, <2>4, <2>5, <2>6
<1>5. CASE TypeCheck \/ Eliminate \/ Generate \/ StartDelete \/ Delete \/ Finish
  <2>1. /\ nodes' = nodes /\ prog' = prog /\ sym' = sym
        /\ pc' \notin {"type", "undeclared"}
    BY <1>5 DEF TypeCheck, Eliminate, Generate, StartDelete, Delete, Finish, parsing, scopes
  <2>2. LexOK'
    BY <2>1, LexStays DEF ScopeInv, TypedInv, IInv
  <2> QED
    BY <1>1, <2>1, <2>2 DEF ScopeInv, OrderInv, MeansInv, RefusedOK
<1>6. CASE UNCHANGED vars
  <2>1. UNCHANGED <<pc, prog, nodes, sym, tables, work>>
    BY <1>6 DEF vars, parsing, scopes
  <2>2. LexOK'
    BY <2>1, LexStays DEF ScopeInv, TypedInv, IInv
  <2>3. OrderInv'
    <3>1. work' = work /\ DOMAIN sym' = DOMAIN sym /\ nodes' = nodes /\ prog' = prog /\ pc' = pc
      BY <2>1
    <3> QED
      BY <3>1, SameText DEF ScopeInv, OrderInv
  <2>4. \A t, m : Meaning(t, m)' <=> Meaning(t, m)
    <3>1. Tree' = Tree
      BY <2>1 DEF Tree, Kids
    <3> QED
      BY <2>1, <3>1 DEF Meaning, Found, Latest, Seen, SymOf, Of, InFront, Kids, Args
  <2>5. MeansInv'
    BY <2>1, <2>4 DEF ScopeInv, MeansInv
  <2>6. RefusedOK'
    <3> SUFFICES ASSUME pc = "undeclared"
                 PROVE  Visible(Next1)' = {}
      BY <2>1 DEF RefusedOK
    <3>1. PICK n : n = Next1
      OBVIOUS
    <3>2. Next1' = n
      BY <2>1, <3>1 DEF Next1
    <3>3. Visible(n)' = {}
      BY <2>1, <3>1, VisibleSame DEF ScopeInv, RefusedOK
    <3> QED
      BY <3>2, <3>3 DEF Visible
  <2> QED
    BY <1>1, <2>2, <2>3, <2>5, <2>6 DEF ScopeInv
<1> QED
  BY <1>2, <1>3, <1>4, <1>5, <1>6 DEF Next, Stutter

\* In every program a name means the last definition in its scope, and a program
\* is refused for a name exactly when there is none: whatever is nested, shadowed,
\* copied by compound assignments or cut off (type_visitor and SymbolTable).
THEOREM EveryNameLexical == Spec => []Lexical
<1>1. Init => ScopeInv
  BY InitScope
<1>2. ScopeInv /\ [Next]_vars => ScopeInv'
  BY NextScope
<1>3. ScopeInv => Lexical
  BY DEF ScopeInv, TypedInv, NamesOK, LexOK, Resolved, RefusedOK, Lexical
<1> QED
  BY <1>1, <1>2, <1>3, PTL DEF Spec

-----------------------------------------------------------------------------
(* The order in which code is generated.                                   *)

\* The bodies are cut from behind.
CutOK ==
  pc # "parse" =>
    \A b \in Of("body") :
      b \in DOMAIN stmts /\ \E len \in 0 .. Len(nodes[b].kids) : stmts[b] = SubSeq(nodes[b].kids, 1, len)

LEMMA KidsSeq ==
  ASSUME NodesOK, NEW n \in DOMAIN nodes
  PROVE  nodes[n].kids \in Seq(Nat)
<1> DEFINE ids == nodes[n].kids
<1>1. n \in Nat
  BY KidsBefore
<1>2. Len(ids) \in Nat /\ DOMAIN ids = 1 .. Len(ids) /\ \A i \in DOMAIN ids : ids[i] \in 0 .. n - 1
  BY KidsFacts
<1>3. \A i \in DOMAIN ids : ids[i] \in Nat
  BY <1>1, <1>2
<1>4. \E T : ids \in Seq(T)
  BY DEF NodesOK
<1> HIDE DEF ids
<1>5. ids = [i \in 1 .. Len(ids) |-> ids[i]]
  BY <1>2, <1>4
<1>6. ids \in Seq(Nat)
  BY <1>2, <1>3, <1>5
<1> QED
  BY <1>6 DEF ids

\* The precondition and the operands of the condition come before the condition.
LEMMA PreparedFacts ==
  ASSUME NodesOK, NEW p, NEW c, p = 0 \/ p \in DOMAIN nodes, c \in DOMAIN nodes
  PROVE  /\ Prepared(p, c) \in Seq(Nat)
         /\ \A m \in ToSet(Prepared(p, c)) \ {0} : (p # 0 /\ m \in Kids(p)) \/ m \in Kids(c)
<1>1. CASE p = 0
  <2>1. Prepared(p, c) = <<>>
    BY <1>1 DEF Prepared
  <2>2. ToSet(<<>>) = {}
    BY DEF ToSet
  <2> QED
    BY <2>1, <2>2
<1>2. CASE p # 0
  <2> DEFINE x == nodes[p].kids
             y == nodes[c].kids
  <2>1. x \in Seq(Nat) /\ y \in Seq(Nat)
    BY <1>2, KidsSeq
  <2>2. Kids(p) = ToSet(x) \ {0} /\ Kids(c) = ToSet(y) \ {0} /\ Prepared(p, c) = x \o y
    BY <1>2 DEF Kids, Prepared
  <2> HIDE DEF x, y
  <2>3. x \o y \in Seq(Nat) /\ ToSet(x \o y) = ToSet(x) \cup ToSet(y)
    BY <2>1, ConcatElements
  <2> QED
    BY <1>2, <2>2, <2>3
<1> QED
  BY <1>1, <1>2

\* Code is generated for the children, and before that for some of the operands of
\* a condition.
Reached(n) ==
  Kids(n) \cup UNION {Kids(k) : k \in {c \in Kids(n) : nodes[c].kind \in Flat /\ nodes[n].kind \in {"if", "for"}}}

LEMMA OrderIf ==
  ASSUME NodesOK, KindsOK, NEW n \in DOMAIN nodes, nodes[n].kind = "if"
  PROVE  Order(n) \in Seq(Nat) /\ ToSet(Order(n)) \ {0} \subseteq Reached(n)
<1> DEFINE k == nodes[n].kids
<1>1. Len(k) = Len(Parts("if")) /\ \A i \in DOMAIN k : KindIn(nodes, k[i]) \in Parts("if")[i]
  BY PartKinds
<1>2. /\ Len(k) \in Nat /\ DOMAIN k = 1 .. Len(k) /\ \A i \in DOMAIN k : k[i] = 0 \/ k[i] \in Kids(n)
      /\ k \in Seq(Nat)
  BY KidsFacts, KidsSeq
<1> HIDE DEF k
<1>3. Len(k) = 4 /\ Parts("if")[1] = {"precond", "null"} /\ Parts("if")[2] = Expr
  BY <1>1 DEF Parts, Opt
<1>4. 1 \in DOMAIN k /\ 2 \in DOMAIN k /\ 3 \in DOMAIN k /\ 4 \in DOMAIN k
  BY <1>2, <1>3
<1>5. /\ k[1] # 0 => k[1] \in Kids(n) /\ nodes[k[1]].kind \in Flat
      /\ k[2] \in Kids(n) /\ nodes[k[2]].kind \in Flat
  <2>1. KindIn(nodes, k[1]) \in {"precond", "null"} /\ KindIn(nodes, k[2]) \in Expr
    BY <1>1, <1>3, <1>4
  <2>2. k[2] # 0
    BY <2>1 DEF KindIn, Expr
  <2>3. k[1] # 0 => nodes[k[1]].kind \in {"precond", "null"}
    BY <2>1 DEF KindIn
  <2>4. k[1] # 0 => nodes[k[1]].kind # "null"
    <3> SUFFICES ASSUME k[1] # 0
                 PROVE  nodes[k[1]].kind # "null"
      OBVIOUS
    <3>1. k[1] \in DOMAIN nodes
      BY <1>2, <1>4, KidKinds
    <3>2. nodes[k[1]].kind \in Expr \cup Stmts \cup {"precond", "body", "function"}
      BY <3>1 DEF KindsOK, WellShaped
    <3> QED
      BY <3>2 DEF Expr, Stmts
  <2> QED
    BY <1>2, <1>4, <2>1, <2>2, <2>3, <2>4 DEF KindIn, Flat
<1>6. (k[1] = 0 \/ k[1] \in DOMAIN nodes) /\ k[2] \in DOMAIN nodes
  BY <1>5, KidKinds
<1> DEFINE x == Prepared(k[1], k[2])
           y == <<k[2], k[3], k[4]>>
<1>7. Order(n) = x \o y
  BY DEF Order, k
<1>8. x \in Seq(Nat) /\ \A m \in ToSet(x) \ {0} : (k[1] # 0 /\ m \in Kids(k[1])) \/ m \in Kids(k[2])
  BY <1>6, PreparedFacts
<1>9. y \in Seq(Nat) /\ ToSet(y) = {k[2], k[3], k[4]}
  <2>1. k[2] \in Nat /\ k[3] \in Nat /\ k[4] \in Nat
    BY <1>2, <1>4
  <2> QED
    BY <2>1 DEF ToSet
<1> HIDE DEF x, y
<1>10. x \o y \in Seq(Nat) /\ ToSet(x \o y) = ToSet(x) \cup ToSet(y)
  BY <1>8, <1>9, ConcatElements
<1>11. ToSet(y) \ {0} \subseteq Kids(n)
  <2>1. (k[2] = 0 \/ k[2] \in Kids(n)) /\ (k[3] = 0 \/ k[3] \in Kids(n)) /\ (k[4] = 0 \/ k[4] \in Kids(n))
    BY <1>2, <1>4
  <2>2. ToSet(y) = {k[2], k[3], k[4]}
    BY <1>9
  <2> QED
    BY <2>1, <2>2
<1>12. ToSet(x) \ {0} \subseteq Reached(n)
  BY <1>5, <1>8 DEF Reached
<1> QED
  BY <1>7, <1>10, <1>11, <1>12 DEF Reached

LEMMA OrderFor ==
  ASSUME NodesOK, KindsOK, NEW n \in DOMAIN nodes, nodes[n].kind = "for"
  PROVE  Order(n) \in Seq(Nat) /\ ToSet(Order(n)) \ {0} \subseteq Reached(n)
<1> DEFINE k == nodes[n].kids
<1>1. Len(k) = Len(Parts("for")) /\ \A i \in DOMAIN k : KindIn(nodes, k[i]) \in Parts("for")[i]
  BY PartKinds
<1>2. /\ Len(k) \in Nat /\ DOMAIN k = 1 .. Len(k) /\ \A i \in DOMAIN k : k[i] = 0 \/ k[i] \in Kids(n)
      /\ k \in Seq(Nat)
  BY KidsFacts, KidsSeq
<1> DEFINE z == IF EndsInJump[k[5]] THEN <<>> ELSE <<k[4]>>
           x == Prepared(k[1], k[3])
           y == <<k[3], k[5]>>
           v == <<k[2]>>
<1>3. Order(n) = v \o x \o y \o z
  BY DEF Order
<1> HIDE DEF k
<1>4. Len(k) = 5 /\ Parts("for")[1] = {"precond", "null"} /\ Parts("for")[3] = Expr
  BY <1>1 DEF Parts, Opt
<1>5. 1 \in DOMAIN k /\ 2 \in DOMAIN k /\ 3 \in DOMAIN k /\ 4 \in DOMAIN k /\ 5 \in DOMAIN k
  BY <1>2, <1>4
<1>6. /\ k[1] # 0 => k[1] \in Kids(n) /\ nodes[k[1]].kind \in Flat
      /\ k[3] \in Kids(n) /\ nodes[k[3]].kind \in Flat
  <2>1. KindIn(nodes, k[1]) \in {"precond", "null"} /\ KindIn(nodes, k[3]) \in Expr
    BY <1>1, <1>4, <1>5
  <2>2. k[3] # 0
    BY <2>1 DEF KindIn, Expr
  <2>3. k[1] # 0 => nodes[k[1]].kind \in {"precond", "null"}
    BY <2>1 DEF KindIn
  <2>4. k[1] # 0 => nodes[k[1]].kind # "null"
    <3> SUFFICES ASSUME k[1] # 0
                 PROVE  nodes[k[1]].kind # "null"
      OBVIOUS
    <3>1. k[1] \in DOMAIN nodes
      BY <1>2, <1>5, KidKinds
    <3>2. nodes[k[1]].kind \in Expr \cup Stmts \cup {"precond", "body", "function"}
      BY <3>1 DEF KindsOK, WellShaped
    <3> QED
      BY <3>2 DEF Expr, Stmts
  <2> QED
    BY <1>2, <1>5, <2>1, <2>2, <2>3, <2>4 DEF KindIn, Flat
<1>7. (k[1] = 0 \/ k[1] \in DOMAIN nodes) /\ k[3] \in DOMAIN nodes
  BY <1>6, KidKinds
<1>8. x \in Seq(Nat) /\ \A m \in ToSet(x) \ {0} : (k[1] # 0 /\ m \in Kids(k[1])) \/ m \in Kids(k[3])
  BY <1>7, PreparedFacts
<1>9. k[2] \in Nat /\ k[3] \in Nat /\ k[4] \in Nat /\ k[5] \in Nat
  BY <1>2, <1>5
<1>10. /\ v \in Seq(Nat) /\ ToSet(v) = {k[2]} /\ y \in Seq(Nat) /\ ToSet(y) = {k[3], k[5]}
       /\ z \in Seq(Nat) /\ ToSet(z) \subseteq {k[4]}
  <2>1. v \in Seq(Nat) /\ ToSet(v) = {k[2]} /\ y \in Seq(Nat) /\ ToSet(y) = {k[3], k[5]}
    BY <1>9 DEF ToSet
  <2>2. <<>> \in Seq(Nat) /\ ToSet(<<>>) = {} /\ <<k[4]>> \in Seq(Nat) /\ ToSet(<<k[4]>>) = {k[4]}
    BY <1>9 DEF ToSet
  <2>3. z = <<>> \/ z = <<k[4]>>
    OBVIOUS
  <2> HIDE DEF z
  <2> QED
    BY <2>1, <2>2, <2>3
<1> HIDE DEF v, x, y, z
<1>11. v \o x \in Seq(Nat) /\ ToSet(v \o x) = ToSet(v) \cup ToSet(x)
  BY <1>8, <1>10, ConcatElements
<1> DEFINE vx == v \o x
           vxy == vx \o y
<1>12. vxy \in Seq(Nat) /\ ToSet(vxy) = ToSet(v) \cup ToSet(x) \cup ToSet(y)
  <2>1. vx \in Seq(Nat) /\ y \in Seq(Nat)
    BY <1>10, <1>11
  <2>2. ToSet(vx) = ToSet(v) \cup ToSet(x)
    BY <1>11
  <2> HIDE DEF vx
  <2>3. vx \o y \in Seq(Nat) /\ ToSet(vx \o y) = ToSet(vx) \cup ToSet(y)
    BY <2>1, ConcatElements
  <2> QED
    BY <2>2, <2>3
<1>13. vxy \o z \in Seq(Nat) /\ ToSet(vxy \o z) = ToSet(vxy) \cup ToSet(z)
  <2>1. vxy \in Seq(Nat) /\ z \in Seq(Nat)
    BY <1>10, <1>12
  <2> HIDE DEF vxy
  <2> QED
    BY <2>1, ConcatElements
<1>20. Order(n) = vxy \o z
  BY <1>3
<1> HIDE DEF vx, vxy
<1>14. Order(n) \in Seq(Nat) /\ ToSet(Order(n)) = ToSet(v) \cup ToSet(x) \cup ToSet(y) \cup ToSet(z)
  BY <1>12, <1>13, <1>20
<1>15. (ToSet(v) \cup ToSet(y) \cup ToSet(z)) \ {0} \subseteq Kids(n)
  BY <1>2, <1>5, <1>10
<1>16. ToSet(x) \ {0} \subseteq Reached(n)
  BY <1>6, <1>8 DEF Reached
<1> QED
  BY <1>14, <1>15, <1>16 DEF Reached

LEMMA OrderBody ==
  ASSUME NodesOK, CutOK, pc # "parse", NEW n \in DOMAIN nodes, nodes[n].kind = "body"
  PROVE  /\ Order(n) = stmts[n] /\ stmts[n] \in Seq(Nat) /\ ToSet(stmts[n]) \ {0} \subseteq Kids(n)
         /\ Len(stmts[n]) \in 0 .. Len(nodes[n].kids)
         /\ \A i \in 1 .. Len(stmts[n]) : stmts[n][i] = nodes[n].kids[i]
<1> DEFINE k == nodes[n].kids
<1>1. k \in Seq(Nat) /\ Kids(n) = ToSet(k) \ {0}
  BY KidsSeq DEF Kids
<1>2. PICK len \in 0 .. Len(k) : stmts[n] = SubSeq(k, 1, len)
  BY DEF CutOK, Of
<1> HIDE DEF k
<1>3. SubSeq(k, 1, len) \in Seq(Nat) /\ Len(SubSeq(k, 1, len)) = len /\ \A i \in 1 .. len : SubSeq(k, 1, len)[i] = k[i]
  BY <1>1
<1>4. ToSet(SubSeq(k, 1, len)) \subseteq ToSet(k)
  BY <1>1, <1>3 DEF ToSet
<1> QED
  BY <1>1, <1>2, <1>3, <1>4 DEF Order, k

LEMMA OrderFacts ==
  ASSUME NodesOK, KindsOK, CutOK, pc # "parse", NEW n \in DOMAIN nodes
  PROVE  Order(n) \in Seq(Nat) /\ ToSet(Order(n)) \ {0} \subseteq Reached(n)
<1>1. CASE nodes[n].kind = "if"
  BY <1>1, OrderIf
<1>2. CASE nodes[n].kind = "for"
  BY <1>2, OrderFor
<1>3. CASE nodes[n].kind = "body"
  BY <1>3, OrderBody DEF Reached
<1>4. CASE nodes[n].kind \notin {"if", "for", "body"}
  <2>1. Order(n) = nodes[n].kids
    BY <1>4 DEF Order
  <2> QED
    BY <2>1, KidsSeq DEF Kids, Reached
<1> QED
  BY <1>1, <1>2, <1>3, <1>4

\* The trees of the parts of a block have nothing in common.
LEMMA Siblings ==
  ASSUME NodesOK, TreesOK, NEW n \in DOMAIN nodes, nodes[n].kind \in Blocks,
         NEW a \in Kids(n), NEW c \in Kids(n), NEW x, x \in Tree[a], x \in Tree[c]
  PROVE  a = c
<1>1. \A i, j \in DOMAIN nodes[n].kids :
        i < j /\ nodes[n].kids[j] # 0 => \A m \in Tree[nodes[n].kids[j]] : m > nodes[n].kids[i]
  BY DEF TreesOK, KidsOrder
<1>2. PICK i \in DOMAIN nodes[n].kids : nodes[n].kids[i] = a
  BY KidsFacts
<1>3. PICK j \in DOMAIN nodes[n].kids : nodes[n].kids[j] = c
  BY KidsFacts
<1>4. a # 0 /\ c # 0 /\ i \in Nat /\ j \in Nat
  BY <1>2, <1>3, KidsFacts
<1>5. a \in DOMAIN nodes /\ c \in DOMAIN nodes /\ DOMAIN nodes \subseteq Nat
  <2>1. Kids(n) \subseteq 1 .. n - 1 /\ n \in 1 .. Len(nodes) /\ Len(nodes) \in Nat /\ DOMAIN nodes = 1 .. Len(nodes)
    BY KidsBefore
  <2>2. 1 .. n - 1 \subseteq 1 .. Len(nodes)
    BY <2>1
  <2> QED
    BY <2>1, <2>2
<1>6. x <= a /\ x <= c /\ x \in Nat
  BY <1>5, TreeSub DEF TreesNested
<1>7. ~ (i < j)
  BY <1>1, <1>2, <1>3, <1>4, <1>5, <1>6
<1>8. ~ (j < i)
  BY <1>1, <1>2, <1>3, <1>4, <1>5, <1>6
<1> QED
  BY <1>2, <1>3, <1>4, <1>7, <1>8

\* What is left of a body is visited in the order of the text, from the first
\* statement on.
LEMMA BodyVisits ==
  ASSUME NodesOK, KindsOK, TreesOK, CutOK, pc # "parse", NEW n \in DOMAIN nodes, nodes[n].kind = "body",
         NEW k \in DOMAIN Visits(stmts[n], 0), NEW d \in Kids(n), d <= Visits(stmts[n], 0)[k].node
  PROVE  \E g \in 1 .. k : Visits(stmts[n], 0)[g].node = d
<1> DEFINE ids == stmts[n]
           kids == nodes[n].kids
           there == Among(ids, DOMAIN nodes)
           s == Visits(ids, 0)
           R == {p \in Nat \X Nat : p[1] < p[2]}
<1>1. /\ ids \in Seq(Nat) /\ ToSet(ids) \ {0} \subseteq Kids(n)
      /\ Len(ids) \in 0 .. Len(kids) /\ \A i \in 1 .. Len(ids) : ids[i] = kids[i]
  BY OrderBody
<1>2. /\ Len(kids) \in Nat /\ DOMAIN kids = 1 .. Len(kids)
      /\ \A i \in DOMAIN kids : kids[i] \in Nat /\ (kids[i] # 0 => kids[i] \in Kids(n))
  <2>1. kids \in Seq(Nat)
    BY KidsSeq
  <2> QED
    BY <2>1, KidsFacts
<1>3. \A i, j \in DOMAIN kids : i < j /\ kids[j] # 0 => kids[j] > kids[i]
  <2> SUFFICES ASSUME NEW i \in DOMAIN kids, NEW j \in DOMAIN kids, i < j, kids[j] # 0
               PROVE  kids[j] > kids[i]
    OBVIOUS
  <2>1. kids[j] \in DOMAIN nodes
    BY <1>2, KidKinds
  <2>2. kids[j] \in Tree[kids[j]]
    BY <2>1, TreeSub DEF TreesNested
  <2> QED
    BY <2>2 DEF TreesOK, KidsOrder, Blocks
<1>4. \A j \in DOMAIN kids : kids[j] # 0
  <2> SUFFICES ASSUME NEW j \in DOMAIN kids, kids[j] = 0
               PROVE  FALSE
    OBVIOUS
  <2> DEFINE kinds == KindsIn(nodes, kids)
  <2>1. WellShaped(nodes[n], kinds)
    BY DEF KindsOK
  <2>2. DOMAIN kinds = DOMAIN kids /\ kinds[j] = "null"
    BY DEF KindsIn, KindIn
  <2> HIDE DEF kinds
  <2>3. ToSet(kinds) \subseteq Stmts
    BY <2>1 DEF WellShaped, Shape
  <2>4. kinds[j] \in ToSet(kinds)
    BY <2>2 DEF ToSet
  <2> QED
    BY <2>2, <2>3, <2>4 DEF Stmts
<1> HIDE DEF kids, ids
<1>5. PICK h \in DOMAIN kids : kids[h] = d
  BY KidsFacts DEF kids
<1>6. Ordered(ids, R)
  <2>1. ASSUME NEW i \in 1 .. Len(ids), NEW j \in 1 .. Len(ids), i < j
        PROVE  <<ids[i], ids[j]>> \in R
    <3>1. i \in DOMAIN kids /\ j \in DOMAIN kids /\ ids[i] = kids[i] /\ ids[j] = kids[j]
      BY <1>1, <1>2
    <3>2. kids[i] \in Nat /\ kids[j] \in Nat /\ kids[i] < kids[j]
      BY <1>2, <1>3, <1>4, <2>1, <3>1
    <3> QED
      BY <3>1, <3>2
  <2> HIDE DEF R
  <2> QED
    BY <2>1 DEF Ordered
<1>7. there \in Seq(Nat) /\ ToSet(there) = ToSet(ids) \cap DOMAIN nodes /\ Ordered(there, R)
  <2> HIDE DEF R
  <2> QED
    BY <1>1, <1>6, AmongFacts
<1>8. s = [i \in DOMAIN there |-> [node |-> there[i], in |-> 0]]
  BY DEF Visits
<1> HIDE DEF there, s
<1>9. DOMAIN there = 1 .. Len(there) /\ Len(there) \in Nat
  BY <1>7
<1>10. DOMAIN s = DOMAIN there /\ \A i \in DOMAIN s : s[i].node = there[i]
  BY <1>8
<1>11. k \in DOMAIN s /\ d <= s[k].node
  BY DEF s, ids
<1>12. s[k].node \in ToSet(ids) /\ s[k].node \in DOMAIN nodes
  BY <1>7, <1>10, <1>11 DEF ToSet
<1>13. PICK i \in 1 .. Len(ids) : s[k].node = ids[i]
  <2>1. DOMAIN ids = 1 .. Len(ids)
    BY <1>1
  <2>2. \E i \in DOMAIN ids : s[k].node = ids[i]
    BY <1>12 DEF ToSet
  <2> QED
    BY <2>1, <2>2
<1>14. i \in DOMAIN kids /\ s[k].node = kids[i] /\ i \in Nat /\ h \in Nat /\ h \in 1 .. Len(kids)
  BY <1>1, <1>2, <1>13
<1>15. ~ (i < h)
  <2> SUFFICES ASSUME i < h
               PROVE  FALSE
    OBVIOUS
  <2>1. kids[h] > kids[i]
    BY <1>3, <1>4, <1>14
  <2>2. kids[h] \in Nat /\ kids[i] \in Nat /\ kids[h] <= kids[i]
    BY <1>2, <1>5, <1>11, <1>14
  <2> QED
    BY <2>1, <2>2
<1>16. h \in 1 .. Len(ids)
  BY <1>1, <1>13, <1>14, <1>15
<1>17. d \in ToSet(ids)
  <2>1. ids[h] = d /\ DOMAIN ids = 1 .. Len(ids)
    BY <1>1, <1>5, <1>16
  <2> QED
    BY <1>16, <2>1 DEF ToSet
<1>18. d \in DOMAIN nodes
  BY KidKinds
<1>19. PICK g \in DOMAIN s : s[g].node = d
  <2>1. d \in ToSet(there)
    BY <1>7, <1>17, <1>18
  <2>2. \E g \in DOMAIN there : there[g] = d
    BY <2>1 DEF ToSet
  <2> QED
    BY <1>10, <2>2
<1>20. ~ (k < g)
  <2> SUFFICES ASSUME k < g
               PROVE  FALSE
    OBVIOUS
  <2>1. <<there[k], there[g]>> \in R
    BY <1>7, <1>9, <1>10, <1>11, <1>19 DEF Ordered
  <2>2. there[k] \in Nat /\ there[g] \in Nat /\ there[k] < there[g]
    BY <2>1
  <2> QED
    BY <1>10, <1>11, <1>19, <2>2
<1>21. g \in 1 .. k
  BY <1>9, <1>10, <1>11, <1>19, <1>20
<1> QED
  BY <1>19, <1>21 DEF s, ids

\* Every place of the new sequence: what is in front stays in front.
Follows(next, s, w) ==
  /\ \A j \in DOMAIN next :
       \/ j \in DOMAIN s /\ next[j] = s[j]
       \/ \E i \in DOMAIN w : /\ i > 1 /\ next[j] = w[i]
                              /\ \A h \in 1 .. i : h > 1 => \E g \in 1 .. j : next[g] = w[h]
  /\ \A j \in DOMAIN s : \A i \in 1 .. j : i \in DOMAIN s /\ next[i] = s[i]

LEMMA NextPlaces ==
  ASSUME NEW C, NEW w \in Seq(C), w # <<>>, NEW s \in Seq(C)
  PROVE  Follows(s \o Tail(w), s, w)
<1>1. Len(w) \in Nat \ {0} /\ DOMAIN w = 1 .. Len(w)
  OBVIOUS
<1> DEFINE r == Tail(w)
<1>2. /\ r \in Seq(C) /\ Len(r) = Len(w) - 1 /\ DOMAIN r = 1 .. Len(w) - 1
      /\ \A i \in 1 .. Len(w) - 1 : r[i] = w[i + 1]
  OBVIOUS
<1> DEFINE B == Len(s)
<1>3. B \in Nat /\ DOMAIN s = 1 .. B
  OBVIOUS
<1> HIDE DEF r
<1> DEFINE next == s \o r
<1>4. /\ DOMAIN next = 1 .. B + Len(r)
      /\ \A j \in 1 .. B : next[j] = s[j]
      /\ \A j \in 1 .. B + Len(r) : j > B => next[j] = r[j - B]
  BY <1>2, <1>3 DEF r
<1> HIDE DEF B, next
<1>5. ASSUME NEW j \in DOMAIN next, j \notin DOMAIN s
      PROVE  \E i \in DOMAIN w : /\ i > 1 /\ next[j] = w[i]
                                 /\ \A h \in 1 .. i : h > 1 => \E g \in 1 .. j : next[g] = w[h]
  <2>1. j > B /\ j \in 1 .. B + Len(r) /\ j - B \in 1 .. Len(w) - 1
    BY <1>1, <1>2, <1>3, <1>4, <1>5
  <2>2. next[j] = w[j - B + 1]
    BY <1>2, <1>4, <2>1
  <2>3. j - B + 1 \in DOMAIN w /\ j - B + 1 > 1
    BY <1>1, <1>3, <2>1
  <2>4. ASSUME NEW h \in 1 .. j - B + 1, h > 1
        PROVE  \E g \in 1 .. j : next[g] = w[h]
    <3> DEFINE g == h - 1 + B
    <3>1. g \in 1 .. j /\ g > B /\ g \in 1 .. B + Len(r) /\ g - B = h - 1 /\ h - 1 \in 1 .. Len(w) - 1
      BY <1>1, <1>2, <1>3, <2>1, <2>4
    <3>2. next[g] = r[g - B]
      BY <1>4, <3>1
    <3>3. r[h - 1] = w[h]
      BY <1>2, <3>1
    <3> QED
      BY <3>1, <3>2, <3>3
  <2> QED
    BY <2>2, <2>3, <2>4
<1>6. ASSUME NEW j \in DOMAIN s, NEW i \in 1 .. j
      PROVE  i \in DOMAIN s /\ next[i] = s[i]
  <2>1. i \in 1 .. B
    BY <1>3, <1>6
  <2> QED
    BY <1>3, <1>4, <2>1
<1>7. \A j \in DOMAIN next : j \in DOMAIN s => next[j] = s[j]
  BY <1>3, <1>4
<1>8. Follows(next, s, w)
  BY <1>5, <1>6, <1>7 DEF Follows
<1> QED
  BY <1>8 DEF next, r

\* The definition that n means is below m, in front of the statement that n is part of.
Inside(m, n) ==
  \E b \in Of("body") \cap Tree[m] : \E d \in Of("def") \cap Kids(b) :
    sym[d] = sym[n] /\ \E s \in Kids(b) : n \in Tree[s] /\ d <= s

\* Code was generated for the definition of every variable that is used below
\* what is visited next, with the symbols of r, or will be before.
Defined(w, r) ==
  \A j \in DOMAIN w : \A n \in Of("ident") \cap Tree[w[j].node] :
    \/ syms[sym[n]].input
    \/ sym[n] \in r
    \/ \E i \in 1 .. j : nodes[w[i].node].kind = "def" /\ sym[w[i].node] = sym[n]
    \/ Inside(w[j].node, n)

ReadyInv ==
  pc = "codegen" =>
    /\ work \in Seq([node : DOMAIN nodes, in : {0}])
    /\ \A j \in DOMAIN work : work[j].node # Root
    /\ Defined(work, ready)

\* Nodes that code is generated for are below the node that was visited.
LEMMA ReachedFacts ==
  ASSUME NodesOK, KindsOK, TreesOK, NEW n \in DOMAIN nodes, n # Root, NEW m \in Reached(n)
  PROVE  /\ m \in DOMAIN nodes /\ m # Root /\ Tree[m] \subseteq Tree[n]
         /\ nodes[n].kind = "body" => m \in Kids(n)
         /\ m \in Kids(n) \/ \E k \in Kids(n) : nodes[k].kind \in Flat /\ m \in Kids(k)
<1>1. \A k \in Kids(n) : k \in DOMAIN nodes /\ k # Root /\ Tree[k] \subseteq Tree[n]
  BY KidsInside
<1>2. CASE m \in Kids(n)
  BY <1>1, <1>2
<1>3. CASE m \notin Kids(n)
  <2>1. PICK k \in Kids(n) : nodes[k].kind \in Flat /\ nodes[n].kind \in {"if", "for"} /\ m \in Kids(k)
    BY <1>3 DEF Reached
  <2>2. m \in DOMAIN nodes /\ m # Root /\ Tree[m] \subseteq Tree[k]
    BY <1>1, <2>1, KidsInside
  <2> QED
    BY <1>1, <2>1, <2>2
<1> QED
  BY <1>2, <1>3

\* A body below what is visited next is below what is reached from there, if a
\* node of it is.
LEMMA InsideReached ==
  ASSUME NodesOK, KindsOK, TreesOK, NEW n \in DOMAIN nodes, n # Root, NEW m \in Reached(n),
         NEW b \in Of("body") \cap Tree[n], b # n, NEW x, x \in Tree[m], x \in Tree[b]
  PROVE  b \in Tree[m]
<1>1. b \in DOMAIN nodes /\ nodes[b].kind = "body"
  BY DEF Of
<1>2. \A f \in DOMAIN nodes : nodes[f].kind \in Flat => b \notin Tree[f]
  BY <1>1, FlatTree DEF Flat, Expr
<1>3. nodes[n].kind \notin Flat /\ nodes[n].kind # "function"
  <2>1. nodes[n].kind \notin Flat
    BY <1>2
  <2>2. nodes[n].kind # "function"
    BY DEF TreesOK, RootKids
  <2> QED
    BY <2>1, <2>2
<1>4. nodes[n].kind \in Blocks
  <2>1. WellShaped(nodes[n], KindsIn(nodes, nodes[n].kids))
    BY DEF KindsOK
  <2> QED
    BY <1>3, <2>1 DEF WellShaped, Flat, Blocks, Stmts, Expr
<1>5. PICK c \in Kids(n) : b \in Tree[c]
  BY TreeDef
<1>6. c \in DOMAIN nodes
  BY KidKinds
<1>7. x \in Tree[c]
  BY <1>5, <1>6, TreeSub DEF TreesNested
<1>8. m \in Kids(n) \/ \E k \in Kids(n) : nodes[k].kind \in Flat /\ m \in Kids(k)
  BY ReachedFacts
<1>9. CASE m \in Kids(n)
  <2>1. m = c
    BY <1>4, <1>7, <1>9, Siblings
  <2> QED
    BY <1>5, <2>1
<1>10. CASE \E k \in Kids(n) : nodes[k].kind \in Flat /\ m \in Kids(k)
  <2>1. PICK k \in Kids(n) : nodes[k].kind \in Flat /\ m \in Kids(k)
    BY <1>10
  <2>2. k \in DOMAIN nodes
    BY KidKinds
  <2>3. x \in Tree[k]
    BY <2>1, <2>2, TreeSub DEF TreesNested
  <2>4. k = c
    BY <1>4, <1>7, <2>3, Siblings
  <2> QED
    BY <1>2, <1>5, <2>1, <2>2, <2>4
<1> QED
  BY <1>8, <1>9, <1>10

LEMMA GenerateReady ==
  ASSUME IInv, KindsOK, TreesOK, CutOK, ReadyInv, Generate
  PROVE  ReadyInv'
<1> DEFINE C == [node : DOMAIN nodes, in : {0}]
           fresh == IF nodes[Next1].kind = "def" THEN {sym[Next1]} ELSE {}
           s == Visits(Order(Next1), 0)
<1>1. /\ pc = "codegen" /\ work # <<>> /\ pc' = pc /\ nodes' = nodes /\ prog' = prog
      /\ syms' = syms /\ sym' = sym /\ ready' = ready \cup fresh /\ work' = s \o Tail(work)
  BY DEF Generate, parsing, scopes
<1>2. /\ work \in Seq(C) /\ Defined(work, ready)
      /\ \A j \in DOMAIN work : work[j].node # Root
  BY <1>1 DEF ReadyInv
<1>3. 1 \in DOMAIN work /\ Next1 = work[1].node /\ Next1 \in DOMAIN nodes /\ Next1 # Root /\ Tail(work) \in Seq(C)
  <2> HIDE DEF C
  <2>1. 1 \in DOMAIN work /\ Head(work) = work[1] /\ work[1] \in C /\ Tail(work) \in Seq(C)
    BY <1>1, <1>2
  <2>2. work[1].node \in DOMAIN nodes
    BY <2>1 DEF C
  <2> QED
    BY <1>2, <2>1, <2>2 DEF Next1
<1>4. PICK n : n = Next1
  OBVIOUS
<1>5. Order(n) \in Seq(Nat) /\ ToSet(Order(n)) \ {0} \subseteq Reached(n)
  BY <1>1, <1>3, <1>4, OrderFacts DEF IInv
<1>6. s \in Seq(C) /\ \A k \in DOMAIN s : s[k].node \in Reached(n)
  <2> DEFINE ids == Order(n)
  <2>1. ids \in Seq(Nat)
    BY <1>5
  <2>2. s = Visits(ids, 0)
    BY <1>4
  <2> HIDE DEF ids
  <2>3. Visits(ids, 0) \in Seq(C) /\ {Visits(ids, 0)[i].node : i \in DOMAIN Visits(ids, 0)} = ToSet(ids) \cap DOMAIN nodes
    BY <2>1, VisitsFacts
  <2>4. 0 \notin DOMAIN nodes
    BY KidsBefore DEF IInv
  <2>5. ToSet(ids) \cap DOMAIN nodes \subseteq Reached(n)
    BY <1>5, <2>4 DEF ids
  <2> HIDE DEF s
  <2> QED
    BY <2>2, <2>3, <2>5
<1>7. Follows(s \o Tail(work), s, work)
  <2> HIDE DEF C, s
  <2> QED
    BY <1>1, <1>2, <1>6, NextPlaces
<1>8. work' \in Seq(C)
  <2> HIDE DEF C, s
  <2> QED
    BY <1>1, <1>3, <1>6
<1> HIDE DEF C, s, fresh
<1>9. Follows(work', s, work)
  BY <1>1, <1>7
<1>10. \A k \in DOMAIN s :
         /\ s[k].node \in DOMAIN nodes /\ s[k].node # Root /\ Tree[s[k].node] \subseteq Tree[n]
         /\ nodes[n].kind = "body" => s[k].node \in Kids(n)
  BY <1>3, <1>4, <1>6, ReachedFacts DEF IInv
<1>11. \A j \in DOMAIN work' : work'[j].node # Root
  BY <1>2, <1>9, <1>10 DEF Follows
\* The node that is visited has become ready when it is a definition.
<1>12. \A x : nodes[n].kind = "def" /\ sym[n] = x => x \in ready'
  BY <1>1, <1>4 DEF fresh
<1>13. ASSUME NEW i \in DOMAIN work, i > 1, NEW x \in Of("ident") \cap Tree[work[i].node],
              NEW j \in DOMAIN work', work'[j] = work[i], \A h \in 1 .. i : h > 1 => \E g \in 1 .. j : work'[g] = work[h]
       PROVE  \/ syms[sym[x]].input
              \/ sym[x] \in ready'
              \/ \E g \in 1 .. j : nodes[work'[g].node].kind = "def" /\ sym[work'[g].node] = sym[x]
              \/ Inside(work'[j].node, x)
  <2>1. \/ syms[sym[x]].input
        \/ sym[x] \in ready
        \/ \E h \in 1 .. i : nodes[work[h].node].kind = "def" /\ sym[work[h].node] = sym[x]
        \/ Inside(work[i].node, x)
    BY <1>2 DEF Defined
  <2>2. ASSUME NEW h \in 1 .. i, nodes[work[h].node].kind = "def", sym[work[h].node] = sym[x]
        PROVE  \/ sym[x] \in ready'
               \/ \E g \in 1 .. j : nodes[work'[g].node].kind = "def" /\ sym[work'[g].node] = sym[x]
    <3>1. CASE h = 1
      BY <1>3, <1>4, <1>12, <2>2, <3>1
    <3>2. CASE h # 1
      <4>1. h > 1
        BY <3>2
      <4>2. PICK g \in 1 .. j : work'[g] = work[h]
        BY <1>13, <4>1
      <4> QED
        BY <2>2, <4>2
    <3> QED
      BY <3>1, <3>2
  <2> QED
    BY <1>1, <1>13, <2>1, <2>2
<1>14. ASSUME NEW k \in DOMAIN s, NEW x \in Of("ident") \cap Tree[s[k].node], NEW j \in DOMAIN work', j = k
       PROVE  \/ syms[sym[x]].input
              \/ sym[x] \in ready'
              \/ \E g \in 1 .. j : nodes[work'[g].node].kind = "def" /\ sym[work'[g].node] = sym[x]
              \/ Inside(s[k].node, x)
  <2> DEFINE m == s[k].node
  <2>1. x \in Tree[work[1].node]
    BY <1>3, <1>4, <1>10
  <2>2. \/ syms[sym[x]].input
        \/ sym[x] \in ready
        \/ \E h \in 1 .. 1 : nodes[work[h].node].kind = "def" /\ sym[work[h].node] = sym[x]
        \/ Inside(work[1].node, x)
    BY <1>2, <1>3, <2>1 DEF Defined
  <2>3. (\E h \in 1 .. 1 : nodes[work[h].node].kind = "def" /\ sym[work[h].node] = sym[x]) => sym[x] \in ready'
    BY <1>3, <1>4, <1>12
  <2>4. ASSUME Inside(n, x)
        PROVE  \/ \E g \in 1 .. j : nodes[work'[g].node].kind = "def" /\ sym[work'[g].node] = sym[x]
               \/ Inside(m, x)
    <3>1. PICK b \in Of("body") \cap Tree[n] : \E d \in Of("def") \cap Kids(b) :
            sym[d] = sym[x] /\ \E c \in Kids(b) : x \in Tree[c] /\ d <= c
      BY <2>4 DEF Inside
    <3>2. PICK d \in Of("def") \cap Kids(b) : sym[d] = sym[x] /\ \E c \in Kids(b) : x \in Tree[c] /\ d <= c
      BY <3>1
    <3>3. PICK c \in Kids(b) : x \in Tree[c] /\ d <= c
      BY <3>2
    <3>4. b \in DOMAIN nodes /\ nodes[b].kind = "body" /\ c \in DOMAIN nodes
      BY KidKinds DEF IInv, Of
    <3>5. CASE b # n
      <4>1. x \in Tree[b]
        BY <3>3, <3>4, TreeSub DEF IInv, TreesNested
      <4>2. b \in Tree[m]
        BY <1>3, <1>4, <1>6, <3>5, <4>1, InsideReached DEF IInv
      <4> QED
        BY <3>2, <3>3, <4>2 DEF Inside
    <3>6. CASE b = n
      <4>1. m \in Kids(n)
        BY <1>10, <3>4, <3>6
      <4>2. m = c
        BY <3>3, <3>4, <3>6, <4>1, Siblings DEF IInv, Blocks
      <4>3. Order(n) = stmts[n] /\ s = Visits(stmts[n], 0)
        <5>1. Order(n) = stmts[n]
          BY <3>4, <3>6 DEF Order
        <5> QED
          BY <1>4, <5>1 DEF s
      <4>4. PICK g \in 1 .. k : s[g].node = d
        <5>1. k \in DOMAIN Visits(stmts[n], 0) /\ d \in Kids(n) /\ d <= Visits(stmts[n], 0)[k].node
          BY <3>3, <3>6, <4>2, <4>3
        <5> HIDE DEF m
        <5>2. \E g \in 1 .. k : Visits(stmts[n], 0)[g].node = d
          BY <1>1, <3>4, <3>6, <5>1, BodyVisits DEF IInv
        <5> QED
          BY <4>3, <5>2
      <4>5. work'[g] = s[g]
        BY <1>9, <4>4 DEF Follows
      <4>6. nodes[d].kind = "def"
        BY DEF Of
      <4> QED
        BY <1>14, <3>2, <4>4, <4>5, <4>6
    <3> QED
      BY <3>5, <3>6
  <2> QED
    BY <1>1, <1>3, <1>4, <2>2, <2>3, <2>4
<1>15. \A m, x : Inside(m, x)' <=> Inside(m, x)
  <2>1. Tree' = Tree /\ \A kind : Of(kind)' = Of(kind)
    BY <1>1 DEF Tree, Kids, Of
  <2> QED
    BY <1>1, <2>1 DEF Inside, Kids
<1>16. \A j \in DOMAIN work' : \A x \in Of("ident") \cap Tree[work'[j].node] :
         \/ syms[sym[x]].input
         \/ sym[x] \in ready'
         \/ \E g \in 1 .. j : nodes[work'[g].node].kind = "def" /\ sym[work'[g].node] = sym[x]
         \/ Inside(work'[j].node, x)
  <2> SUFFICES ASSUME NEW j \in DOMAIN work', NEW x \in Of("ident") \cap Tree[work'[j].node]
               PROVE  \/ syms[sym[x]].input
                      \/ sym[x] \in ready'
                      \/ \E g \in 1 .. j : nodes[work'[g].node].kind = "def" /\ sym[work'[g].node] = sym[x]
                      \/ Inside(work'[j].node, x)
    OBVIOUS
  <2>1. CASE j \in DOMAIN s /\ work'[j] = s[j]
    BY <1>14, <2>1
  <2>2. CASE \E i \in DOMAIN work : /\ i > 1 /\ work'[j] = work[i]
                                    /\ \A h \in 1 .. i : h > 1 => \E g \in 1 .. j : work'[g] = work[h]
    BY <1>13, <2>2
  <2> QED
    BY <1>9, <2>1, <2>2 DEF Follows
<1>17. Defined(work, ready)'
  <2>1. Tree' = Tree /\ Of("ident")' = Of("ident")
    BY <1>1 DEF Tree, Kids, Of
  <2>2. ASSUME NEW j \in DOMAIN work', NEW x \in Of("ident")' \cap Tree'[work'[j].node]
        PROVE  (\/ syms[sym[x]].input
                \/ sym[x] \in ready
                \/ \E i \in 1 .. j : nodes[work[i].node].kind = "def" /\ sym[work[i].node] = sym[x]
                \/ Inside(work[j].node, x))'
    <3>1. PICK m : m = work'[j].node
      OBVIOUS
    <3>2. x \in Of("ident") \cap Tree[work'[j].node]
      BY <2>1, <2>2
    <3>3. \/ syms[sym[x]].input
          \/ sym[x] \in ready'
          \/ \E g \in 1 .. j : nodes[work'[g].node].kind = "def" /\ sym[work'[g].node] = sym[x]
          \/ Inside(m, x)
      BY <1>16, <2>2, <3>1, <3>2
    <3>4. Inside(m, x)' <=> Inside(m, x)
      BY <1>15
    <3>5. Inside(m, x)' <=> Inside(work[j].node, x)'
      BY <3>1 DEF Inside
    <3> QED
      BY <1>1, <3>3, <3>4, <3>5
  <2> QED
    BY <2>2 DEF Defined
<1>18. Root' = Root
  BY <1>1 DEF Root
<1> QED
  BY <1>1, <1>8, <1>11, <1>17, <1>18 DEF ReadyInv, C

-----------------------------------------------------------------------------
\* The symbols of the inputs are theirs.
InputsOK == pc # "parse" => \A a \in Args : a \in DOMAIN syms /\ syms[a].input

LEMMA ConstructFunctionInputs ==
  ASSUME ConstructFunction
  PROVE  InputsOK'
<1> DEFINE entry(i) == [type |-> prog.args[i].type, input |-> TRUE]
<1>1. syms' = [i \in Args |-> entry(i)] /\ Args' = Args
  BY DEF ConstructFunction, Args
<1>2. \A i \in Args : entry(i).input
  OBVIOUS
<1> HIDE DEF entry
<1> QED
  BY <1>1, <1>2 DEF InputsOK

LEMMA TypeDefInputs ==
  ASSUME ScopesOK, InputsOK, TypeDef
  PROVE  InputsOK'
<1> DEFINE new == [type |-> nodes[Next1].type, input |-> FALSE]
<1>1. pc = "type" /\ syms' = Append(syms, new) /\ Args' = Args
  BY DEF TypeDef, Typing, parsing, Args
<1>2. PICK T : syms \in Seq(T)
  BY DEF ScopesOK
<1> HIDE DEF new
<1>3. \A i \in DOMAIN syms : i \in DOMAIN syms' /\ syms'[i] = syms[i]
  BY <1>1, <1>2
<1> QED
  BY <1>1, <1>3 DEF InputsOK

LEMMA NextInputs ==
  ASSUME TypedInv, InputsOK, [Next]_vars
  PROVE  InputsOK'
<1>1. CASE LeaveOut \/ Construct \/ ConstructLookup \/ ConstructCompound
  <2>1. pc' = "parse"
    BY <1>1 DEF LeaveOut, Construct, ConstructLookup, ConstructCompound, Parsing
  <2> QED
    BY <2>1 DEF InputsOK
<1>2. CASE ConstructFunction
  BY <1>2, ConstructFunctionInputs
<1>3. CASE TypeDef
  <2>1. ScopesOK
    BY <1>3 DEF TypeDef, Typing, TypedInv, SymsOK
  <2> QED
    BY <1>3, <2>1, TypeDefInputs
<1>4. CASE \/ TypeIdent \/ TypeBody \/ TypeOther \/ TypeCheck \/ Eliminate \/ Generate
           \/ StartDelete \/ Delete \/ Finish
  <2>1. pc # "parse" /\ UNCHANGED <<prog, syms>>
    BY <1>4 DEF TypeIdent, TypeBody, TypeOther, TypeCheck, Eliminate, Generate, StartDelete, Delete, Finish,
                Typing, parsing, scopes
  <2> QED
    BY <2>1 DEF InputsOK, Args
<1>5. CASE UNCHANGED vars
  BY <1>5 DEF InputsOK, Args, vars, parsing, scopes
<1> QED
  BY <1>1, <1>2, <1>3, <1>4, <1>5 DEF Next, Stutter

\* What a body keeps of its statements.
Begins(s, all) == \E len \in 0 .. Len(all) : s = SubSeq(all, 1, len)

LEMMA CutBegins ==
  ASSUME NEW all \in Seq(Nat), NEW s, Begins(s, all)
  PROVE  Begins(Cut(s), all)
<1>1. PICK len \in 0 .. Len(all) : s = SubSeq(all, 1, len)
  BY DEF Begins
<1>2. s \in Seq(Nat) /\ Len(s) = len /\ DOMAIN s = 1 .. len /\ \A i \in 1 .. len : s[i] = all[i]
  BY <1>1
<1> DEFINE jumps == {i \in DOMAIN s : s[i] \in Jumps}
<1>3. CASE jumps = {}
  BY <1>3, <1>1 DEF Cut, Begins
<1>4. CASE jumps # {}
  <2>1. jumps \subseteq 1 .. len
    BY <1>2
  <2>2. Cut(s) = SubSeq(s, 1, Min(jumps))
    BY <1>4 DEF Cut
  <2> HIDE DEF jumps
  <2>3. jumps \subseteq Nat
    BY <1>1, <2>1
  <2>4. \E x \in jumps : \A y \in jumps : x <= y
    BY <1>4, <2>3, LeastNat
  <2>5. Min(jumps) \in jumps
    BY <2>4 DEF Min
  <2> DEFINE m == Min(jumps)
  <2>6. m \in 1 .. len
    BY <2>1, <2>5
  <2> HIDE DEF m
  <2>7. m \in 0 .. Len(all) /\ m \in Nat
    BY <1>1, <2>6
  <2>8. SubSeq(s, 1, m) = SubSeq(all, 1, m)
    <3>1. SubSeq(s, 1, m) \in Seq(Nat) /\ Len(SubSeq(s, 1, m)) = m /\ \A i \in 1 .. m : SubSeq(s, 1, m)[i] = s[i]
      BY <1>1, <1>2, <2>6, <2>7
    <3>2. SubSeq(all, 1, m) \in Seq(Nat) /\ Len(SubSeq(all, 1, m)) = m /\ \A i \in 1 .. m : SubSeq(all, 1, m)[i] = all[i]
      BY <2>7
    <3>3. \A i \in 1 .. m : s[i] = all[i]
      BY <1>1, <1>2, <2>6
    <3> DEFINE x == SubSeq(s, 1, m)
               y == SubSeq(all, 1, m)
    <3>4. /\ x \in Seq(Nat) /\ Len(x) = m /\ y \in Seq(Nat) /\ Len(y) = m
          /\ \A i \in 1 .. m : x[i] = y[i]
      BY <3>1, <3>2, <3>3
    <3> HIDE DEF x, y
    <3>5. x = y
      BY <3>4
    <3> QED
      BY <3>5 DEF x, y
  <2> QED
    BY <2>2, <2>7, <2>8 DEF Begins, m
<1> QED
  BY <1>3, <1>4

LEMMA CutIs == CutOK <=> (pc # "parse" => \A b \in Of("body") : b \in DOMAIN stmts /\ Begins(stmts[b], nodes[b].kids))
BY DEF CutOK, Begins

LEMMA ConstructFunctionCut ==
  ASSUME IInv, KindsOK, ConstructFunction
  PROVE  CutOK'
<1>1. /\ Len(nodes') = Len(nodes) + 1 /\ \A n \in DOMAIN nodes : nodes'[n] = nodes[n]
      /\ nodes'[Len(nodes) + 1].kind = "function"
  BY ConstructFunctionKinds
<1>2. stmts' = [b \in Of("body") |-> nodes[b].kids]
  BY DEF ConstructFunction
<1>3. IInv'
  BY ConstructFunctionOK
<1>4. Len(nodes) \in Nat /\ DOMAIN nodes = 1 .. Len(nodes) /\ DOMAIN nodes' = 1 .. Len(nodes')
  BY <1>3, KidsBefore DEF IInv, NodesOK
<1>5. ASSUME NEW b \in DOMAIN nodes', nodes'[b].kind = "body"
      PROVE  b \in Of("body") /\ nodes'[b].kids = nodes[b].kids
  <2>1. b \in DOMAIN nodes
    BY <1>1, <1>4, <1>5
  <2> QED
    BY <1>1, <1>5, <2>1 DEF Of
<1>6. ASSUME NEW b \in Of("body")
      PROVE  Begins(stmts'[b], nodes[b].kids)
  <2> DEFINE kids == nodes[b].kids
  <2>1. kids \in Seq(Nat)
    BY KidsSeq DEF IInv, Of
  <2>2. stmts'[b] = kids
    BY <1>2
  <2> HIDE DEF kids
  <2>3. Len(kids) \in 0 .. Len(kids) /\ kids = SubSeq(kids, 1, Len(kids))
    BY <2>1
  <2>4. Begins(kids, kids)
    BY <2>3 DEF Begins
  <2> QED
    BY <2>2, <2>4 DEF kids
<1>7. \A b \in Of("body")' : b \in DOMAIN stmts' /\ b \in Of("body") /\ nodes'[b].kids = nodes[b].kids
  BY <1>2, <1>5 DEF Of
<1> QED
  BY <1>6, <1>7 DEF CutOK, Begins

LEMMA EliminateCut ==
  ASSUME IInv, KindsOK, CutOK, Eliminate
  PROVE  CutOK'
<1>1. /\ pc = "eliminate" /\ nodes' = nodes
      /\ \E B : stmts' = [b \in DOMAIN stmts |-> IF b \in B THEN Cut(stmts[b]) ELSE stmts[b]]
  BY DEF Eliminate, parsing
<1>2. ASSUME NEW b \in Of("body")
      PROVE  b \in DOMAIN stmts' /\ Begins(stmts'[b], nodes[b].kids)
  <2>1. b \in DOMAIN stmts /\ Begins(stmts[b], nodes[b].kids)
    BY <1>1, CutIs
  <2>2. nodes[b].kids \in Seq(Nat)
    BY KidsSeq DEF IInv, Of
  <2>3. Begins(Cut(stmts[b]), nodes[b].kids)
    BY <2>1, <2>2, CutBegins
  <2> QED
    BY <1>1, <2>1, <2>3
<1>3. Of("body")' = Of("body")
  BY <1>1 DEF Of
<1>4. \A b \in Of("body")' : b \in DOMAIN stmts' /\ \E len \in 0 .. Len(nodes'[b].kids) : stmts'[b] = SubSeq(nodes'[b].kids, 1, len)
  BY <1>1, <1>2, <1>3 DEF Begins
<1> QED
  BY <1>4 DEF CutOK

LEMMA NextCut ==
  ASSUME TypedInv, CutOK, [Next]_vars
  PROVE  CutOK'
<1>1. CASE LeaveOut \/ Construct \/ ConstructLookup \/ ConstructCompound
  <2>1. pc' = "parse"
    BY <1>1 DEF LeaveOut, Construct, ConstructLookup, ConstructCompound, Parsing
  <2> QED
    BY <2>1 DEF CutOK
<1>2. CASE ConstructFunction
  BY <1>2, ConstructFunctionCut DEF TypedInv
<1>3. CASE Eliminate
  BY <1>3, EliminateCut DEF TypedInv
<1>4. CASE \/ TypeDef \/ TypeIdent \/ TypeBody \/ TypeOther \/ TypeCheck \/ Generate
           \/ StartDelete \/ Delete \/ Finish
  <2>1. pc # "parse" /\ UNCHANGED <<nodes, stmts>>
    BY <1>4 DEF TypeDef, TypeIdent, TypeBody, TypeOther, TypeCheck, Generate, StartDelete, Delete, Finish,
                Typing, parsing
  <2> QED
    BY <2>1 DEF CutOK, Of
<1>5. CASE UNCHANGED vars
  BY <1>5 DEF CutOK, Of, vars, parsing
<1> QED
  BY <1>1, <1>2, <1>3, <1>4, <1>5 DEF Next, Stutter

\* Code generation starts at the body, and every definition is in it.
LEMMA EliminateReady ==
  ASSUME TypedInv, TreesOK, LexOK, InputsOK, Eliminate
  PROVE  ReadyInv'
<1> DEFINE body == nodes[Root].kids[1]
           C == [node : DOMAIN nodes, in : {0}]
<1>1. /\ pc = "eliminate" /\ work' = Visits(<<body>>, 0)
      /\ UNCHANGED <<prog, nodes, syms, sym, ready>>
  BY DEF Eliminate, parsing, scopes
<1>2. /\ IInv /\ NodesOK /\ KindsOK /\ ScopesOK /\ nodes[Root].kind = "function" /\ Root \in DOMAIN nodes
  BY <1>1, KidsBefore DEF TypedInv, SymsOK, IInv, RootOK, Root
<1>3. /\ body \in DOMAIN nodes \ Args /\ nodes[body].kind = "body"
      /\ Kids(Root) = {body} \cup Args /\ body # Root
  BY <1>2 DEF TreesOK, RootKids
<1>4. work' \in Seq(C) /\ \A j \in DOMAIN work' : work'[j].node = body
  <2>1. body \in Nat
    BY <1>2, <1>3, KidsBefore
  <2> DEFINE ids == <<body>>
  <2>2. ids \in Seq(Nat) /\ ToSet(ids) = {body}
    BY <2>1 DEF ToSet
  <2> HIDE DEF ids
  <2>3. Visits(ids, 0) \in Seq(C) /\ {Visits(ids, 0)[i].node : i \in DOMAIN Visits(ids, 0)} = ToSet(ids) \cap DOMAIN nodes
    BY <2>2, VisitsFacts
  <2>4. work' = Visits(ids, 0)
    BY <1>1 DEF ids
  <2> HIDE DEF body, C
  <2> QED
    BY <2>2, <2>3, <2>4
<1> HIDE DEF body
\* The bodies of the program are those below the body of the function.
<1>5. ASSUME NEW b \in Of("body")
      PROVE  b \in Tree[body]
  <2>1. b \in DOMAIN nodes /\ nodes[b].kind = "body"
    BY DEF Of
  <2>2. b \in Tree[Root]
    BY <1>1, <1>2, <2>1, BelowRoot DEF IInv
  <2>3. b # Root
    BY <1>2, <2>1
  <2>4. PICK k \in {body} \cup Args : b \in Tree[k]
    BY <1>2, <1>3, <2>2, <2>3, TreeEq
  <2>5. k \notin Args
    <3> SUFFICES ASSUME k \in Args PROVE FALSE
      OBVIOUS
    <3>1. k \in DOMAIN nodes /\ nodes[k].kind = "def"
      BY <1>2, ArgsFacts DEF KindsOK
    <3>2. b = k \/ nodes[b].kind \in Expr
      BY <1>2, <2>4, <3>1, FlatTree DEF Flat
    <3> QED
      BY <2>1, <3>1, <3>2 DEF Expr
  <2> QED
    BY <2>4, <2>5
<1>6. ASSUME NEW n \in Of("ident")
      PROVE  syms[sym[n]].input \/ Inside(body, n)
  <2>1. n \in DOMAIN sym
    BY <1>1 DEF TypedInv, NamesOK
  <2>2. Resolved(n)
    BY <2>1 DEF LexOK
  <2> DEFINE d == Max(Visible(n))
  <2>3. d \in Visible(n)
    <3>1. Visible(n) \subseteq DOMAIN nodes
      BY DEF Visible, Of
    <3>2. Visible(n) \subseteq 1 .. Len(nodes) /\ Len(nodes) \in Nat
      BY <1>2, <3>1, KidsBefore
    <3>3. Visible(n) # {}
      BY <2>2 DEF Resolved
    <3> QED
      BY <3>2, <3>3, MaxIn
  <2>4. sym[n] = SymOf(d)
    BY <2>2 DEF Resolved
  <2> HIDE DEF d
  <2>5. d \in Of("def") /\ (d \in Args \/ InFront(d, n))
    BY <2>3, VisibleIs
  <2>6. CASE d \in Args
    <3>1. sym[n] = d
      BY <2>4, <2>6 DEF SymOf, Args
    <3> QED
      BY <1>1, <2>6, <3>1 DEF InputsOK
  <2>7. CASE d \notin Args
    <3>1. sym[n] = sym[d]
      BY <2>4, <2>7 DEF SymOf, Args
    <3>2. PICK b \in Of("body") : d \in Kids(b) /\ \E s \in Kids(b) : n \in Tree[s] /\ d <= s
      BY <2>5, <2>7 DEF InFront
    <3>3. b \in Tree[body]
      BY <1>5
    <3> QED
      BY <2>5, <3>1, <3>2, <3>3 DEF Inside
  <2> QED
    BY <2>6, <2>7
<1>7. Tree' = Tree /\ \A kind : Of(kind)' = Of(kind)
  BY <1>1 DEF Tree, Kids, Of
<1>8. \A m, x : Inside(m, x)' <=> Inside(m, x)
  BY <1>1, <1>7 DEF Inside, Kids
<1>9. Defined(work, ready)'
  <2>1. ASSUME NEW j \in DOMAIN work', NEW x \in Of("ident")' \cap Tree'[work'[j].node]
        PROVE  (\/ syms[sym[x]].input
                \/ sym[x] \in ready
                \/ \E i \in 1 .. j : nodes[work[i].node].kind = "def" /\ sym[work[i].node] = sym[x]
                \/ Inside(work[j].node, x))'
    <3>1. PICK m : m = work'[j].node
      OBVIOUS
    <3>2. m = body
      BY <1>4, <3>1
    <3>3. x \in Of("ident")
      BY <1>7, <2>1
    <3>4. syms[sym[x]].input \/ Inside(m, x)
      BY <1>6, <3>2, <3>3
    <3>5. Inside(m, x)' <=> Inside(m, x)
      BY <1>8
    <3>6. Inside(m, x)' <=> Inside(work[j].node, x)'
      BY <3>1 DEF Inside
    <3> QED
      BY <1>1, <3>4, <3>5, <3>6
  <2> QED
    BY <2>1 DEF Defined
<1>10. Root' = Root /\ \A j \in DOMAIN work' : work'[j].node # Root
  BY <1>1, <1>3, <1>4 DEF Root
<1> QED
  BY <1>1, <1>4, <1>9, <1>10 DEF ReadyInv, C

LEMMA ReadyStays ==
  ASSUME ReadyInv, pc' # "codegen" \/ UNCHANGED <<pc, prog, nodes, syms, sym, ready, work>>
  PROVE  ReadyInv'
<1>1. CASE pc' # "codegen"
  BY <1>1 DEF ReadyInv
<1>2. CASE UNCHANGED <<pc, prog, nodes, syms, sym, ready, work>>
  <2>1. Tree' = Tree /\ \A kind : Of(kind)' = Of(kind)
    BY <1>2 DEF Tree, Kids, Of
  <2>2. Defined(work, ready)' <=> Defined(work, ready)
    BY <1>2, <2>1 DEF Defined, Inside, Kids
  <2> QED
    BY <1>2, <2>2 DEF ReadyInv, Root
<1> QED
  BY <1>1, <1>2

GenInv == ScopeInv /\ InputsOK /\ CutOK /\ ReadyInv

LEMMA NextGen ==
  ASSUME GenInv, [Next]_vars
  PROVE  GenInv'
<1>1. ScopeInv' /\ InputsOK' /\ CutOK'
  BY NextScope, NextInputs, NextCut DEF GenInv, ScopeInv
<1>2. CASE Generate
  BY <1>1, <1>2, GenerateReady DEF GenInv, ScopeInv, TypedInv
<1>3. CASE Eliminate
  BY <1>1, <1>3, EliminateReady DEF GenInv, ScopeInv
<1>4. CASE \/ LeaveOut \/ Construct \/ ConstructLookup \/ ConstructCompound \/ ConstructFunction
           \/ TypeDef \/ TypeIdent \/ TypeBody \/ TypeOther \/ TypeCheck \/ StartDelete \/ Delete \/ Finish
  <2>1. pc' # "codegen"
    BY <1>4 DEF LeaveOut, Construct, ConstructLookup, ConstructCompound, ConstructFunction, Parsing,
                TypeDef, TypeIdent, TypeBody, TypeOther, Typing, TypeCheck, StartDelete, Delete, Finish
  <2> QED
    BY <1>1, <2>1, ReadyStays DEF GenInv
<1>5. CASE UNCHANGED vars
  BY <1>1, <1>5, ReadyStays DEF GenInv, vars, parsing, scopes
<1> QED
  BY <1>2, <1>3, <1>4, <1>5 DEF Next, Stutter

\* No body is below an expression or an assignment.
LEMMA ReadyNow ==
  ASSUME GenInv, pc = "codegen", work # <<>>, NEW x \in Of("ident") \cap Tree[Next1],
         nodes[Next1].kind \in Flat \ {"def"}
  PROVE  syms[sym[x]].input \/ sym[x] \in ready
<1>1. work \in Seq([node : DOMAIN nodes, in : {0}]) /\ Defined(work, ready)
  BY DEF GenInv, ReadyInv
<1>2. 1 \in DOMAIN work /\ Next1 = work[1].node /\ Next1 \in DOMAIN nodes
  <2> DEFINE C == [node : DOMAIN nodes, in : {0}]
  <2>1. work \in Seq(C)
    BY <1>1
  <2> HIDE DEF C
  <2>2. 1 \in DOMAIN work /\ Head(work) = work[1] /\ work[1] \in C
    BY <2>1
  <2>3. work[1].node \in DOMAIN nodes
    BY <2>2 DEF C
  <2> QED
    BY <2>2, <2>3 DEF Next1
<1>3. \/ syms[sym[x]].input
      \/ sym[x] \in ready
      \/ \E i \in 1 .. 1 : nodes[work[i].node].kind = "def" /\ sym[work[i].node] = sym[x]
      \/ Inside(work[1].node, x)
  BY <1>1, <1>2 DEF Defined
<1>4. NodesOK /\ KindsOK
  BY DEF GenInv, ScopeInv, TypedInv, IInv
<1>5. ~ Inside(Next1, x)
  <2>1. \A m \in Tree[Next1] : m = Next1 \/ nodes[m].kind \in Expr
    BY <1>2, <1>4, FlatTree
  <2> QED
    BY <2>1 DEF Inside, Of, Flat, Expr
<1> QED
  BY <1>2, <1>3, <1>5

\* An assignment is to an identifier or to an element of one.
LEMMA TargetFacts ==
  ASSUME NodesOK, KindsOK, NEW n \in DOMAIN nodes, nodes[n].kind = "asg"
  PROVE  \E x \in Of("ident") \cap Tree[n] : Target(nodes[n].kids[1]) = sym[x]
<1> DEFINE kids == nodes[n].kids
           lhs == kids[1]
<1>1. /\ Len(kids) = Len(Parts("asg"))
      /\ \A i \in DOMAIN kids : KindIn(nodes, kids[i]) \in Parts("asg")[i]
  BY PartKinds
<1>2. Len(Parts("asg")) = 2 /\ Parts("asg")[1] = Lvalue
  BY DEF Parts
<1>3. Len(kids) \in Nat /\ DOMAIN kids = 1 .. Len(kids) /\ 0 \notin DOMAIN nodes
  BY KidsFacts, KidsBefore
<1>4. 1 \in DOMAIN kids /\ KindIn(nodes, lhs) \in {"ident", "lookup"}
  BY <1>1, <1>2, <1>3 DEF Lvalue
<1>5. lhs # 0 /\ nodes[lhs].kind \in {"ident", "lookup"} /\ lhs \in Kids(n)
  BY <1>4 DEF KindIn, Kids, ToSet
<1>6. lhs \in DOMAIN nodes /\ lhs \in Tree[n] /\ Tree[lhs] \subseteq Tree[n]
  BY <1>5, KidKinds, TreeSub DEF TreesNested
<1> HIDE DEF kids, lhs
<1>7. CASE nodes[lhs].kind = "ident"
  <2>1. Target(lhs) = sym[lhs] /\ lhs \in Of("ident")
    BY <1>6, <1>7 DEF Target, Of
  <2> QED
    BY <1>6, <2>1 DEF lhs, kids
<1>8. CASE nodes[lhs].kind = "lookup"
  <2> DEFINE own == nodes[lhs].kids
             kinds == KindsIn(nodes, own)
  <2>1. WellShaped(nodes[lhs], kinds)
    BY <1>6 DEF KindsOK
  <2>2. kinds # <<>> /\ kinds[1] = "ident"
    <3> HIDE DEF kinds
    <3> QED
      BY <1>8, <2>1 DEF WellShaped
  <2>3. Len(own) \in Nat /\ DOMAIN own = 1 .. Len(own)
    BY <1>6, KidsFacts
  <2>4. own # <<>>
    <3> HIDE DEF own
    <3>1. own = <<>> => kinds = <<>>
      BY DEF KindsIn
    <3> QED
      BY <2>2, <3>1
  <2>5. \E T : own \in Seq(T)
    BY <1>6 DEF NodesOK
  <2>6. 1 \in DOMAIN own
    <3> HIDE DEF own
    <3> QED
      BY <2>3, <2>4, <2>5
  <2>7. KindIn(nodes, own[1]) = "ident"
    BY <2>2, <2>6 DEF KindsIn
  <2>8. own[1] # 0 /\ nodes[own[1]].kind = "ident" /\ own[1] \in Kids(lhs)
    BY <2>6, <2>7 DEF KindIn, Kids, ToSet
  <2>9. own[1] \in DOMAIN nodes /\ own[1] \in Tree[lhs]
    BY <1>6, <2>8, KidKinds, TreeSub DEF TreesNested
  <2>10. Target(lhs) = sym[own[1]]
    BY <1>8 DEF Target
  <2> QED
    BY <1>6, <2>8, <2>9, <2>10 DEF Of, lhs, kids
<1> QED
  BY <1>5, <1>7, <1>8

LEMMA UsesAreReady ==
  ASSUME GenInv
  PROVE  UsesReady
<1> SUFFICES ASSUME pc = "codegen", work # <<>>
             PROVE  /\ nodes[Next1].kind = "ident" => syms[sym[Next1]].input \/ sym[Next1] \in ready
                    /\ nodes[Next1].kind = "asg" => Target(nodes[Next1].kids[1]) \in ready
  BY DEF UsesReady
<1>1. NodesOK /\ KindsOK /\ NamesOK
  BY DEF GenInv, ScopeInv, TypedInv, IInv
<1>2. Next1 \in DOMAIN nodes
  <2> DEFINE C == [node : DOMAIN nodes, in : {0}]
  <2>1. work \in Seq(C)
    BY DEF GenInv, ReadyInv
  <2> HIDE DEF C
  <2>2. Head(work) \in C
    BY <2>1
  <2> QED
    BY <2>2 DEF Next1, C
<1>3. CASE nodes[Next1].kind = "ident"
  <2>1. Next1 \in Of("ident") \cap Tree[Next1]
    BY <1>1, <1>2, <1>3, TreeSub DEF TreesNested, Of
  <2>2. nodes[Next1].kind \in Flat \ {"def"}
    BY <1>3 DEF Flat, Expr
  <2> QED
    BY <1>3, <2>1, <2>2, ReadyNow
<1>4. CASE nodes[Next1].kind = "asg"
  <2>1. PICK x \in Of("ident") \cap Tree[Next1] : Target(nodes[Next1].kids[1]) = sym[x]
    BY <1>1, <1>2, <1>4, TargetFacts
  <2>2. nodes[Next1].kind \in Flat \ {"def"}
    BY <1>4 DEF Flat
  <2>3. syms[sym[x]].input \/ sym[x] \in ready
    BY <2>2, ReadyNow
  <2>4. ~ BadType(Next1)
    BY <1>1, <1>2 DEF NamesOK
  <2>5. ~ AssignsInput(Next1)
    BY <1>4, <2>4 DEF BadType
  <2> QED
    BY <1>4, <2>1, <2>3, <2>5 DEF AssignsInput
<1> QED
  BY <1>3, <1>4

\* In every program code for the use of a variable is generated when its definition
\* has been, and no input is assigned to: no null alloca is used, though names are
\* resolved over the children, and code is generated over what eliminate_unreachable_code
\* has left, conditions of branches ahead of their bodies (CodegenVisitor).
THEOREM EveryUseReady == Spec => []UsesReady
<1>1. Init => GenInv
  <2> SUFFICES ASSUME Init PROVE GenInv
    OBVIOUS
  <2>1. pc = "parse"
    BY DEF Init
  <2> QED
    BY <2>1, InitScope DEF GenInv, InputsOK, CutOK, ReadyInv
<1>2. GenInv /\ [Next]_vars => GenInv'
  BY NextGen
<1>3. GenInv => UsesReady
  BY UsesAreReady
<1> QED
  BY <1>1, <1>2, <1>3, PTL DEF Spec
=============================================================================
