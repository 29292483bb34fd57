--------------------------- MODULE ConditionsProofs ---------------------------
(***************************************************************************)
(* Proofs about Conditions, for every program: what prepare_eval_ctx has   *)
(* visited is found by gen_expr where the compiled code finds it.          *)
(***************************************************************************)
EXTENDS Conditions, Induction

Scalars == {n \in Nodes : Kind(n) \notin {"array", "inputs"}}

\* The facts about the program that the proofs use.
LEMMA ProgramFacts ==
  ASSUME prog \in Programs
  PROVE  /\ Len(prog.nodes) \in Nat /\ Nodes = 1 .. Len(prog.nodes)
         /\ \A n \in Nodes :
              /\ Kind(n) \in {"const", "local", "input", "array", "inputs", "at", "len", "op"}
              /\ Kids(n) \in Seq(1 .. n - 1)
              /\ Kind(n) = "const" => Sym(n) \in Values
              /\ Kind(n) \in {"const", "local", "input", "array", "inputs"} => Kids(n) = <<>>
              /\ Kind(n) = "op" => Kids(n) # <<>> /\ \A i \in DOMAIN Kids(n) : Kids(n)[i] \in Scalars
              /\ Kind(n) = "len" => Len(Kids(n)) = 1 /\ Kind(Array(n)) = "array"
              /\ Kind(n) = "at" =>
                   /\ Len(Kids(n)) >= 2 /\ \A i \in 2 .. Len(Kids(n)) : Kids(n)[i] \in Scalars
                   /\ Kind(Array(n)) = "inputs" \/ (Kind(Array(n)) = "array" /\ Len(Kids(n)) = 2)
         /\ \A m, n \in Nodes : Kind(m) = "local" /\ Kind(n) = "array" => Sym(m) # Sym(n)
         /\ \A b \in prog.branches : b.cond \in Scalars /\ b.pre \in Scalars \cup {0}
BY ConditionsAssumption DEF WellFormed, Scalars, Nodes, Kind, Sym, Kids, Array

LEMMA KidFacts ==
  ASSUME prog \in Programs, NEW n \in Nodes, NEW i \in DOMAIN Kids(n)
  PROVE  /\ n \in Nat /\ DOMAIN Kids(n) = 1 .. Len(Kids(n))
         /\ Kids(n)[i] \in Nodes /\ Kids(n)[i] \in Nat /\ Kids(n)[i] < n
<1>1. Kids(n) \in Seq(1 .. n - 1) /\ n \in 1 .. Len(prog.nodes) /\ Len(prog.nodes) \in Nat
  BY ProgramFacts
<1>2. Kids(n)[i] \in 1 .. n - 1
  BY <1>1
<1> QED
  BY <1>1, <1>2, ProgramFacts

\* Induction over the nodes: what holds of a node when it holds of its children
\* holds of all.
LEMMA NodeInduction ==
  ASSUME prog \in Programs, NEW S,
         \A n \in Nodes : (\A i \in DOMAIN Kids(n) : Kids(n)[i] \in S) => n \in S
  PROVE  \A n \in Nodes : n \in S
<1> DEFINE T == {n \in Nat : n \in Nodes => n \in S}
<1>1. ASSUME NEW n \in Nat, \A m \in Nat : m < n => m \in T
      PROVE  n \in T
  <2> SUFFICES ASSUME n \in Nodes
               PROVE  n \in S
    OBVIOUS
  <2>1. \A i \in DOMAIN Kids(n) : Kids(n)[i] \in S
    BY <1>1, KidFacts
  <2> QED
    BY <2>1
<1>2. \A n \in Nat : n \in T
  <2> HIDE DEF T
  <2> QED
    BY <1>1, StrongInduction
<1> QED
  BY <1>2, ProgramFacts

\* The array and the indices of a lookup or length are children of it.
LEMMA OperandFacts ==
  ASSUME prog \in Programs, NEW n \in Nodes
  PROVE  /\ Kind(n) \in {"at", "len"} => 1 \in DOMAIN Kids(n) /\ Array(n) = Kids(n)[1]
         /\ Kind(n) = "at" =>
              /\ Len(Kids(n)) \in Nat /\ Len(Kids(n)) >= 2 /\ DOMAIN Indices(n) = 1 .. Len(Kids(n)) - 1
              /\ \A i \in DOMAIN Indices(n) :
                   i + 1 \in DOMAIN Kids(n) /\ Indices(n)[i] = Kids(n)[i + 1]
         /\ Kind(n) # "at" => Indices(n) = <<>>
<1>1. Kids(n) \in Seq(1 .. n - 1)
  BY ProgramFacts
<1>2. Kind(n) = "len" => Len(Kids(n)) = 1
  BY ProgramFacts
<1>3. Kind(n) = "at" => Len(Kids(n)) >= 2
  BY ProgramFacts
<1> QED
  BY <1>1, <1>2, <1>3 DEF Indices, Array

-----------------------------------------------------------------------------
(* The recursive functions satisfy their equations.  A function that does  *)
(* so below a node is extended by its value there.                         *)

PreorderStep(f, n) == <<n>> \o FlattenSeq([i \in DOMAIN Kids(n) |-> f[Kids(n)[i]]])

LEMMA PreorderDef ==
  ASSUME prog \in Programs
  PROVE  Preorder = [n \in Nodes |-> PreorderStep(Preorder, n)]
<1> DEFINE Def(f, k) == f = [n \in Nodes |-> f[n]] /\ \A n \in Nodes : n < k => f[n] = PreorderStep(f, n)
           S == {k \in Nat : \E f : Def(f, k)}
<1>0. Nodes = 1 .. Len(prog.nodes) /\ Len(prog.nodes) \in Nat /\ Nodes \subseteq Nat
  BY ProgramFacts
<1>1. ASSUME NEW f, NEW g, NEW n \in Nodes, \A m \in Nodes : m < n => f[m] = g[m]
      PROVE  PreorderStep(f, n) = PreorderStep(g, n)
  <2>1. \A i \in DOMAIN Kids(n) : f[Kids(n)[i]] = g[Kids(n)[i]]
    BY <1>1, KidFacts
  <2>2. [i \in DOMAIN Kids(n) |-> f[Kids(n)[i]]] = [i \in DOMAIN Kids(n) |-> g[Kids(n)[i]]]
    BY <2>1
  <2> QED
    BY <2>2 DEF PreorderStep
<1>2. 0 \in S
  <2>1. Def([n \in Nodes |-> 0], 0)
    BY <1>0
  <2> QED
    BY <2>1
<1>3. ASSUME NEW k \in Nat, k \in S
      PROVE  k + 1 \in S
  <2>1. PICK f : Def(f, k)
    BY <1>3
  <2> DEFINE g == [n \in Nodes |-> IF n = k THEN PreorderStep(f, n) ELSE f[n]]
  <2>2. g = [n \in Nodes |-> g[n]] /\ \A n \in Nodes : g[n] = IF n = k THEN PreorderStep(f, n) ELSE f[n]
    OBVIOUS
  <2> HIDE DEF g
  <2>3. ASSUME NEW n \in Nodes, n < k + 1
        PROVE  g[n] = PreorderStep(g, n)
    <3>1. n \in Nat
      BY <1>0
    <3>2. PreorderStep(g, n) = PreorderStep(f, n)
      <4>1. \A m \in Nodes : m < n => g[m] = f[m]
        <5>1. ASSUME NEW m \in Nodes, m < n
              PROVE  m # k
          BY <1>0, <2>3, <3>1, <5>1
        <5> QED
          BY <2>2, <5>1
      <4> QED
        BY <1>1, <4>1
    <3>3. n # k => n < k
      BY <2>3, <3>1
    <3>4. n # k => f[n] = PreorderStep(f, n)
      BY <2>1, <3>3
    <3> QED
      BY <2>2, <3>2, <3>4
  <2>4. Def(g, k + 1)
    BY <2>2, <2>3
  <2> HIDE DEF Def
  <2> QED
    BY <2>4
<1>4. \A k \in Nat : k \in S
  <2> HIDE DEF S
  <2> QED
    BY <1>2, <1>3, Induction
<1>5. PICK f : Def(f, Len(prog.nodes) + 1)
  <2>1. Len(prog.nodes) + 1 \in S
    <3> HIDE DEF S
    <3> QED
      BY <1>0, <1>4
  <2> HIDE DEF Def
  <2> QED
    BY <2>1
<1>6. f = [n \in Nodes |-> PreorderStep(f, n)]
  BY <1>0, <1>5
<1> QED
  BY <1>6 DEF Preorder, PreorderStep

ReadsStep(f, n) ==
  IF Kind(n) = "op" THEN UNION {f[k] : k \in ToSet(Kids(n))}
  ELSE {n} \ {m \in Nodes : Kind(m) = "const"}

LEMMA ReadsDef ==
  ASSUME prog \in Programs
  PROVE  Reads = [n \in Nodes |-> ReadsStep(Reads, n)]
<1> DEFINE Def(f, k) == f = [n \in Nodes |-> f[n]] /\ \A n \in Nodes : n < k => f[n] = ReadsStep(f, n)
           S == {k \in Nat : \E f : Def(f, k)}
<1>0. Nodes = 1 .. Len(prog.nodes) /\ Len(prog.nodes) \in Nat /\ Nodes \subseteq Nat
  BY ProgramFacts
<1>1. ASSUME NEW f, NEW g, NEW n \in Nodes, \A m \in Nodes : m < n => f[m] = g[m]
      PROVE  ReadsStep(f, n) = ReadsStep(g, n)
  <2>1. \A i \in DOMAIN Kids(n) : f[Kids(n)[i]] = g[Kids(n)[i]]
    BY <1>1, KidFacts
  <2>2. \A k \in ToSet(Kids(n)) : f[k] = g[k]
    BY <2>1 DEF ToSet
  <2>3. {f[k] : k \in ToSet(Kids(n))} = {g[k] : k \in ToSet(Kids(n))}
    BY <2>2
  <2> QED
    BY <2>3 DEF ReadsStep
<1>2. 0 \in S
  <2>1. Def([n \in Nodes |-> 0], 0)
    BY <1>0
  <2> QED
    BY <2>1
<1>3. ASSUME NEW k \in Nat, k \in S
      PROVE  k + 1 \in S
  <2>1. PICK f : Def(f, k)
    BY <1>3
  <2> DEFINE g == [n \in Nodes |-> IF n = k THEN ReadsStep(f, n) ELSE f[n]]
  <2>2. g = [n \in Nodes |-> g[n]] /\ \A n \in Nodes : g[n] = IF n = k THEN ReadsStep(f, n) ELSE f[n]
    OBVIOUS
  <2> HIDE DEF g
  <2>3. ASSUME NEW n \in Nodes, n < k + 1
        PROVE  g[n] = ReadsStep(g, n)
    <3>1. n \in Nat
      BY <1>0
    <3>2. ReadsStep(g, n) = ReadsStep(f, n)
      <4>1. \A m \in Nodes : m < n => g[m] = f[m]
        <5>1. ASSUME NEW m \in Nodes, m < n
              PROVE  m # k
          BY <1>0, <2>3, <3>1, <5>1
        <5> QED
          BY <2>2, <5>1
      <4> QED
        BY <1>1, <4>1
    <3>3. n # k => n < k
      BY <2>3, <3>1
    <3>4. n # k => f[n] = ReadsStep(f, n)
      BY <2>1, <3>3
    <3> QED
      BY <2>2, <3>2, <3>4
  <2>4. Def(g, k + 1)
    BY <2>2, <2>3
  <2> HIDE DEF Def
  <2> QED
    BY <2>4
<1>4. \A k \in Nat : k \in S
  <2> HIDE DEF S
  <2> QED
    BY <1>2, <1>3, Induction
<1>5. PICK f : Def(f, Len(prog.nodes) + 1)
  <2>1. Len(prog.nodes) + 1 \in S
    <3> HIDE DEF S
    <3> QED
      BY <1>0, <1>4
  <2> HIDE DEF Def
  <2> QED
    BY <2>1
<1>6. f = [n \in Nodes |-> ReadsStep(f, n)]
  BY <1>0, <1>5
<1> QED
  BY <1>6 DEF Reads, ReadsStep

ValStep(f, n) ==
  LET is == [i \in DOMAIN Indices(n) |-> f[Indices(n)[i]]]
  IN  CASE Kind(n) = "const"  -> Sym(n)
        [] Kind(n) = "inputs" -> Null
        [] Kind(n) = "input"  -> Bound(<<Sym(n)>>)
        [] Kind(n) \in {"local", "array"} -> mem[home[Sym(n)]]
        [] Kind(n) = "len"    -> Lengths[f[Array(n)]]
        [] Kind(n) = "op"     ->
             LET vs == {f[k] : k \in ToSet(Kids(n))}
             IN  CHOOSE v \in vs : \A w \in vs : v <= w
        [] Kind(n) = "at"     ->
             IF Unknown \in ToSet(is) THEN Unknown
             ELSE IF IsInput(n) THEN Bound(<<Sym(Array(n))>> \o is)
             ELSE heap[f[Array(n)]][is[1]]

LEMMA ValDef ==
  ASSUME prog \in Programs
  PROVE  Val = [n \in Nodes |-> ValStep(Val, n)]
<1> DEFINE Def(f, k) == f = [n \in Nodes |-> f[n]] /\ \A n \in Nodes : n < k => f[n] = ValStep(f, n)
           S == {k \in Nat : \E f : Def(f, k)}
<1>0. Nodes = 1 .. Len(prog.nodes) /\ Len(prog.nodes) \in Nat /\ Nodes \subseteq Nat
  BY ProgramFacts
<1>1. ASSUME NEW f, NEW g, NEW n \in Nodes, \A m \in Nodes : m < n => f[m] = g[m]
      PROVE  ValStep(f, n) = ValStep(g, n)
  <2>1. \A i \in DOMAIN Kids(n) : f[Kids(n)[i]] = g[Kids(n)[i]]
    BY <1>1, KidFacts
  <2>2. CASE Kind(n) \in {"const", "local", "input", "array", "inputs"}
    BY <2>2 DEF ValStep
  <2>3. CASE Kind(n) = "len"
    <3>1. f[Array(n)] = g[Array(n)]
      BY <2>1, <2>3, OperandFacts
    <3> QED
      BY <2>3, <3>1 DEF ValStep
  <2>4. CASE Kind(n) = "op"
    <3>1. \A k \in ToSet(Kids(n)) : f[k] = g[k]
      BY <2>1 DEF ToSet
    <3>2. {f[k] : k \in ToSet(Kids(n))} = {g[k] : k \in ToSet(Kids(n))}
      BY <3>1
    <3> QED
      BY <2>4, <3>2 DEF ValStep
  <2>5. CASE Kind(n) = "at"
    <3>1. f[Array(n)] = g[Array(n)] /\ \A i \in DOMAIN Indices(n) : f[Indices(n)[i]] = g[Indices(n)[i]]
      BY <2>1, <2>5, OperandFacts
    <3>2. [i \in DOMAIN Indices(n) |-> f[Indices(n)[i]]] = [i \in DOMAIN Indices(n) |-> g[Indices(n)[i]]]
      BY <3>1
    <3> QED
      BY <2>5, <3>1, <3>2 DEF ValStep
  <2> QED
    BY <2>2, <2>3, <2>4, <2>5, ProgramFacts
<1>2. 0 \in S
  <2>1. Def([n \in Nodes |-> 0], 0)
    BY <1>0
  <2> QED
    BY <2>1
<1>3. ASSUME NEW k \in Nat, k \in S
      PROVE  k + 1 \in S
  <2>1. PICK f : Def(f, k)
    BY <1>3
  <2> DEFINE g == [n \in Nodes |-> IF n = k THEN ValStep(f, n) ELSE f[n]]
  <2>2. g = [n \in Nodes |-> g[n]] /\ \A n \in Nodes : g[n] = IF n = k THEN ValStep(f, n) ELSE f[n]
    OBVIOUS
  <2> HIDE DEF g
  <2>3. ASSUME NEW n \in Nodes, n < k + 1
        PROVE  g[n] = ValStep(g, n)
    <3>1. n \in Nat
      BY <1>0
    <3>2. ValStep(g, n) = ValStep(f, n)
      <4>1. \A m \in Nodes : m < n => g[m] = f[m]
        <5>1. ASSUME NEW m \in Nodes, m < n
              PROVE  m # k
          BY <1>0, <2>3, <3>1, <5>1
        <5> QED
          BY <2>2, <5>1
      <4> QED
        BY <1>1, <4>1
    <3>3. n # k => n < k
      BY <2>3, <3>1
    <3>4. n # k => f[n] = ValStep(f, n)
      BY <2>1, <3>3
    <3> QED
      BY <2>2, <3>2, <3>4
  <2>4. Def(g, k + 1)
    BY <2>2, <2>3
  <2> HIDE DEF Def
  <2> QED
    BY <2>4
<1>4. \A k \in Nat : k \in S
  <2> HIDE DEF S
  <2> QED
    BY <1>2, <1>3, Induction
<1>5. PICK f : Def(f, Len(prog.nodes) + 1)
  <2>1. Len(prog.nodes) + 1 \in S
    <3> HIDE DEF S
    <3> QED
      BY <1>0, <1>4
  <2> HIDE DEF Def
  <2> QED
    BY <2>1
<1>6. f = [n \in Nodes |-> ValStep(f, n)]
  BY <1>0, <1>5
<1> QED
  BY <1>6 DEF Val, ValStep

-----------------------------------------------------------------------------
(* The nodes below a node.                                                 *)

LEMMA PreorderType ==
  ASSUME prog \in Programs
  PROVE  \A n \in Nodes : Preorder[n] \in Seq(Nodes)
<1> DEFINE S == {n \in Nodes : Preorder[n] \in Seq(Nodes)}
           Parts(n) == [i \in DOMAIN Kids(n) |-> Preorder[Kids(n)[i]]]
<1>1. ASSUME NEW n \in Nodes, \A i \in DOMAIN Kids(n) : Kids(n)[i] \in S
      PROVE  n \in S
  <2>1. \A i \in DOMAIN Kids(n) : Preorder[Kids(n)[i]] \in Seq(Nodes)
    BY <1>1
  <2>2. Kids(n) \in Seq(1 .. n - 1)
    BY ProgramFacts
  <2>3. Parts(n) \in Seq(Seq(Nodes))
    BY <2>1, <2>2
  <2> HIDE DEF Parts
  <2>4. FlattenSeq(Parts(n)) \in Seq(Nodes)
    BY <2>3, FlattenSeqElements
  <2>5. Preorder[n] = <<n>> \o FlattenSeq(Parts(n))
    BY PreorderDef DEF PreorderStep, Parts
  <2>6. <<n>> \in Seq(Nodes)
    OBVIOUS
  <2>7. <<n>> \o FlattenSeq(Parts(n)) \in Seq(Nodes)
    BY <2>4, <2>6, ConcatElements
  <2> QED
    BY <2>5, <2>7
<1>2. \A n \in Nodes : n \in S
  <2> HIDE DEF S
  <2> QED
    BY <1>1, NodeInduction
<1> QED
  BY <1>2

LEMMA BelowStep ==
  ASSUME prog \in Programs, NEW n \in Nodes
  PROVE  /\ Tail(Preorder[n]) \in Seq(Nodes)
         /\ Below(n) = {n} \cup ToSet(Tail(Preorder[n]))
         /\ \A m : m \in ToSet(Tail(Preorder[n])) <=> \E i \in DOMAIN Kids(n) : m \in Below(Kids(n)[i])
<1> DEFINE parts == [i \in DOMAIN Kids(n) |-> Preorder[Kids(n)[i]]]
           rest == FlattenSeq(parts)
<1>1. Kids(n) \in Seq(1 .. n - 1) /\ \A i \in DOMAIN Kids(n) : Kids(n)[i] \in Nodes
  BY ProgramFacts, KidFacts
<1>2. parts \in Seq(Seq(Nodes)) /\ DOMAIN parts = 1 .. Len(parts) /\ DOMAIN parts = DOMAIN Kids(n)
  BY <1>1, PreorderType
<1>3. \A i \in DOMAIN parts : parts[i] = Preorder[Kids(n)[i]]
  OBVIOUS
<1>4. Preorder[n] = <<n>> \o rest
  BY PreorderDef DEF PreorderStep
<1> HIDE DEF parts
<1>5. rest \in Seq(Nodes) /\ \A x : x \in ToSet(rest) <=> \E i \in 1 .. Len(parts) : x \in ToSet(parts[i])
  BY <1>2, FlattenSeqElements
<1> HIDE DEF rest
<1>6. Tail(Preorder[n]) = rest
  BY <1>4, <1>5
<1>7. ToSet(<<n>>) = {n} /\ <<n>> \in Seq(Nodes)
  BY DEF ToSet
<1>8. Below(n) = {n} \cup ToSet(rest)
  <2>1. ToSet(<<n>> \o rest) = ToSet(<<n>>) \cup ToSet(rest)
    <3> DEFINE first == <<n>>
    <3>1. first \in Seq(Nodes)
      BY <1>7
    <3> HIDE DEF first
    <3>2. ToSet(first \o rest) = ToSet(first) \cup ToSet(rest)
      BY <1>5, <3>1, ConcatElements
    <3> QED
      BY <3>2 DEF first
  <2>2. Below(n) = ToSet(<<n>> \o rest)
    BY <1>4 DEF Below
  <2> QED
    BY <1>7, <2>1, <2>2
<1> QED
  BY <1>2, <1>3, <1>5, <1>6, <1>8 DEF Below

Closed(D) == D \subseteq Nodes /\ \A m \in D : \A i \in DOMAIN Kids(m) : Kids(m)[i] \in D

LEMMA BelowClosed ==
  ASSUME prog \in Programs
  PROVE  \A n \in Nodes : Closed(Below(n)) /\ n \in Below(n)
<1> DEFINE S == {n \in Nodes : Closed(Below(n))}
<1>1. ASSUME NEW n \in Nodes, \A i \in DOMAIN Kids(n) : Kids(n)[i] \in S
      PROVE  n \in S
  <2>1. \A i \in DOMAIN Kids(n) : Closed(Below(Kids(n)[i])) /\ Kids(n)[i] \in Below(Kids(n)[i])
    BY <1>1, BelowStep, KidFacts
  <2>2. Below(n) \subseteq Nodes
    BY BelowStep DEF ToSet
  <2>3. ASSUME NEW m \in Below(n), NEW i \in DOMAIN Kids(m)
        PROVE  Kids(m)[i] \in Below(n)
    <3>1. CASE m = n
      <4>1. i \in DOMAIN Kids(n) /\ Kids(n)[i] \in Below(Kids(n)[i])
        BY <2>1, <3>1
      <4>2. Kids(n)[i] \in Below(n)
        BY <4>1, BelowStep
      <4> QED
        BY <3>1, <4>2
    <3>2. CASE m # n
      <4>1. PICK j \in DOMAIN Kids(n) : m \in Below(Kids(n)[j])
        <5>1. m \in ToSet(Tail(Preorder[n]))
          BY <3>2, BelowStep
        <5> QED
          BY <5>1, BelowStep
      <4>2. Kids(m)[i] \in Below(Kids(n)[j])
        BY <2>1, <4>1 DEF Closed
      <4>3. Kids(m)[i] \in ToSet(Tail(Preorder[n]))
        BY <4>1, <4>2, BelowStep
      <4> QED
        BY <4>3, BelowStep
    <3> QED
      BY <3>1, <3>2
  <2> QED
    BY <2>2, <2>3 DEF Closed
<1>2. \A n \in Nodes : n \in S
  <2> HIDE DEF S
  <2> QED
    BY <1>1, NodeInduction
<1> QED
  BY <1>2, BelowStep

\* What gen_expr reads of an operand is below it.
LEMMA ReadsBelow ==
  ASSUME prog \in Programs
  PROVE  \A n \in Nodes : n \in Scalars =>
           \A m \in Reads[n] :
             /\ m \in Below(n) /\ Kind(m) \in {"local", "len", "input", "at"}
             /\ m # n => m \in ToSet(Tail(Preorder[n]))
<1> DEFINE R(n) == \A m \in Reads[n] :
                     /\ m \in Below(n) /\ Kind(m) \in {"local", "len", "input", "at"}
                     /\ m # n => m \in ToSet(Tail(Preorder[n]))
           S == {n \in Nodes : n \in Scalars => R(n)}
<1>1. ASSUME NEW n \in Nodes, \A i \in DOMAIN Kids(n) : Kids(n)[i] \in S
      PROVE  n \in S
  <2> SUFFICES ASSUME n \in Scalars
               PROVE  R(n)
    OBVIOUS
  <2>0. Reads[n] = ReadsStep(Reads, n)
    BY ReadsDef
  <2>1. CASE Kind(n) = "op"
    <3> SUFFICES ASSUME NEW m \in Reads[n]
                 PROVE  /\ m \in Below(n) /\ Kind(m) \in {"local", "len", "input", "at"}
                        /\ m \in ToSet(Tail(Preorder[n]))
      OBVIOUS
    <3>1. PICK i \in DOMAIN Kids(n) : m \in Reads[Kids(n)[i]]
      BY <2>0, <2>1 DEF ReadsStep, ToSet
    <3>2. Kids(n)[i] \in Scalars
      BY <2>1, ProgramFacts
    <3>3. m \in Below(Kids(n)[i]) /\ Kind(m) \in {"local", "len", "input", "at"}
      BY <1>1, <3>1, <3>2
    <3> QED
      BY <3>3, BelowStep
  <2>2. CASE Kind(n) # "op"
    <3>1. Reads[n] = {n} \ {m \in Nodes : Kind(m) = "const"}
      BY <2>0, <2>2 DEF ReadsStep
    <3>2. Kind(n) \in {"const", "local", "input", "array", "inputs", "at", "len", "op"}
      BY ProgramFacts
    <3> QED
      BY <2>2, <3>1, <3>2, BelowStep DEF Scalars
  <2> QED
    BY <2>1, <2>2
<1>2. \A n \in Nodes : n \in S
  <2> HIDE DEF S
  <2> QED
    BY <1>1, NodeInduction
<1> QED
  BY <1>2

-----------------------------------------------------------------------------
(* What the compiled code computes of nodes for which nothing is drawn.    *)

LEMMA UnknownIsNoValue == Unknown \notin Values /\ Null \notin Slots
BY ConditionsAssumption DEF Unknown, Null

\* The variables hold values, the arrays hold blocks.
MemoryOK ==
  /\ DOMAIN heap \subseteq Blocks
  /\ \A b \in DOMAIN heap : heap[b] \in [Values -> Values]
  /\ \A v \in DOMAIN home :
       IF v \in Arrays THEN mem[home[v]] \in DOMAIN heap ELSE mem[home[v]] \in Values
  /\ \A key \in DOMAIN binding : binding[key] \in Values

Defined(D) == \A n \in D : Kind(n) \in {"local", "array"} => Sym(n) \in DOMAIN home

\* No input of the nodes D is left to be drawn.
Drawn(D) == \A m \in D : ~ (IsInput(m) /\ Val[m] = Unknown /\ Unknown \notin ToSet(IdxVals(m)))

LEMMA WantedIsDrawn ==
  ASSUME NEW ns
  PROVE  Wanted(ns) = {} <=> Drawn(UNION {Below(k) : k \in ns})
BY DEF Wanted, Drawn

LEMMA ArraySyms ==
  ASSUME prog \in Programs, NEW n \in Nodes
  PROVE  /\ Kind(n) = "array" => Sym(n) \in Arrays
         /\ Kind(n) = "local" => Sym(n) \notin Arrays
BY ProgramFacts DEF Arrays

LEMMA ArrayValue ==
  ASSUME prog \in Programs, MemoryOK, NEW n \in Nodes, Kind(n) = "array", Sym(n) \in DOMAIN home
  PROVE  Val[n] = mem[home[Sym(n)]] /\ Val[n] \in DOMAIN heap /\ Val[n] \in Blocks
<1>1. Val[n] = mem[home[Sym(n)]]
  BY ValDef DEF ValStep
<1> QED
  BY <1>1, ArraySyms DEF MemoryOK

LEMMA ValuesOK ==
  ASSUME prog \in Programs, MemoryOK, NEW D, Closed(D), Defined(D), Drawn(D)
  PROVE  \A n \in D \cap Scalars : Val[n] \in Values
<1> DEFINE S == {n \in Nodes : n \in D \cap Scalars => Val[n] \in Values}
<1>1. ASSUME NEW n \in Nodes, \A i \in DOMAIN Kids(n) : Kids(n)[i] \in S
      PROVE  n \in S
  <2> SUFFICES ASSUME n \in D, n \in Scalars
               PROVE  Val[n] \in Values
    OBVIOUS
  <2>0. Val[n] = ValStep(Val, n)
    BY ValDef
  <2>a. \A i \in DOMAIN Kids(n) : Kids(n)[i] \in Scalars => Val[Kids(n)[i]] \in Values
    BY <1>1 DEF Closed
  <2>b. ~ (IsInput(n) /\ Val[n] = Unknown /\ Unknown \notin ToSet(IdxVals(n)))
    BY DEF Drawn
  <2>1. CASE Kind(n) = "const"
    BY <2>0, <2>1, ProgramFacts DEF ValStep
  <2>2. CASE Kind(n) = "input"
    <3>1. IdxVals(n) = <<>>
      BY <2>2, OperandFacts DEF IdxVals
    <3>2. IsInput(n) /\ ToSet(IdxVals(n)) = {}
      BY <2>2, <3>1 DEF IsInput, ToSet
    <3>3. Val[n] = Bound(<<Sym(n)>>)
      BY <2>0, <2>2 DEF ValStep
    <3>4. Bound(<<Sym(n)>>) # Unknown
      BY <2>b, <3>2, <3>3
    <3> QED
      BY <3>3, <3>4 DEF Bound, MemoryOK
  <2>3. CASE Kind(n) = "local"
    <3>1. Val[n] = mem[home[Sym(n)]]
      BY <2>0, <2>3 DEF ValStep
    <3>2. Sym(n) \in DOMAIN home /\ Sym(n) \notin Arrays
      BY <2>3, ArraySyms DEF Defined
    <3> QED
      BY <3>1, <3>2 DEF MemoryOK
  <2>4. CASE Kind(n) = "len"
    <3>1. 1 \in DOMAIN Kids(n) /\ Array(n) = Kids(n)[1] /\ Kind(Array(n)) = "array"
      BY <2>4, OperandFacts, ProgramFacts
    <3>2. Array(n) \in D /\ Array(n) \in Nodes
      BY <3>1 DEF Closed
    <3>3. Val[Array(n)] \in Blocks
      BY <3>1, <3>2, ArrayValue DEF Defined
    <3>4. Val[n] = Lengths[Val[Array(n)]]
      BY <2>0, <2>4 DEF ValStep
    <3> QED
      BY <3>3, <3>4, ConditionsAssumption
  <2>5. CASE Kind(n) = "op"
    <3> DEFINE vs == {Val[k] : k \in ToSet(Kids(n))}
    <3>1. Kids(n) # <<>> /\ (\A i \in DOMAIN Kids(n) : Kids(n)[i] \in Scalars) /\ Kids(n) \in Seq(1 .. n - 1)
      BY <2>5, ProgramFacts
    <3>2. vs \subseteq Values
      BY <2>a, <3>1 DEF ToSet
    <3>3. vs # {}
      <4>1. 1 \in DOMAIN Kids(n)
        BY <3>1
      <4> QED
        BY <4>1 DEF ToSet
    <3>4. Val[n] = CHOOSE v \in vs : \A w \in vs : v <= w
      BY <2>0, <2>5 DEF ValStep
    <3> HIDE DEF vs
    <3>5. vs \subseteq Nat
      BY <3>2, ConditionsAssumption
    <3>6. \E v \in vs : \A w \in vs : v <= w
      BY <3>3, <3>5, LeastNat
    <3>7. Val[n] \in vs
      BY <3>4, <3>6
    <3> QED
      BY <3>2, <3>7
  <2>6. CASE Kind(n) = "at"
    <3>1. /\ 1 \in DOMAIN Kids(n) /\ Array(n) = Kids(n)[1]
          /\ Array(n) \in D /\ Array(n) \in Nodes
      BY <2>6, OperandFacts DEF Closed
    <3>2. /\ Len(Kids(n)) \in Nat /\ Len(Kids(n)) >= 2 /\ DOMAIN Indices(n) = 1 .. Len(Kids(n)) - 1
          /\ \A i \in DOMAIN Indices(n) :
               i + 1 \in DOMAIN Kids(n) /\ Indices(n)[i] = Kids(n)[i + 1]
      BY <2>6, OperandFacts
    <3>3. \A i \in 2 .. Len(Kids(n)) : Kids(n)[i] \in Scalars
      BY <2>6, ProgramFacts
    <3>4. \A i \in DOMAIN Indices(n) : i + 1 \in 2 .. Len(Kids(n))
      BY <3>2
    <3>5. \A i \in DOMAIN Indices(n) : Val[Indices(n)[i]] \in Values
      BY <2>a, <3>2, <3>3, <3>4
    <3> DEFINE is == [i \in DOMAIN Indices(n) |-> Val[Indices(n)[i]]]
    <3>6. Unknown \notin ToSet(is) /\ is = IdxVals(n)
      BY <3>5, UnknownIsNoValue DEF ToSet, IdxVals
    <3>7. 1 \in DOMAIN is /\ is[1] \in Values
      BY <3>2, <3>5
    <3>8. CASE IsInput(n)
      <4>1. Val[n] = Bound(<<Sym(Array(n))>> \o is)
        BY <2>0, <2>6, <3>6, <3>8 DEF ValStep
      <4>2. Val[n] # Unknown
        BY <2>b, <3>6, <3>8
      <4> QED
        BY <4>1, <4>2 DEF Bound, MemoryOK
    <3>9. CASE ~ IsInput(n)
      <4>1. Kind(Array(n)) = "array"
        BY <2>6, <3>9, ProgramFacts DEF IsInput
      <4>2. Val[n] = heap[Val[Array(n)]][is[1]]
        BY <2>0, <2>6, <3>6, <3>9 DEF ValStep
      <4>3. Val[Array(n)] \in DOMAIN heap
        BY <3>1, <4>1, ArrayValue DEF Defined
      <4>4. heap[Val[Array(n)]] \in [Values -> Values]
        BY <4>3 DEF MemoryOK
      <4> QED
        BY <3>7, <4>2, <4>4
    <3> QED
      BY <3>8, <3>9
  <2> QED
    BY <2>1, <2>2, <2>3, <2>4, <2>5, <2>6, ProgramFacts DEF Scalars
<1>2. \A n \in Nodes : n \in S
  <2> HIDE DEF S
  <2> QED
    BY <1>1, NodeInduction
<1> QED
  BY <1>2 DEF Closed

-----------------------------------------------------------------------------
(* What a step that keeps the program and the memory changes.              *)

LEMMA SameProgram ==
  ASSUME prog' = prog
  PROVE  /\ Nodes' = Nodes /\ Locals' = Locals /\ Arrays' = Arrays /\ Lookups' = Lookups
         /\ \A n : /\ Kind(n)' = Kind(n) /\ Sym(n)' = Sym(n) /\ Kids(n)' = Kids(n)
                   /\ Array(n)' = Array(n) /\ Indices(n)' = Indices(n) /\ IsInput(n)' = IsInput(n)
         /\ Preorder' = Preorder /\ Reads' = Reads
<1>1. /\ Nodes' = Nodes /\ Locals' = Locals /\ Arrays' = Arrays /\ Lookups' = Lookups
      /\ \A n : /\ Kind(n)' = Kind(n) /\ Sym(n)' = Sym(n) /\ Kids(n)' = Kids(n)
                /\ Array(n)' = Array(n) /\ Indices(n)' = Indices(n) /\ IsInput(n)' = IsInput(n)
  BY DEF Nodes, Locals, Arrays, Lookups, Kind, Sym, Kids, Array, Indices, IsInput
<1>2. Preorder' = Preorder
  BY DEF Preorder, Nodes, Kids
<1>3. Reads' = Reads
  BY DEF Reads, Nodes, Kids, Kind
<1> QED
  BY <1>1, <1>2, <1>3

LEMMA SameBelow ==
  ASSUME prog' = prog
  PROVE  /\ \A n : Below(n)' = Below(n)
         /\ \A b : ReadBy(b)' = ReadBy(b) /\ Visits(b)' = Visits(b)
BY SameProgram DEF Below, ReadBy, Visits

LEMMA ValEquation == prog \in Programs => Val = [n \in Nodes |-> ValStep(Val, n)]
BY ValDef

LEMMA ValEquationNext == (prog \in Programs => Val = [n \in Nodes |-> ValStep(Val, n)])'
BY ValEquation, PTL

\* The inputs that have a value keep it.
Keeps == \A key \in DOMAIN binding : key \in DOMAIN binding' /\ binding'[key] = binding[key]

\* Nodes for which nothing is left to be drawn keep their values.
LEMMA ValuesKept ==
  ASSUME prog \in Programs, UNCHANGED <<prog, memory>>, Keeps, NEW D, Closed(D), Drawn(D)
  PROVE  \A n \in D : Val'[n] = Val[n]
<1> DEFINE S == {n \in Nodes : n \in D => Val'[n] = Val[n]}
<1>0. prog' = prog /\ home' = home /\ mem' = mem /\ heap' = heap
  BY DEF memory
<1>1. ASSUME NEW n \in Nodes, \A i \in DOMAIN Kids(n) : Kids(n)[i] \in S
      PROVE  n \in S
  <2> SUFFICES ASSUME n \in D
               PROVE  Val'[n] = Val[n]
    OBVIOUS
  <2>1. /\ Kind(n)' = Kind(n) /\ Sym(n)' = Sym(n) /\ Kids(n)' = Kids(n)
        /\ Array(n)' = Array(n) /\ Indices(n)' = Indices(n) /\ IsInput(n)' = IsInput(n)
        /\ Sym(Array(n))' = Sym(Array(n))
    BY <1>0, SameProgram
  <2>2. Val[n] = ValStep(Val, n)
    BY ValDef
  <2>3. Val'[n] = ValStep(Val, n)'
    <3>1. Nodes' = Nodes
      BY <1>0, SameProgram
    <3> QED
      BY <1>0, <3>1, ValEquationNext
  <2>4. \A i \in DOMAIN Kids(n) : Val'[Kids(n)[i]] = Val[Kids(n)[i]]
    BY <1>1 DEF Closed
  <2>5. \A key : Bound(key) # Unknown => Bound(key)' = Bound(key)
    BY DEF Bound, Keeps
  <2>6. ~ (IsInput(n) /\ Val[n] = Unknown /\ Unknown \notin ToSet(IdxVals(n)))
    BY DEF Drawn
  <2>7. CASE Kind(n) \in {"const", "local", "array", "inputs"}
    BY <1>0, <2>1, <2>2, <2>3, <2>7 DEF ValStep
  <2>8. CASE Kind(n) = "input"
    <3>1. ToSet(IdxVals(n)) = {} /\ IsInput(n)
      BY <2>8, OperandFacts DEF IdxVals, ToSet, IsInput
    <3>2. PICK key : key = <<Sym(n)>>
      OBVIOUS
    <3>3. Val[n] = Bound(key)
      BY <2>2, <2>8, <3>2 DEF ValStep
    <3>4. Val'[n] = Bound(key)'
      <4>1. Val'[n] = Bound(<<Sym(n)>>)'
        BY <2>1, <2>3, <2>8 DEF ValStep
      <4> QED
        BY <2>1, <3>2, <4>1 DEF Bound
    <3> QED
      BY <2>5, <2>6, <3>1, <3>3, <3>4
  <2>9. CASE Kind(n) = "len"
    <3>1. Val'[Array(n)] = Val[Array(n)]
      BY <2>4, <2>9, OperandFacts
    <3> QED
      BY <2>1, <2>2, <2>3, <2>9, <3>1 DEF ValStep
  <2>10. CASE Kind(n) = "op"
    <3>1. {Val[k] : k \in ToSet(Kids(n))} = {Val'[k] : k \in ToSet(Kids(n))}
      BY <2>4 DEF ToSet
    <3> QED
      BY <2>1, <2>2, <2>3, <2>10, <3>1 DEF ValStep
  <2>11. CASE Kind(n) = "at"
    <3> DEFINE is == [i \in DOMAIN Indices(n) |-> Val[Indices(n)[i]]]
    <3>1. Val'[Array(n)] = Val[Array(n)]
      BY <2>4, <2>11, OperandFacts
    <3>2. is = [i \in DOMAIN Indices(n) |-> Val'[Indices(n)[i]]]
      BY <2>4, <2>11, OperandFacts
    <3>3. CASE Unknown \in ToSet(is)
      BY <2>1, <2>2, <2>3, <2>11, <3>2, <3>3 DEF ValStep
    <3>4. CASE Unknown \notin ToSet(is) /\ IsInput(n)
      <4>1. PICK key : key = <<Sym(Array(n))>> \o is
        OBVIOUS
      <4>2. Val[n] = Bound(key)
        BY <2>2, <2>11, <3>4, <4>1 DEF ValStep
      <4>3. Val'[n] = Bound(key)'
        <5>1. Val'[n] = Bound(<<Sym(Array(n))>> \o is)'
          BY <2>1, <2>3, <2>11, <3>2, <3>4 DEF ValStep
        <5>2. (<<Sym(Array(n))>> \o is)' = key
          BY <2>1, <3>2, <4>1
        <5> QED
          BY <5>1, <5>2 DEF Bound
      <4>4. Val[n] # Unknown
        BY <2>6, <3>4 DEF IdxVals
      <4> QED
        BY <2>5, <4>2, <4>3, <4>4
    <3>5. CASE Unknown \notin ToSet(is) /\ ~ IsInput(n)
      <4>1. /\ Val[n] = heap[Val[Array(n)]][is[1]]
            /\ Val'[n] = heap[Val[Array(n)]][is[1]]
        BY <1>0, <2>1, <2>2, <2>3, <2>11, <3>1, <3>2, <3>5 DEF ValStep
      <4> QED
        BY <4>1
    <3> QED
      BY <3>3, <3>4, <3>5
  <2> QED
    BY <2>7, <2>8, <2>9, <2>10, <2>11, ProgramFacts
<1>2. \A n \in Nodes : n \in S
  <2> HIDE DEF S
  <2> QED
    BY <1>1, NodeInduction
<1> QED
  BY <1>2 DEF Closed

LEMMA DrawnKept ==
  ASSUME prog \in Programs, UNCHANGED <<prog, memory>>, Keeps, NEW D, Closed(D), Drawn(D)
  PROVE  /\ Drawn(D)'
         /\ \A n \in Nodes : ToSet(Indices(n)) \subseteq D =>
              IdxVals(n)' = IdxVals(n) /\ Place(n)' = Place(n)
<1>0. /\ prog' = prog /\ home' = home /\ mem' = mem
      /\ \A n : Sym(n)' = Sym(n) /\ Kind(n)' = Kind(n) /\ Indices(n)' = Indices(n)
                /\ IsInput(n)' = IsInput(n) /\ Array(n)' = Array(n)
  BY SameProgram DEF memory
<1>1. \A n \in D : Val'[n] = Val[n]
  BY ValuesKept
<1>2. ASSUME NEW n, ToSet(Indices(n)) \subseteq D
      PROVE  IdxVals(n)' = IdxVals(n)
  <2>1. \A i \in DOMAIN Indices(n) : Val'[Indices(n)[i]] = Val[Indices(n)[i]]
    BY <1>1, <1>2 DEF ToSet
  <2>2. IdxVals(n)' = [i \in DOMAIN Indices(n) |-> Val'[Indices(n)[i]]]
    BY <1>0 DEF IdxVals
  <2> QED
    BY <2>1, <2>2 DEF IdxVals
<1>3. ASSUME NEW n \in Nodes, ToSet(Indices(n)) \subseteq D
      PROVE  Place(n)' = Place(n)
  <2>1. Sym(Array(n))' = Sym(Array(n))
    BY <1>0
  <2>2. IdxVals(n)' = IdxVals(n)
    BY <1>2, <1>3
  <2>3. Kind(n)' = Kind(n) /\ Sym(n)' = Sym(n) /\ IsInput(n)' = IsInput(n)
    BY <1>0
  <2> QED
    BY <1>0, <2>1, <2>2, <2>3 DEF Place
<1>4. Drawn(D)'
  <2>1. ASSUME NEW n \in D
        PROVE  ToSet(Indices(n)) \subseteq D
    BY OperandFacts DEF Closed, ToSet
  <2>2. \A n \in D : IsInput(n)' = IsInput(n) /\ Val'[n] = Val[n] /\ IdxVals(n)' = IdxVals(n)
    BY <1>0, <1>1, <1>2, <2>1
  <2> QED
    BY <2>2 DEF Drawn
<1> QED
  BY <1>2, <1>3, <1>4

LEMMA SameState ==
  ASSUME UNCHANGED <<prog, memory, binding>>
  PROVE  /\ Val' = Val
         /\ \A n : IdxVals(n)' = IdxVals(n) /\ Place(n)' = Place(n)
         /\ \A ns : Wanted(ns)' = Wanted(ns)
<1>0. prog' = prog /\ home' = home /\ mem' = mem /\ heap' = heap /\ binding' = binding
  BY DEF memory
<1>1. Val' = Val
  BY <1>0 DEF Val, Nodes, Kids, Kind, Sym, Array, Indices, IsInput, Bound
<1>2. \A n : IdxVals(n)' = IdxVals(n)
  BY <1>0, <1>1, SameProgram DEF IdxVals
<1>3. ASSUME NEW n
      PROVE  Place(n)' = Place(n)
  <2>1. Kind(n)' = Kind(n) /\ Sym(n)' = Sym(n) /\ IsInput(n)' = IsInput(n) /\ Sym(Array(n))' = Sym(Array(n))
    BY <1>0, SameProgram
  <2> QED
    BY <1>0, <1>2, <2>1 DEF Place
<1>4. \A ns : Wanted(ns)' = Wanted(ns)
  <2>1. \A n : IsInput(n)' = IsInput(n) /\ Below(n)' = Below(n)
    BY <1>0, SameProgram, SameBelow
  <2> QED
    BY <1>1, <1>2, <1>3, <2>1 DEF Wanted
<1> QED
  BY <1>1, <1>2, <1>3, <1>4

-----------------------------------------------------------------------------
(* The inductive invariant: what prepare_eval_ctx has visited is looked up *)
(* where it is now.                                                        *)

BranchNodes(b) == Below(b.cond) \cup (IF b.pre = 0 THEN {} ELSE Below(b.pre))

\* The context of a node is what the compiled code would set now.
Fresh(n) ==
  /\ Kind(n) \in {"local", "array"} => addr[Sym(n)] = home[Sym(n)]
  /\ Kind(n) = "len" => addr[Sym(Array(n))] = home[Sym(Array(n))]
  /\ Kind(n) = "at" => /\ Wanted(ToSet(Indices(n))) = {}
                       /\ IF IsInput(n) THEN idxs[n] = IdxVals(n) ELSE ptr[n] = Place(n)

MemoryInv ==
  /\ DOMAIN home \subseteq Locals /\ DOMAIN mem \subseteq Slots
  /\ \A v \in DOMAIN home : home[v] \in DOMAIN mem
  /\ \A v, w \in DOMAIN home : home[v] = home[w] => v = w
  /\ \A a \in DOMAIN mem : mem[a] \in Values \cup DOMAIN heap
  /\ MemoryOK

ContextInv ==
  /\ addr \in [Locals -> Slots \cup {Null}]
  /\ DOMAIN ptr = Lookups /\ DOMAIN idxs = Lookups

BranchInv ==
  /\ pc \in {"run", "prepare", "eval", "undefined"}
  /\ branch \in prog.branches \cup {NoBranch}
  /\ todo \in Seq(Nodes)
  /\ pc \in {"eval", "undefined"} => todo = <<>>
  /\ pc # "run" =>
       /\ branch \in prog.branches /\ Defined(BranchNodes(branch))
       /\ ToSet(todo) \subseteq ToSet(Visits(branch))
       /\ \A n \in ToSet(Visits(branch)) \ ToSet(todo) : Fresh(n)

IInv == prog \in Programs /\ MemoryInv /\ ContextInv /\ BranchInv /\ DecidedOnSame

\* Children of a branch are nodes, and closed.
LEMMA BranchFacts ==
  ASSUME prog \in Programs, NEW b \in prog.branches
  PROVE  /\ b.cond \in Scalars /\ b.pre \in Scalars \cup {0} /\ Scalars \subseteq Nodes /\ 0 \notin Nodes
         /\ Closed(BranchNodes(b))
         /\ Visits(b) \in Seq(Nodes) /\ ToSet(Visits(b)) \subseteq BranchNodes(b)
         /\ \A m \in ReadBy(b) :
              /\ m \in Nodes /\ Kind(m) \in {"local", "len", "input", "at"}
              /\ m # b.cond => m \in ToSet(Visits(b))
<1>1. /\ b.cond \in Scalars /\ b.pre \in Scalars \cup {0} /\ Scalars \subseteq Nodes /\ 0 \notin Nodes
  BY ProgramFacts DEF Scalars
<1>2. Closed(BranchNodes(b))
  BY <1>1, BelowClosed DEF BranchNodes, Closed
<1> DEFINE pre == IF b.pre = 0 THEN <<>> ELSE Preorder[b.pre]
           rest == Tail(Preorder[b.cond])
<1>3. pre \in Seq(Nodes) /\ rest \in Seq(Nodes)
  BY <1>1, PreorderType, BelowStep
<1>4. ToSet(pre) = IF b.pre = 0 THEN {} ELSE Below(b.pre)
  BY DEF ToSet, Below
<1>5. Visits(b) = pre \o rest
  BY DEF Visits
<1>6. ToSet(rest) \subseteq Below(b.cond)
  BY <1>1, BelowStep
<1>7. Visits(b) \in Seq(Nodes) /\ ToSet(Visits(b)) = ToSet(pre) \cup ToSet(rest)
  <2> HIDE DEF pre, rest
  <2> QED
    BY <1>3, <1>5, ConcatElements
<1> HIDE DEF pre
<1>8. ToSet(Visits(b)) \subseteq BranchNodes(b)
  BY <1>4, <1>6, <1>7 DEF BranchNodes
<1>9. ASSUME NEW m \in ReadBy(b)
      PROVE  /\ m \in Nodes /\ Kind(m) \in {"local", "len", "input", "at"}
             /\ m # b.cond => m \in ToSet(Visits(b))
  <2>1. CASE m \in Reads[b.cond]
    <3>1. /\ m \in Below(b.cond) /\ Kind(m) \in {"local", "len", "input", "at"}
          /\ m # b.cond => m \in ToSet(rest)
      BY <1>1, <2>1, ReadsBelow
    <3> QED
      BY <1>1, <1>7, <3>1, BelowClosed DEF Closed
  <2>2. CASE b.pre # 0 /\ m \in Reads[b.pre]
    <3>1. m \in Below(b.pre) /\ Kind(m) \in {"local", "len", "input", "at"}
      BY <1>1, <2>2, ReadsBelow
    <3> QED
      BY <1>1, <1>4, <1>7, <2>2, <3>1, BelowClosed DEF Closed
  <2> QED
    BY <2>1, <2>2 DEF ReadBy
<1> QED
  BY <1>1, <1>2, <1>7, <1>8, <1>9

\* The operands of a visited or read node are nodes of the branch.
LEMMA OperandsBelow ==
  ASSUME prog \in Programs, NEW D, Closed(D), NEW n \in D
  PROVE  /\ Kind(n) \in {"len", "at"} => Array(n) \in D
         /\ ToSet(Indices(n)) \subseteq D \cap Scalars
         /\ \A k \in ToSet(Indices(n)) : k \in Nodes
         /\ UNION {Below(k) : k \in ToSet(Indices(n))} \subseteq Nodes
         /\ Closed(UNION {Below(k) : k \in ToSet(Indices(n))})
         /\ ToSet(Indices(n)) \subseteq UNION {Below(k) : k \in ToSet(Indices(n))}
<1>1. n \in Nodes
  BY DEF Closed
<1>2. Kind(n) \in {"len", "at"} => Array(n) \in D
  BY <1>1, OperandFacts DEF Closed
<1>3. ToSet(Indices(n)) \subseteq D \cap Scalars
  <2>1. CASE Kind(n) = "at"
    <3>1. \A i \in 2 .. Len(Kids(n)) : Kids(n)[i] \in Scalars
      BY <1>1, <2>1, ProgramFacts
    <3>2. \A i \in DOMAIN Indices(n) : Indices(n)[i] = Kids(n)[i + 1] /\ i + 1 \in DOMAIN Kids(n)
                                       /\ i + 1 \in 2 .. Len(Kids(n))
      BY <1>1, <2>1, OperandFacts
    <3>3. \A i \in DOMAIN Indices(n) : Indices(n)[i] \in D \cap Scalars
      BY <3>1, <3>2 DEF Closed
    <3> QED
      BY <3>3 DEF ToSet
  <2>2. CASE Kind(n) # "at"
    BY <1>1, <2>2, OperandFacts DEF ToSet
  <2> QED
    BY <2>1, <2>2
<1>4. \A k \in ToSet(Indices(n)) : k \in Nodes
  BY <1>3 DEF Closed
<1>5. \A k \in ToSet(Indices(n)) : Closed(Below(k)) /\ k \in Below(k)
  BY <1>4, BelowClosed
<1>6. Closed(UNION {Below(k) : k \in ToSet(Indices(n))})
  BY <1>5 DEF Closed
<1> QED
  BY <1>2, <1>3, <1>4, <1>5, <1>6 DEF Closed

\* An index array whose inputs are drawn holds values.
LEMMA IndexValues ==
  ASSUME prog \in Programs, MemoryOK, NEW D, Closed(D), Defined(D), NEW n \in D,
         Kind(n) = "at", Wanted(ToSet(Indices(n))) = {}
  PROVE  /\ \A i \in DOMAIN Indices(n) : Val[Indices(n)[i]] \in Values
         /\ Unknown \notin ToSet(IdxVals(n)) /\ IdxVals(n) \in Seq(Values)
         /\ Len(IdxVals(n)) >= 1 /\ IdxVals(n)[1] = Val[Indices(n)[1]]
<1> DEFINE below == UNION {Below(k) : k \in ToSet(Indices(n))}
<1>1. Closed(below) /\ ToSet(Indices(n)) \subseteq below \cap Scalars
  BY OperandsBelow
<1>2. Drawn(below)
  BY WantedIsDrawn
<1>3. below \subseteq D
  <2> DEFINE S == {k \in Nodes : k \in D => Below(k) \subseteq D}
  <2>1. ASSUME NEW k \in Nodes, \A i \in DOMAIN Kids(k) : Kids(k)[i] \in S
        PROVE  k \in S
    <3> SUFFICES ASSUME k \in D, NEW m \in Below(k), m # k
                 PROVE  m \in D
      OBVIOUS
    <3>1. m \in ToSet(Tail(Preorder[k]))
      BY BelowStep
    <3>2. PICK i \in DOMAIN Kids(k) : m \in Below(Kids(k)[i])
      BY <3>1, BelowStep
    <3>3. Kids(k)[i] \in S /\ Kids(k)[i] \in D
      BY <2>1, <3>2 DEF Closed
    <3> QED
      BY <3>2, <3>3
  <2>2. \A k \in Nodes : k \in S
    <3> HIDE DEF S
    <3> QED
      BY <2>1, NodeInduction
  <2>3. \A k \in ToSet(Indices(n)) : k \in Nodes /\ k \in D
    BY OperandsBelow
  <2> QED
    BY <2>2, <2>3
<1>4. Defined(below)
  BY <1>3 DEF Defined
<1> HIDE DEF below
<1>5. \A k \in below \cap Scalars : Val[k] \in Values
  BY <1>1, <1>2, <1>4, ValuesOK
<1>6. \A i \in DOMAIN Indices(n) : Val[Indices(n)[i]] \in Values
  BY <1>1, <1>5 DEF ToSet
<1>7. n \in Nodes
  BY DEF Closed
<1>8. DOMAIN Indices(n) = 1 .. Len(Kids(n)) - 1 /\ Len(Kids(n)) \in Nat /\ Len(Kids(n)) >= 2
  BY <1>7, OperandFacts
<1>9. IdxVals(n) = [i \in 1 .. Len(Kids(n)) - 1 |-> Val[Indices(n)[i]]]
  BY <1>8 DEF IdxVals
<1>10. IdxVals(n) \in Seq(Values)
  BY <1>6, <1>8, <1>9
<1>11. Len(IdxVals(n)) = Len(Kids(n)) - 1
  BY <1>8, <1>9
<1>12. Unknown \notin ToSet(IdxVals(n))
  BY <1>10, UnknownIsNoValue DEF ToSet
<1> QED
  BY <1>6, <1>8, <1>9, <1>10, <1>11, <1>12

\* What gen_expr finds of a node whose context is fresh.
LEMMA FreshIsFound ==
  ASSUME prog \in Programs, MemoryInv, NEW D, Closed(D), Defined(D), NEW n \in D, Fresh(n),
         Kind(n) \in {"local", "len", "input", "at"}
  PROVE  /\ Readable(n) /\ Sought(n) = Place(n)
         /\ Term(n) = IF IsInput(n) THEN Place(n) ELSE Val[n]
<1>0. n \in Nodes
  BY DEF Closed
<1>a. MemoryOK /\ \A v \in DOMAIN home : home[v] \in DOMAIN mem
  BY DEF MemoryInv
<1>b. Val[n] = ValStep(Val, n)
  BY <1>0, ValDef
<1>1. CASE Kind(n) = "local"
  <2>1. addr[Sym(n)] = home[Sym(n)] /\ Sym(n) \in DOMAIN home
    BY <1>1 DEF Fresh, Defined
  <2>2. Sought(n) = addr[Sym(n)] /\ Place(n) = home[Sym(n)] /\ (Readable(n) <=> Sought(n) \in DOMAIN mem)
    BY <1>1 DEF Sought, Place, Readable
  <2>3. ~ IsInput(n)
    BY <1>1 DEF IsInput
  <2>4. Term(n) = mem[Sought(n)] /\ Val[n] = mem[home[Sym(n)]]
    BY <1>1, <1>b, <2>3 DEF Term, ValStep
  <2> QED
    BY <1>a, <2>1, <2>2, <2>3, <2>4
<1>2. CASE Kind(n) = "len"
  <2>1. Array(n) \in D /\ Array(n) \in Nodes /\ Kind(Array(n)) = "array"
    BY <1>0, <1>2, OperandsBelow, ProgramFacts DEF Closed
  <2>2. addr[Sym(Array(n))] = home[Sym(Array(n))] /\ Sym(Array(n)) \in DOMAIN home
    BY <1>2, <2>1 DEF Fresh, Defined
  <2>3. /\ Sought(n) = addr[Sym(Array(n))] /\ Place(n) = home[Sym(Array(n))]
        /\ (Readable(n) <=> Sought(n) \in DOMAIN mem)
    BY <1>2 DEF Sought, Place, Readable
  <2>4. ~ IsInput(n)
    BY <1>2 DEF IsInput
  <2>5. Term(n) = Lengths[mem[Sought(n)]] /\ Val[n] = Lengths[Val[Array(n)]]
    BY <1>2, <1>b, <2>4 DEF Term, ValStep
  <2>6. Val[Array(n)] = mem[home[Sym(Array(n))]]
    BY <1>a, <2>1, <2>2, ArrayValue
  <2> QED
    BY <1>a, <2>2, <2>3, <2>4, <2>5, <2>6
<1>3. CASE Kind(n) = "input"
  BY <1>3 DEF Sought, Place, Readable, Term, IsInput
<1>4. CASE Kind(n) = "at" /\ IsInput(n)
  <2>1. idxs[n] = IdxVals(n) /\ Wanted(ToSet(Indices(n))) = {}
    BY <1>4 DEF Fresh
  <2>2. IdxVals(n) \in Seq(Values) /\ Len(IdxVals(n)) >= 1
    BY <1>4, <1>a, <2>1, IndexValues
  <2>3. idxs[n] # <<>>
    BY <2>1, <2>2
  <2> QED
    BY <1>4, <2>1, <2>3 DEF Sought, Place, Readable, Term
<1>5. CASE Kind(n) = "at" /\ ~ IsInput(n)
  <2>1. ptr[n] = Place(n) /\ Wanted(ToSet(Indices(n))) = {}
    BY <1>5 DEF Fresh
  <2>2. /\ IdxVals(n) \in Seq(Values) /\ Len(IdxVals(n)) >= 1 /\ Unknown \notin ToSet(IdxVals(n))
        /\ IdxVals(n)[1] = Val[Indices(n)[1]]
    BY <1>5, <1>a, <2>1, IndexValues
  <2>3. Array(n) \in D /\ Array(n) \in Nodes /\ Kind(Array(n)) = "array"
    BY <1>0, <1>5, OperandsBelow, ProgramFacts DEF Closed, IsInput
  <2>4. Sym(Array(n)) \in DOMAIN home
    BY <2>3 DEF Defined
  <2>5. Val[Array(n)] = mem[home[Sym(Array(n))]] /\ Val[Array(n)] \in DOMAIN heap
    BY <1>a, <2>3, <2>4, ArrayValue
  <2>6. ptr[n] = <<Val[Array(n)]>> \o IdxVals(n)
    BY <1>5, <2>1, <2>5 DEF Place
  <2>7. ptr[n] # <<>> /\ ptr[n][1] = Val[Array(n)] /\ ptr[n][2] = IdxVals(n)[1]
    <3>1. Len(IdxVals(n)) \in Nat /\ IdxVals(n) \in Seq(Values)
      BY <2>2
    <3> DEFINE found == <<Val[Array(n)]>> \o IdxVals(n)
    <3>2. Len(found) = 1 + Len(IdxVals(n)) /\ found[1] = Val[Array(n)]
      BY <3>1
    <3>3. found[2] = IdxVals(n)[1]
      BY <2>2, <3>1
    <3>4. found = <<>> => Len(found) = 0
      OBVIOUS
    <3> HIDE DEF found
    <3>5. found # <<>> /\ found[1] = Val[Array(n)] /\ found[2] = IdxVals(n)[1]
      BY <3>1, <3>2, <3>3, <3>4
    <3>6. ptr[n] = found
      BY <2>6 DEF found
    <3> QED
      BY <3>5, <3>6
  <2>8. Readable(n) /\ Sought(n) = Place(n)
    BY <1>5, <2>1, <2>5, <2>7 DEF Readable, Sought
  <2>9. Term(n) = heap[ptr[n][1]][ptr[n][2]]
    BY <1>5 DEF Term
  <2> DEFINE is == [i \in DOMAIN Indices(n) |-> Val[Indices(n)[i]]]
  <2>10. is = IdxVals(n)
    BY DEF IdxVals
  <2>11. Val[n] = heap[Val[Array(n)]][IdxVals(n)[1]]
    BY <1>5, <1>b, <2>2, <2>10 DEF ValStep
  <2> QED
    BY <1>5, <2>7, <2>8, <2>9, <2>11
<1> QED
  BY <1>1, <1>2, <1>3, <1>4, <1>5

\* The visited nodes, and the locals among what is read that have the symbol
\* of a visited one, are fresh when everything was visited.
LEMMA RefreshedFresh ==
  ASSUME IInv, pc # "run", todo = <<>>
  PROVE  /\ \A n \in ReadBy(branch) \ {branch.cond} : n \in Refreshed
         /\ \A n \in Refreshed :
              /\ n \in BranchNodes(branch) /\ Kind(n) \in {"local", "len", "input", "at"} /\ Fresh(n)
<1>1. prog \in Programs /\ branch \in prog.branches
  BY DEF IInv, BranchInv
<1>2. \A n \in ToSet(Visits(branch)) : Fresh(n)
  <2>1. ToSet(todo) = {}
    BY DEF ToSet
  <2> QED
    BY <2>1 DEF IInv, BranchInv
<1>3. ReadBy(branch) \subseteq BranchNodes(branch)
  BY <1>1, BranchFacts, ReadsBelow DEF ReadBy, BranchNodes
<1>4. \A n \in ReadBy(branch) : Kind(n) \in {"local", "len", "input", "at"}
  BY <1>1, BranchFacts
<1>5. ASSUME NEW n \in Refreshed
      PROVE  Fresh(n)
  <2>1. CASE n \in ToSet(Visits(branch))
    BY <1>2, <2>1
  <2>2. CASE Kind(n) = "input"
    BY <2>2 DEF Fresh
  <2>3. CASE /\ Kind(n) = "local"
             /\ Sym(n) \in {Sym(m) : m \in {k \in ToSet(Visits(branch)) : Kind(k) \in {"local", "array"}}}
    <3>1. PICK m \in ToSet(Visits(branch)) : Kind(m) \in {"local", "array"} /\ Sym(m) = Sym(n)
      BY <2>3
    <3> QED
      BY <1>2, <2>3, <3>1 DEF Fresh
  <2> QED
    BY <2>1, <2>2, <2>3 DEF Refreshed
<1>6. \A n \in ReadBy(branch) \ {branch.cond} : n \in Refreshed
  BY <1>1, BranchFacts DEF Refreshed
<1>7. Refreshed \subseteq ReadBy(branch)
  BY DEF Refreshed
<1> QED
  BY <1>3, <1>4, <1>5, <1>6, <1>7

\* What the invariant says of a branch when everything was visited.
LEMMA VisitedIsFound ==
  ASSUME IInv, pc # "run", todo = <<>>
  PROVE  /\ \A n \in ReadBy(branch) \ {branch.cond} : n \in Refreshed
         /\ \A n \in Refreshed :
              /\ Readable(n) /\ Sought(n) = Place(n)
              /\ Term(n) = IF IsInput(n) THEN Place(n) ELSE Val[n]
<1>1. prog \in Programs /\ branch \in prog.branches /\ MemoryInv /\ Defined(BranchNodes(branch))
  BY DEF IInv, BranchInv
<1>2. Closed(BranchNodes(branch))
  BY <1>1, BranchFacts
<1> QED
  BY <1>1, <1>2, RefreshedFresh, FreshIsFound

LEMMA IInvImplies ==
  ASSUME IInv
  PROVE  TypeOK /\ ContextFresh /\ UndefinedOnlyAtRoot
<1>1. TypeOK
  <2>1. /\ prog \in Programs /\ MemoryInv /\ ContextInv /\ BranchInv
    BY DEF IInv
  <2>2. ToSet(todo) \subseteq Nodes
    BY <2>1 DEF ToSet, BranchInv
  <2>3. DOMAIN home \subseteq Locals /\ Range(home) \subseteq DOMAIN mem
    BY <2>1 DEF MemoryInv, Range
  <2>4. DOMAIN mem \subseteq Slots /\ Range(mem) \subseteq Values \cup DOMAIN heap
    BY <2>1 DEF MemoryInv, Range
  <2>5. DOMAIN heap \subseteq Blocks /\ Range(binding) \subseteq Values
    BY <2>1 DEF MemoryInv, MemoryOK, Range
  <2>6. \A v \in Locals : addr[v] \in Slots \cup {Null}
    BY <2>1 DEF ContextInv
  <2> QED
    BY <2>1, <2>2, <2>3, <2>4, <2>5, <2>6 DEF TypeOK, BranchInv
<1>2. ContextFresh
  BY VisitedIsFound DEF ContextFresh, Solving
<1>3. UndefinedOnlyAtRoot
  <2> SUFFICES ASSUME pc = "undefined", NEW n \in ReadBy(branch), ~ Readable(n)
               PROVE  n \in {branch.cond} \ Refreshed
    BY DEF UndefinedOnlyAtRoot
  <2>1. todo = <<>>
    BY DEF IInv, BranchInv
  <2> QED
    BY <2>1, VisitedIsFound
<1> QED
  BY <1>1, <1>2, <1>3

-----------------------------------------------------------------------------
(* The steps of the program.                                               *)

LEMMA InitInv == Init => IInv
<1> SUFFICES ASSUME Init
             PROVE  IInv
  OBVIOUS
<1>1. MemoryInv
  BY DEF Init, MemoryInv, MemoryOK
<1>2. ContextInv
  BY DEF Init, ContextInv
<1>3. BranchInv
  BY DEF Init, BranchInv
<1>4. DecidedOnSame
  BY DEF Init, DecidedOnSame
<1> QED
  BY <1>1, <1>2, <1>3, <1>4 DEF Init, IInv

LEMMA DefineMemory ==
  ASSUME IInv, NEW v \in Locals, Define(v)
  PROVE  MemoryInv'
<1>0. MemoryInv /\ MemoryOK /\ prog' = prog /\ binding' = binding
  BY DEF IInv, MemoryInv, Define
<1>1. Locals' = Locals /\ Arrays' = Arrays
  BY <1>0, SameProgram
<1>2. PICK a \in Slots \ DOMAIN mem :
        /\ home' = With(home, v, a)
        /\ IF v \in Arrays
           THEN \E b \in Blocks \ DOMAIN heap :
                  /\ mem' = With(mem, a, b)
                  /\ \E h \in [Values -> Values] : heap' = With(heap, b, h)
           ELSE /\ \E x \in Values : mem' = With(mem, a, x)
                /\ UNCHANGED heap
  BY DEF Define
<1>3. /\ DOMAIN home' = {v} \cup DOMAIN home /\ home'[v] = a
      /\ \A w \in DOMAIN home : w # v => home'[w] = home[w]
  BY <1>2 DEF With, Extend
<1>4. /\ DOMAIN home \subseteq Locals /\ DOMAIN mem \subseteq Slots
      /\ \A w \in DOMAIN home : home[w] \in DOMAIN mem /\ home[w] # a
      /\ \A u, w \in DOMAIN home : home[u] = home[w] => u = w
      /\ \A s \in DOMAIN mem : mem[s] \in Values \cup DOMAIN heap
  BY <1>0, <1>2 DEF MemoryInv
<1>5. \A u, w \in DOMAIN home' : home'[u] = home'[w] => u = w
  BY <1>3, <1>4
\* The new slot holds x, the heap holds what it held and perhaps one block more.
<1>6. PICK x : /\ mem' = With(mem, a, x)
               /\ DOMAIN heap \subseteq DOMAIN heap' /\ DOMAIN heap' \subseteq Blocks
               /\ \A b \in DOMAIN heap' : heap'[b] \in [Values -> Values]
               /\ IF v \in Arrays THEN x \in DOMAIN heap' ELSE x \in Values
  <2>1. CASE v \in Arrays
    <3>1. PICK b \in Blocks \ DOMAIN heap :
            /\ mem' = With(mem, a, b)
            /\ \E h \in [Values -> Values] : heap' = With(heap, b, h)
      BY <1>2, <2>1
    <3>2. PICK h \in [Values -> Values] : heap' = With(heap, b, h)
      BY <3>1
    <3>3. /\ DOMAIN heap' = {b} \cup DOMAIN heap /\ heap'[b] = h
          /\ \A c \in DOMAIN heap : c # b => heap'[c] = heap[c]
      BY <3>2 DEF With, Extend
    <3>4. \A c \in DOMAIN heap' : heap'[c] \in [Values -> Values]
      BY <1>0, <3>1, <3>3 DEF MemoryOK
    <3>5. DOMAIN heap' \subseteq Blocks
      BY <1>0, <3>3 DEF MemoryOK
    <3> QED
      BY <2>1, <3>1, <3>3, <3>4, <3>5
  <2>2. CASE v \notin Arrays
    BY <1>0, <1>2, <2>2 DEF MemoryOK
  <2> QED
    BY <2>1, <2>2
<1>7. /\ DOMAIN mem' = {a} \cup DOMAIN mem /\ mem'[a] = x
      /\ \A s \in DOMAIN mem : s # a => mem'[s] = mem[s]
  BY <1>6 DEF With, Extend
<1>8. \A w \in DOMAIN home' : home'[w] \in DOMAIN mem'
  BY <1>3, <1>4, <1>7
<1>9. \A s \in DOMAIN mem' : mem'[s] \in Values \cup DOMAIN heap'
  BY <1>4, <1>6, <1>7
<1>10. ASSUME NEW w \in DOMAIN home'
       PROVE  IF w \in Arrays THEN mem'[home'[w]] \in DOMAIN heap' ELSE mem'[home'[w]] \in Values
  <2>1. CASE w = v
    BY <1>3, <1>6, <1>7, <2>1
  <2>2. CASE w # v
    <3>1. w \in DOMAIN home /\ home'[w] = home[w] /\ mem'[home'[w]] = mem[home[w]]
      BY <1>3, <1>4, <1>7, <2>2
    <3> QED
      BY <1>0, <1>6, <3>1 DEF MemoryOK
  <2> QED
    BY <2>1, <2>2
<1>11. MemoryOK'
  BY <1>0, <1>1, <1>6, <1>10 DEF MemoryOK
<1>12. DOMAIN home' \subseteq Locals /\ DOMAIN mem' \subseteq Slots
  BY <1>2, <1>3, <1>4, <1>7
<1> QED
  BY <1>1, <1>5, <1>8, <1>9, <1>11, <1>12 DEF MemoryInv

LEMMA AssignMemory ==
  ASSUME IInv, NEW v \in Locals, Assign(v)
  PROVE  MemoryInv'
<1>0. MemoryInv /\ MemoryOK /\ prog' = prog /\ binding' = binding /\ home' = home /\ heap' = heap
  BY DEF IInv, MemoryInv, Assign
<1>1. Locals' = Locals /\ Arrays' = Arrays
  BY <1>0, SameProgram
<1>2. v \in DOMAIN home /\ home[v] \in DOMAIN mem
  BY <1>0 DEF Assign, MemoryInv
<1>3. PICK x : /\ mem' = [mem EXCEPT ![home[v]] = x]
               /\ IF v \in Arrays THEN x \in DOMAIN heap ELSE x \in Values
  BY DEF Assign
<1>4. /\ DOMAIN mem' = DOMAIN mem /\ mem'[home[v]] = x
      /\ \A s \in DOMAIN mem : s # home[v] => mem'[s] = mem[s]
  BY <1>2, <1>3
<1>5. ASSUME NEW w \in DOMAIN home
      PROVE  IF w \in Arrays THEN mem'[home[w]] \in DOMAIN heap ELSE mem'[home[w]] \in Values
  <2>1. CASE w = v
    BY <1>3, <1>4, <2>1
  <2>2. CASE w # v
    <3>1. home[w] # home[v] /\ home[w] \in DOMAIN mem
      BY <1>0, <1>2, <2>2 DEF MemoryInv
    <3> QED
      BY <1>0, <1>4, <3>1 DEF MemoryOK
  <2> QED
    BY <2>1, <2>2
<1>6. MemoryOK'
  BY <1>0, <1>1, <1>5 DEF MemoryOK
<1>7. \A s \in DOMAIN mem' : mem'[s] \in Values \cup DOMAIN heap
  BY <1>0, <1>3, <1>4 DEF MemoryInv
<1> QED
  BY <1>0, <1>1, <1>4, <1>6, <1>7 DEF MemoryInv

LEMMA AssignElementMemory ==
  ASSUME IInv, NEW v \in Locals, AssignElement(v)
  PROVE  MemoryInv'
<1>0. MemoryInv /\ MemoryOK /\ prog' = prog /\ binding' = binding /\ home' = home /\ mem' = mem
  BY DEF IInv, MemoryInv, AssignElement
<1>1. Locals' = Locals /\ Arrays' = Arrays
  BY <1>0, SameProgram
<1>2. PICK i \in Values, x \in Values : heap' = [heap EXCEPT ![mem[home[v]]][i] = x]
  BY DEF AssignElement
<1>3. DOMAIN heap' = DOMAIN heap
  BY <1>2
<1>4. \A b \in DOMAIN heap : heap'[b] \in [Values -> Values]
  <2> SUFFICES ASSUME NEW b \in DOMAIN heap
               PROVE  heap'[b] \in [Values -> Values]
    OBVIOUS
  <2>1. heap[b] \in [Values -> Values]
    BY <1>0 DEF MemoryOK
  <2>2. heap'[b] = IF b = mem[home[v]] THEN [heap[b] EXCEPT ![i] = x] ELSE heap[b]
    BY <1>2
  <2> QED
    BY <2>1, <2>2
<1>5. MemoryOK'
  BY <1>0, <1>1, <1>3, <1>4 DEF MemoryOK
<1> QED
  BY <1>0, <1>1, <1>3, <1>5 DEF MemoryInv

LEMMA ProgramStep ==
  ASSUME IInv, (\E v \in Locals : Define(v) \/ Assign(v) \/ AssignElement(v)) \/ EndTest
  PROVE  IInv'
<1>1. MemoryInv'
  <2>1. CASE EndTest
    BY <2>1 DEF EndTest, MemoryInv, MemoryOK
  <2> QED
    BY <2>1, DefineMemory, AssignMemory, AssignElementMemory
<1>2. /\ pc = "run" /\ pc' = "run" /\ prog' = prog /\ branch' = branch /\ todo' = todo
      /\ addr' = addr /\ ptr' = ptr /\ idxs' = idxs
  BY DEF Define, Assign, AssignElement, EndTest, Idle, context
<1>3. Locals' = Locals /\ Lookups' = Lookups /\ Nodes' = Nodes
  BY <1>2, SameProgram
<1>4. ContextInv'
  BY <1>2, <1>3 DEF IInv, ContextInv
<1>5. BranchInv'
  BY <1>2, <1>3 DEF IInv, BranchInv
<1>6. DecidedOnSame'
  BY <1>2 DEF DecidedOnSame
<1> QED
  BY <1>1, <1>2, <1>4, <1>5, <1>6 DEF IInv

-----------------------------------------------------------------------------
(* Drawing and solving: inputs get values, and keep those they have.       *)

\* An input that is drawn has no value.
LEMMA WantedIsUnbound ==
  ASSUME prog \in Programs, MemoryOK, NEW ns, ns \subseteq Nodes, NEW key \in Wanted(ns)
  PROVE  key \notin DOMAIN binding
<1>1. PICK m \in UNION {Below(k) : k \in ns} :
        key = Place(m) /\ IsInput(m) /\ Val[m] = Unknown /\ Unknown \notin ToSet(IdxVals(m))
  BY DEF Wanted
<1>2. m \in Nodes
  BY BelowClosed DEF Closed
<1>3. Val[m] = ValStep(Val, m)
  BY <1>2, ValDef
<1>4. Val[m] = Bound(key)
  <2>1. CASE Kind(m) = "input"
    BY <1>1, <1>3, <2>1 DEF ValStep, Place
  <2>2. CASE Kind(m) = "at"
    <3> DEFINE is == [i \in DOMAIN Indices(m) |-> Val[Indices(m)[i]]]
    <3>1. is = IdxVals(m)
      BY DEF IdxVals
    <3>2. Val[m] = Bound(<<Sym(Array(m))>> \o is)
      BY <1>1, <1>3, <2>2, <3>1 DEF ValStep
    <3>3. key = <<Sym(Array(m))>> \o is
      BY <1>1, <2>2, <3>1 DEF Place
    <3> QED
      BY <3>2, <3>3
  <2> QED
    BY <1>1, <2>1, <2>2 DEF IsInput
<1>5. key \in DOMAIN binding => Bound(key) \in Values
  BY DEF Bound, MemoryOK
<1> QED
  BY <1>1, <1>4, <1>5, UnknownIsNoValue

\* What was fresh is.
LEMMA FreshKept ==
  ASSUME prog \in Programs, UNCHANGED <<prog, memory, context>>, Keeps, NEW n \in Nodes, Fresh(n)
  PROVE  Fresh(n)'
<1> DEFINE below == UNION {Below(k) : k \in ToSet(Indices(n))}
<1>0. /\ addr' = addr /\ ptr' = ptr /\ idxs' = idxs /\ home' = home /\ prog' = prog
      /\ Kind(n)' = Kind(n) /\ Sym(n)' = Sym(n) /\ Sym(Array(n))' = Sym(Array(n))
      /\ IsInput(n)' = IsInput(n) /\ Indices(n)' = Indices(n)
  BY SameProgram DEF context, memory
<1>1. Kind(n) = "at" =>
        /\ Wanted(ToSet(Indices(n)))' = {}
        /\ IdxVals(n)' = IdxVals(n) /\ Place(n)' = Place(n)
  <2> SUFFICES ASSUME Kind(n) = "at"
               PROVE  /\ Wanted(ToSet(Indices(n)))' = {}
                      /\ IdxVals(n)' = IdxVals(n) /\ Place(n)' = Place(n)
    OBVIOUS
  <2>1. Closed(Nodes)
    BY KidFacts DEF Closed
  <2>2. Closed(below) /\ ToSet(Indices(n)) \subseteq below
    BY <2>1, OperandsBelow
  <2>3. Wanted(ToSet(Indices(n))) = {}
    BY DEF Fresh
  <2>4. Drawn(below)
    BY <2>3, WantedIsDrawn
  <2>5. below = UNION {Below(k)' : k \in ToSet(Indices(n))}
    BY <1>0, SameBelow
  <2> HIDE DEF below
  <2>a. PICK D : D = below
    OBVIOUS
  <2>6. /\ Drawn(D)'
        /\ IdxVals(n)' = IdxVals(n) /\ Place(n)' = Place(n)
    BY <2>2, <2>4, <2>a, DrawnKept
  <2>7. \A m \in below : ~ (IsInput(m) /\ Val[m] = Unknown /\ Unknown \notin ToSet(IdxVals(m)))'
    BY <2>6, <2>a DEF Drawn
  <2>8. Wanted(ToSet(Indices(n)))' = {}
    BY <1>0, <2>5, <2>7 DEF Wanted
  <2> QED
    BY <2>6, <2>8
<1> QED
  BY <1>0, <1>1 DEF Fresh

\* The value of what was fresh is kept, and where it is.
LEMMA FreshValueKept ==
  ASSUME prog \in Programs, UNCHANGED <<prog, memory>>, Keeps, NEW n \in Nodes, Fresh(n),
         Kind(n) \in {"local", "len", "input", "at"}
  PROVE  /\ Place(n)' = Place(n) /\ IsInput(n)' = IsInput(n)
         /\ ~ IsInput(n) => Val'[n] = Val[n]
<1> DEFINE below == UNION {Below(k) : k \in ToSet(Indices(n))}
           D == {n} \cup {k \in ToSet(Kids(n)) : Kind(k) = "array"} \cup below
<1>0. prog' = prog /\ IsInput(n)' = IsInput(n)
  BY SameProgram
<1>1. Closed(Nodes)
  BY KidFacts DEF Closed
<1>2. Closed(below) /\ ToSet(Indices(n)) \subseteq below
  BY <1>1, OperandsBelow
<1>3. Drawn(below)
  <2>1. Kind(n) # "at" => ToSet(Indices(n)) = {}
    BY OperandFacts DEF ToSet
  <2>2. Kind(n) = "at" => Wanted(ToSet(Indices(n))) = {}
    BY DEF Fresh
  <2>3. Kind(n) # "at" => below = {}
    BY <2>1
  <2> QED
    BY <2>2, <2>3, WantedIsDrawn DEF Drawn
<1> HIDE DEF below
<1>4. Place(n)' = Place(n)
  BY <1>2, <1>3, DrawnKept
<1>5. ASSUME ~ IsInput(n)
      PROVE  Val'[n] = Val[n]
  <2>1. Kids(n) \in Seq(1 .. n - 1) /\ \A i \in DOMAIN Kids(n) : Kids(n)[i] \in Nodes
    BY ProgramFacts, KidFacts
  <2>2. \A k \in ToSet(Kids(n)) : k \in Nodes
    BY <2>1 DEF ToSet
  <2>3. \A i \in DOMAIN Kids(n) : Kids(n)[i] \in D
    <3>1. CASE Kind(n) = "at"
      <4>1. Kind(Array(n)) = "array" /\ Array(n) \in ToSet(Kids(n))
        BY <1>5, <3>1, ProgramFacts, OperandFacts DEF IsInput, ToSet
      <4>2. ASSUME NEW i \in DOMAIN Kids(n), i # 1
            PROVE  Kids(n)[i] \in ToSet(Indices(n))
        <5>1. i - 1 \in DOMAIN Indices(n) /\ (i - 1) + 1 = i
          BY <2>1, <3>1, <4>2, OperandFacts
        <5>2. Indices(n)[i - 1] = Kids(n)[(i - 1) + 1]
          BY <3>1, <5>1, OperandFacts
        <5> QED
          BY <5>1, <5>2 DEF ToSet
      <4>3. Kids(n)[1] = Array(n)
        BY DEF Array
      <4> QED
        BY <1>2, <4>1, <4>2, <4>3
    <3>2. CASE Kind(n) = "len"
      <4>1. Kind(Array(n)) = "array" /\ Array(n) \in ToSet(Kids(n)) /\ Len(Kids(n)) = 1
        BY <3>2, ProgramFacts, OperandFacts DEF ToSet
      <4>2. \A i \in DOMAIN Kids(n) : Kids(n)[i] = Array(n)
        BY <2>1, <4>1 DEF Array
      <4> QED
        BY <4>1, <4>2
    <3>3. CASE Kind(n) \in {"local", "input"}
      <4>1. Kids(n) = <<>>
        BY <3>3, ProgramFacts
      <4> QED
        BY <4>1
    <3> QED
      BY <3>1, <3>2, <3>3
  <2>4. \A k \in Nodes : Kind(k) = "array" => Kids(k) = <<>>
    BY ProgramFacts
  <2>5. Closed(D)
    BY <1>2, <2>2, <2>3, <2>4 DEF Closed
  <2>6. Drawn(D)
    <3>1. \A k \in Nodes : Kind(k) = "array" => ~ IsInput(k)
      BY DEF IsInput
    <3> QED
      BY <1>3, <1>5, <2>2, <3>1 DEF Drawn
  <2> HIDE DEF D
  <2>7. \A k \in D : Val'[k] = Val[k]
    BY <2>5, <2>6, ValuesKept
  <2> QED
    BY <2>7 DEF D
<1> QED
  BY <1>0, <1>4, <1>5

\* The step gives values to inputs only.
Binds == UNCHANGED <<prog, branch, todo, memory, context>> /\ Keeps
         /\ \A key \in DOMAIN binding' : binding'[key] \in Values

LEMMA BindsInv ==
  ASSUME IInv, Binds, pc # "run", pc' \in {pc, "eval"}, pc' # pc => todo = <<>>
  PROVE  MemoryInv' /\ ContextInv' /\ BranchInv'
<1>0. /\ prog' = prog /\ branch' = branch /\ todo' = todo
      /\ home' = home /\ mem' = mem /\ heap' = heap
      /\ addr' = addr /\ ptr' = ptr /\ idxs' = idxs
  BY DEF Binds, memory, context
<1>1. /\ prog \in Programs /\ branch \in prog.branches
      /\ MemoryInv /\ ContextInv /\ BranchInv
  BY DEF IInv, BranchInv
<1>2. /\ Locals' = Locals /\ Arrays' = Arrays /\ Lookups' = Lookups /\ Nodes' = Nodes
      /\ \A n : Kind(n)' = Kind(n) /\ Sym(n)' = Sym(n) /\ Below(n)' = Below(n)
      /\ \A b : Visits(b)' = Visits(b)
  BY <1>0, SameProgram, SameBelow
<1>3. MemoryOK'
  BY <1>0, <1>1, <1>2 DEF MemoryInv, MemoryOK, Binds
<1>4. MemoryInv'
  BY <1>0, <1>1, <1>2, <1>3 DEF MemoryInv
<1>5. ContextInv'
  BY <1>0, <1>1, <1>2 DEF ContextInv
<1>6. \A n \in ToSet(Visits(branch)) \ ToSet(todo) : Fresh(n)'
  <2>1. ToSet(Visits(branch)) \subseteq Nodes
    BY <1>1, BranchFacts DEF Closed
  <2>2. \A n \in ToSet(Visits(branch)) \ ToSet(todo) : Fresh(n)
    BY <1>1 DEF BranchInv
  <2> QED
    BY <1>1, <2>1, <2>2, FreshKept DEF Binds
<1>7. Defined(BranchNodes(branch))'
  <2>1. Defined(BranchNodes(branch))
    BY <1>1 DEF BranchInv
  <2> QED
    BY <1>0, <1>2, <2>1 DEF Defined, BranchNodes
<1>8. BranchInv'
  <2>1. pc' \in {"run", "prepare", "eval", "undefined"} /\ (pc' \in {"eval", "undefined"} => todo' = <<>>)
    BY <1>0, <1>1 DEF BranchInv
  <2>2. branch' \in prog'.branches /\ todo' \in Seq(Nodes') /\ ToSet(todo') \subseteq ToSet(Visits(branch)')
    BY <1>0, <1>1, <1>2 DEF BranchInv
  <2>3. \A n \in ToSet(Visits(branch)') \ ToSet(todo') : Fresh(n)'
    BY <1>0, <1>2, <1>6
  <2> QED
    BY <1>7, <2>1, <2>2, <2>3 DEF BranchInv
<1> QED
  BY <1>4, <1>5, <1>8

LEMMA SameRefreshed ==
  ASSUME UNCHANGED <<prog, branch>>
  PROVE  Refreshed' = Refreshed
<1>1. /\ \A n : Kind(n)' = Kind(n) /\ Sym(n)' = Sym(n)
      /\ Visits(branch)' = Visits(branch) /\ ReadBy(branch)' = ReadBy(branch)
  BY SameProgram, SameBelow
<1> QED
  BY <1>1 DEF Refreshed

\* Values that inputs get change nothing that was given to the solver.
LEMMA BindsDecided ==
  ASSUME IInv, Binds, pc # "run", todo = <<>>,
         \A n \in Refreshed : seen'[n] = IF IsInput(n) THEN Place(n) ELSE Val[n]
  PROVE  DecidedOnSame'
<1>1. prog \in Programs /\ UNCHANGED <<prog, memory>> /\ Keeps /\ Refreshed' = Refreshed
  BY SameRefreshed DEF IInv, Binds
<1>2. \A n \in Refreshed : n \in Nodes /\ Kind(n) \in {"local", "len", "input", "at"} /\ Fresh(n)
  <2>1. branch \in prog.branches
    BY DEF IInv, BranchInv
  <2> QED
    BY <1>1, <2>1, RefreshedFresh, BranchFacts DEF Closed
<1>3. \A n \in Refreshed : /\ Place(n)' = Place(n) /\ IsInput(n)' = IsInput(n)
                           /\ ~ IsInput(n) => Val'[n] = Val[n]
  BY <1>1, <1>2, FreshValueKept
<1> QED
  BY <1>1, <1>3 DEF DecidedOnSame

LEMMA DrawBinds ==
  ASSUME IInv, NEW ns, ns \subseteq Nodes, Draw(ns)
  PROVE  Binds
<1>1. PICK key \in Wanted(ns), x \in Values : binding' = With(binding, key, x)
  BY DEF Draw
<1>2. prog \in Programs /\ MemoryOK
  BY DEF IInv, MemoryInv
<1>3. key \notin DOMAIN binding
  BY <1>2, WantedIsUnbound
<1>4. /\ DOMAIN binding' = {key} \cup DOMAIN binding /\ binding'[key] = x
      /\ \A k \in DOMAIN binding : k # key => binding'[k] = binding[k]
  BY <1>1 DEF With, Extend
<1>5. Keeps
  BY <1>3, <1>4 DEF Keeps
<1>6. \A k \in DOMAIN binding' : binding'[k] \in Values
  BY <1>2, <1>4 DEF MemoryOK
<1> QED
  BY <1>5, <1>6 DEF Binds, Draw

LEMMA DrawStep ==
  ASSUME IInv, DrawIndices \/ DrawCondition
  PROVE  IInv'
<1>1. prog \in Programs /\ todo \in Seq(Nodes)
  BY DEF IInv, BranchInv
<1>2. CASE DrawIndices
  <2>1. pc = "prepare" /\ todo # <<>> /\ Draw(ToSet(Indices(Head(todo))))
    BY <1>2 DEF DrawIndices, Visiting
  <2>2. Head(todo) \in Nodes
    BY <1>1, <2>1
  <2>3. Closed(Nodes)
    BY <1>1, KidFacts DEF Closed
  <2>4. ToSet(Indices(Head(todo))) \subseteq Nodes
    BY <1>1, <2>2, <2>3, OperandsBelow
  <2>5. Binds /\ pc' = pc
    BY <2>1, <2>4, DrawBinds DEF Draw
  <2>6. MemoryInv' /\ ContextInv' /\ BranchInv'
    BY <2>1, <2>5, BindsInv
  <2>7. DecidedOnSame'
    BY <2>1, <2>5 DEF DecidedOnSame
  <2> QED
    BY <2>5, <2>6, <2>7 DEF IInv, Binds
<1>3. CASE DrawCondition
  <2>1. pc = "eval" /\ Draw({branch.cond})
    BY <1>3 DEF DrawCondition
  <2>2. todo = <<>> /\ branch \in prog.branches
    BY <2>1 DEF IInv, BranchInv
  <2>3. {branch.cond} \subseteq Nodes
    BY <1>1, <2>2, BranchFacts
  <2>4. Binds /\ pc' = pc /\ seen' = seen
    BY <2>1, <2>3, DrawBinds DEF Draw
  <2>5. MemoryInv' /\ ContextInv' /\ BranchInv'
    BY <2>1, <2>4, BindsInv
  <2>6. \A n \in Refreshed : seen'[n] = IF IsInput(n) THEN Place(n) ELSE Val[n]
    BY <2>1, <2>4 DEF IInv, DecidedOnSame
  <2>7. DecidedOnSame'
    BY <2>1, <2>2, <2>4, <2>6, BindsDecided
  <2> QED
    BY <2>4, <2>5, <2>7 DEF IInv, Binds
<1> QED
  BY <1>2, <1>3

LEMMA SolveBinds ==
  ASSUME IInv, Solve
  PROVE  Binds
<1>1. MemoryOK
  BY DEF IInv, MemoryInv
<1>2. CASE UNCHANGED binding
  BY <1>1, <1>2 DEF Binds, Keeps, Solve, MemoryOK
<1>3. CASE Fill(Asked)
  <2>1. PICK m \in [Asked -> Values] : binding' = Extend(binding, m)
    BY <1>3 DEF Fill
  <2>2. Asked \cap DOMAIN binding = {}
    BY DEF Asked
  <2>3. DOMAIN m = Asked /\ \A key \in Asked : m[key] \in Values
    OBVIOUS
  <2>4. /\ DOMAIN binding' = DOMAIN m \cup DOMAIN binding
        /\ \A key \in DOMAIN m : binding'[key] = m[key]
        /\ \A key \in DOMAIN binding : key \notin DOMAIN m => binding'[key] = binding[key]
    BY <2>1, <2>3 DEF Extend
  <2>5. Keeps
    BY <2>2, <2>3, <2>4 DEF Keeps
  <2>6. \A key \in DOMAIN binding' : binding'[key] \in Values
    BY <1>1, <2>3, <2>4 DEF MemoryOK
  <2> QED
    BY <2>5, <2>6 DEF Binds, Solve
<1> QED
  BY <1>2, <1>3 DEF Solve

LEMMA SolveStep ==
  ASSUME IInv, Solve
  PROVE  IInv'
<1>1. Binds /\ pc = "prepare" /\ todo = <<>> /\ pc' = "eval"
  BY SolveBinds DEF Solve, Solving
<1>2. MemoryInv' /\ ContextInv' /\ BranchInv'
  BY <1>1, BindsInv
<1>3. \A n \in Refreshed : seen'[n] = IF IsInput(n) THEN Place(n) ELSE Val[n]
  <2>1. Refreshed \subseteq ReadBy(branch)
    BY DEF Refreshed
  <2>2. \A n \in ReadBy(branch) : seen'[n] = Term(n)
    BY DEF Solve
  <2> QED
    BY <1>1, <2>1, <2>2, VisitedIsFound
<1>4. DecidedOnSame'
  BY <1>1, <1>3, BindsDecided
<1> QED
  BY <1>1, <1>2, <1>4 DEF IInv, Binds

-----------------------------------------------------------------------------
(* The steps of a branch that change no value.                             *)

LEMMA TakeStep ==
  ASSUME IInv, NEW b \in prog.branches, Take(b)
  PROVE  IInv'
<1>0. /\ prog' = prog /\ home' = home /\ mem' = mem /\ heap' = heap /\ binding' = binding
      /\ addr' = addr /\ ptr' = ptr /\ idxs' = idxs
      /\ pc' = "prepare" /\ branch' = b /\ todo' = Visits(b)
  BY DEF Take, memory, context
<1>1. prog \in Programs /\ MemoryInv /\ ContextInv
  BY DEF IInv
<1>2. /\ Locals' = Locals /\ Arrays' = Arrays /\ Lookups' = Lookups /\ Nodes' = Nodes
      /\ \A n : Kind(n)' = Kind(n) /\ Sym(n)' = Sym(n) /\ Below(n)' = Below(n)
      /\ \A c : Visits(c)' = Visits(c)
  BY <1>0, SameProgram, SameBelow
<1>3. MemoryInv'
  BY <1>0, <1>1, <1>2 DEF MemoryInv, MemoryOK
<1>4. ContextInv'
  BY <1>0, <1>1, <1>2 DEF ContextInv
<1>5. Visits(b) \in Seq(Nodes)
  BY <1>1, BranchFacts
<1>6. Visits(branch)' = Visits(b)
  BY <1>0, <1>2 DEF Visits, Below
<1>7. Defined(BranchNodes(branch))'
  BY <1>0, <1>2 DEF Defined, BranchNodes, Take
<1>8. BranchInv'
  BY <1>0, <1>2, <1>5, <1>6, <1>7 DEF BranchInv
<1>9. DecidedOnSame'
  BY <1>0 DEF DecidedOnSame
<1> QED
  BY <1>0, <1>1, <1>3, <1>4, <1>8, <1>9 DEF IInv

\* The head of todo is visited: the context of what was fresh stays, the head
\* becomes fresh.
LEMMA VisitedStep ==
  ASSUME IInv, pc = "prepare", todo # <<>>, Visited, ContextInv',
         \A n \in Nodes : n = Head(todo) \/ Fresh(n) => Fresh(n)'
  PROVE  IInv'
<1>0. /\ prog' = prog /\ home' = home /\ mem' = mem /\ heap' = heap /\ binding' = binding
      /\ pc' = pc /\ branch' = branch /\ todo' = Tail(todo)
  BY DEF Visited, memory
<1>1. /\ prog \in Programs /\ branch \in prog.branches /\ MemoryInv /\ todo \in Seq(Nodes)
      /\ Defined(BranchNodes(branch)) /\ ToSet(todo) \subseteq ToSet(Visits(branch))
      /\ \A n \in ToSet(Visits(branch)) \ ToSet(todo) : Fresh(n)
  BY DEF IInv, BranchInv
<1>2. /\ Locals' = Locals /\ Arrays' = Arrays /\ Lookups' = Lookups /\ Nodes' = Nodes
      /\ \A n : Kind(n)' = Kind(n) /\ Sym(n)' = Sym(n) /\ Below(n)' = Below(n)
      /\ \A b : Visits(b)' = Visits(b)
  BY <1>0, SameProgram, SameBelow
<1>3. MemoryInv'
  BY <1>0, <1>1, <1>2 DEF MemoryInv, MemoryOK
<1>4. Tail(todo) \in Seq(Nodes) /\ ToSet(Tail(todo)) \subseteq ToSet(todo)
      /\ ToSet(todo) \subseteq {Head(todo)} \cup ToSet(Tail(todo))
  <2>1. /\ Len(todo) \in Nat /\ Len(todo) >= 1 /\ DOMAIN todo = 1 .. Len(todo)
        /\ DOMAIN Tail(todo) = 1 .. Len(todo) - 1 /\ Head(todo) = todo[1]
        /\ Tail(todo) \in Seq(Nodes)
        /\ \A i \in 1 .. Len(todo) - 1 : Tail(todo)[i] = todo[i + 1]
    BY <1>1
  <2>2. \A i \in 1 .. Len(todo) - 1 : i + 1 \in 1 .. Len(todo)
    BY <2>1
  <2>3. \A i \in 1 .. Len(todo) : i # 1 => i - 1 \in 1 .. Len(todo) - 1 /\ (i - 1) + 1 = i
    BY <2>1
  <2>4. \A i \in 1 .. Len(todo) : i # 1 => todo[i] = Tail(todo)[i - 1]
    BY <2>1, <2>3
  <2>5. ToSet(Tail(todo)) \subseteq ToSet(todo)
    BY <2>1, <2>2 DEF ToSet
  <2>6. ToSet(todo) \subseteq {Head(todo)} \cup ToSet(Tail(todo))
    <3> SUFFICES ASSUME NEW i \in 1 .. Len(todo)
                 PROVE  todo[i] \in {Head(todo)} \cup ToSet(Tail(todo))
      BY <2>1 DEF ToSet
    <3>1. CASE i = 1
      BY <2>1, <3>1
    <3>2. CASE i # 1
      <4> DEFINE rest == Tail(todo)
      <4>1. i - 1 \in DOMAIN rest /\ todo[i] = rest[i - 1]
        BY <2>1, <2>3, <2>4, <3>2
      <4> HIDE DEF rest
      <4>2. todo[i] \in ToSet(rest)
        BY <4>1 DEF ToSet
      <4> QED
        BY <4>2 DEF rest
    <3> QED
      BY <3>1, <3>2
  <2> QED
    BY <2>1, <2>5, <2>6
<1>5. ToSet(Visits(branch)) \subseteq Nodes
  BY <1>1, BranchFacts DEF Closed
<1>6. \A n \in ToSet(Visits(branch)) \ ToSet(Tail(todo)) : Fresh(n)'
  BY <1>1, <1>4, <1>5
<1>7. Defined(BranchNodes(branch))'
  BY <1>0, <1>1, <1>2 DEF Defined, BranchNodes
<1>8. BranchInv'
  BY <1>0, <1>1, <1>2, <1>4, <1>6, <1>7 DEF BranchInv
<1>9. DecidedOnSame'
  BY <1>0 DEF DecidedOnSame
<1> QED
  BY <1>0, <1>1, <1>3, <1>8, <1>9 DEF IInv

LEMMA FreshUnder ==
  ASSUME UNCHANGED <<prog, memory, binding>>, NEW n,
         Kind(n) \in {"local", "array"} => addr'[Sym(n)] = home[Sym(n)],
         Kind(n) = "len" => addr'[Sym(Array(n))] = home[Sym(Array(n))],
         Kind(n) = "at" => /\ Wanted(ToSet(Indices(n))) = {}
                           /\ IF IsInput(n) THEN idxs'[n] = IdxVals(n) ELSE ptr'[n] = Place(n)
  PROVE  Fresh(n)'
<1>0. prog' = prog /\ home' = home
  BY DEF memory
<1>1. /\ Kind(n)' = Kind(n) /\ Sym(n)' = Sym(n) /\ Sym(Array(n))' = Sym(Array(n))
      /\ Indices(n)' = Indices(n) /\ IsInput(n)' = IsInput(n)
  BY <1>0, SameProgram
<1>2. Wanted(ToSet(Indices(n)))' = Wanted(ToSet(Indices(n)))
  <2>1. \A ns : Wanted(ns)' = Wanted(ns)
    BY SameState
  <2> QED
    BY <1>1, <2>1 DEF Wanted
<1>3. IdxVals(n)' = IdxVals(n) /\ Place(n)' = Place(n)
  BY SameState
<1> QED
  BY <1>0, <1>1, <1>2, <1>3 DEF Fresh

LEMMA LocalSyms ==
  ASSUME prog \in Programs, NEW n \in Nodes
  PROVE  /\ Kind(n) \in {"local", "array"} => Sym(n) \in Locals
         /\ Kind(n) = "len" => Sym(Array(n)) \in Locals
         /\ Kind(n) = "at" => n \in Lookups
<1>1. Kind(n) = "len" => Array(n) \in Nodes /\ Kind(Array(n)) = "array"
  BY OperandFacts, ProgramFacts, KidFacts
<1> QED
  BY <1>1 DEF Locals, Lookups

\* The address of a local is set: it is now, and stays, where the local is.
LEMMA AddressStep ==
  ASSUME IInv, pc = "prepare", todo # <<>>, Visited, UNCHANGED <<ptr, idxs>>,
         NEW s \in Locals \cap DOMAIN home, addr' = [addr EXCEPT ![s] = home[s]],
         Kind(Head(todo)) \in {"local", "array"} => s = Sym(Head(todo)),
         Kind(Head(todo)) = "len" => s = Sym(Array(Head(todo))),
         Kind(Head(todo)) # "at"
  PROVE  IInv'
<1>0. UNCHANGED <<prog, memory, binding>>
  BY DEF Visited
<1>1. ContextInv /\ MemoryInv /\ prog \in Programs
  BY DEF IInv
<1>2. home[s] \in Slots
  BY <1>1 DEF MemoryInv
<1>3. addr' \in [Locals -> Slots \cup {Null}]
  BY <1>1, <1>2 DEF ContextInv
<1>4. ContextInv'
  BY <1>0, <1>1, <1>3, SameProgram DEF ContextInv
<1>5. \A v \in Locals : v = s \/ addr[v] = home[v] => addr'[v] = home[v]
  BY <1>1 DEF ContextInv
<1>6. ASSUME NEW n \in Nodes, n = Head(todo) \/ Fresh(n)
      PROVE  Fresh(n)'
  <2>1. Kind(n) \in {"local", "array"} => addr'[Sym(n)] = home[Sym(n)]
    BY <1>1, <1>5, <1>6, LocalSyms DEF Fresh
  <2>2. Kind(n) = "len" => addr'[Sym(Array(n))] = home[Sym(Array(n))]
    BY <1>1, <1>5, <1>6, LocalSyms DEF Fresh
  <2>3. Kind(n) = "at" => /\ Wanted(ToSet(Indices(n))) = {}
                          /\ IF IsInput(n) THEN idxs'[n] = IdxVals(n) ELSE ptr'[n] = Place(n)
    BY <1>6 DEF Fresh
  <2> QED
    BY <1>0, <2>1, <2>2, <2>3, FreshUnder
<1> QED
  BY <1>4, <1>6, VisitedStep

\* The operands of the head of todo are defined.
LEMMA HeadFacts ==
  ASSUME IInv, pc = "prepare", todo # <<>>
  PROVE  /\ Head(todo) \in Nodes
         /\ Kind(Head(todo)) \in {"local", "array"} => Sym(Head(todo)) \in Locals \cap DOMAIN home
         /\ Kind(Head(todo)) = "len" => Sym(Array(Head(todo))) \in Locals \cap DOMAIN home
<1>1. /\ prog \in Programs /\ branch \in prog.branches /\ todo \in Seq(Nodes)
      /\ Defined(BranchNodes(branch)) /\ ToSet(todo) \subseteq ToSet(Visits(branch))
  BY DEF IInv, BranchInv
<1>2. Head(todo) \in ToSet(todo) /\ Head(todo) \in Nodes
  <2>1. Head(todo) = todo[1] /\ 1 \in DOMAIN todo
    BY <1>1
  <2> QED
    BY <1>1, <2>1 DEF ToSet
<1>3. Head(todo) \in BranchNodes(branch) /\ Closed(BranchNodes(branch))
  BY <1>1, <1>2, BranchFacts
<1>4. Kind(Head(todo)) = "len" =>
        Array(Head(todo)) \in BranchNodes(branch) /\ Kind(Array(Head(todo))) = "array"
  BY <1>1, <1>2, <1>3, OperandsBelow, ProgramFacts
<1> QED
  BY <1>1, <1>2, <1>3, <1>4, LocalSyms DEF Defined

LEMMA PrepareStep ==
  ASSUME IInv, PrepareIdent \/ PrepareLocalLookup \/ PrepareInputLookup \/ PrepareLength \/ PrepareOther
  PROVE  IInv'
<1> DEFINE h == Head(todo)
<1>0. prog \in Programs /\ ContextInv /\ pc = "prepare" /\ todo # <<>> /\ Visited /\ h \in Nodes
  BY HeadFacts
     DEF IInv, PrepareIdent, PrepareLocalLookup, PrepareInputLookup, PrepareLength, PrepareOther, Visiting
<1>a. UNCHANGED <<prog, memory, binding>> /\ Lookups' = Lookups /\ Locals' = Locals
  BY <1>0, SameProgram DEF Visited
<1>1. CASE PrepareIdent
  BY <1>0, <1>1, HeadFacts, AddressStep DEF PrepareIdent, Visiting
<1>2. CASE PrepareLength
  BY <1>0, <1>2, HeadFacts, AddressStep DEF PrepareLength, Visiting
<1>3. CASE PrepareLocalLookup
  <2>1. /\ Kind(h) = "at" /\ ~ IsInput(h) /\ Wanted(ToSet(Indices(h))) = {}
        /\ ptr' = [ptr EXCEPT ![h] = Place(h)] /\ addr' = addr /\ idxs' = idxs
    BY <1>3 DEF PrepareLocalLookup, Visiting
  <2>2. ContextInv'
    BY <1>0, <1>a, <2>1 DEF ContextInv
  <2>3. ptr'[h] = Place(h) /\ \A n \in Lookups : n # h => ptr'[n] = ptr[n]
    BY <1>0, <2>1, LocalSyms DEF ContextInv
  <2>4. ASSUME NEW n \in Nodes, n = h \/ Fresh(n)
        PROVE  Fresh(n)'
    <3>1. Kind(n) = "at" => /\ Wanted(ToSet(Indices(n))) = {}
                            /\ IF IsInput(n) THEN idxs'[n] = IdxVals(n) ELSE ptr'[n] = Place(n)
      BY <1>0, <2>1, <2>3, <2>4, LocalSyms DEF Fresh
    <3>2. /\ Kind(n) \in {"local", "array"} => addr'[Sym(n)] = home[Sym(n)]
          /\ Kind(n) = "len" => addr'[Sym(Array(n))] = home[Sym(Array(n))]
      BY <2>1, <2>4 DEF Fresh
    <3> QED
      BY <1>a, <3>1, <3>2, FreshUnder
  <2> QED
    BY <1>0, <2>2, <2>4, VisitedStep
<1>4. CASE PrepareInputLookup
  <2>1. /\ Kind(h) = "at" /\ IsInput(h) /\ Wanted(ToSet(Indices(h))) = {}
        /\ idxs' = [idxs EXCEPT ![h] = IdxVals(h)] /\ addr' = addr /\ ptr' = ptr
    BY <1>4 DEF PrepareInputLookup, Visiting
  <2>2. ContextInv'
    BY <1>0, <1>a, <2>1 DEF ContextInv
  <2>3. idxs'[h] = IdxVals(h) /\ \A n \in Lookups : n # h => idxs'[n] = idxs[n]
    BY <1>0, <2>1, LocalSyms DEF ContextInv
  <2>4. ASSUME NEW n \in Nodes, n = h \/ Fresh(n)
        PROVE  Fresh(n)'
    <3>1. Kind(n) = "at" => /\ Wanted(ToSet(Indices(n))) = {}
                            /\ IF IsInput(n) THEN idxs'[n] = IdxVals(n) ELSE ptr'[n] = Place(n)
      BY <1>0, <2>1, <2>3, <2>4, LocalSyms DEF Fresh
    <3>2. /\ Kind(n) \in {"local", "array"} => addr'[Sym(n)] = home[Sym(n)]
          /\ Kind(n) = "len" => addr'[Sym(Array(n))] = home[Sym(Array(n))]
      BY <2>1, <2>4 DEF Fresh
    <3> QED
      BY <1>a, <3>1, <3>2, FreshUnder
  <2> QED
    BY <1>0, <2>2, <2>4, VisitedStep
<1>5. CASE PrepareOther
  <2>1. Kind(h) \in {"const", "op", "input", "inputs"} /\ addr' = addr /\ ptr' = ptr /\ idxs' = idxs
    BY <1>5 DEF PrepareOther, Visiting, context
  <2>2. ContextInv'
    BY <1>0, <1>a, <2>1 DEF ContextInv
  <2>3. ASSUME NEW n \in Nodes, n = h \/ Fresh(n)
        PROVE  Fresh(n)'
    <3>1. Fresh(n)
      BY <2>1, <2>3 DEF Fresh
    <3> QED
      BY <1>a, <2>1, <3>1, FreshUnder DEF Fresh
  <2> QED
    BY <1>0, <2>2, <2>3, VisitedStep
<1> QED
  BY <1>1, <1>2, <1>3, <1>4, <1>5

\* A step that only changes where the program is.
LEMMA UnchangedStep ==
  ASSUME IInv, UNCHANGED <<prog, branch, todo, memory, binding, context>>, pc # "run",
         (pc' = pc /\ seen' = seen) \/ (pc' = "undefined" /\ todo = <<>>)
  PROVE  IInv'
<1>1. Binds
  BY DEF Binds, Keeps, IInv, MemoryInv, MemoryOK
<1>2. prog' = prog /\ branch' = branch /\ todo' = todo /\ home' = home /\ mem' = mem /\ heap' = heap
      /\ binding' = binding /\ addr' = addr /\ ptr' = ptr /\ idxs' = idxs
  BY DEF memory, context
<1>3. Val' = Val /\ \A n : Place(n)' = Place(n) /\ IsInput(n)' = IsInput(n)
  BY <1>2, SameState, SameProgram
<1>4. DecidedOnSame'
  <2>1. Refreshed' = Refreshed
    BY <1>2, SameRefreshed
  <2> QED
    BY <1>3, <2>1 DEF IInv, DecidedOnSame
<1>5. /\ Locals' = Locals /\ Arrays' = Arrays /\ Lookups' = Lookups /\ Nodes' = Nodes
      /\ \A n : Kind(n)' = Kind(n) /\ Sym(n)' = Sym(n) /\ Below(n)' = Below(n)
      /\ \A b : Visits(b)' = Visits(b)
  BY <1>2, SameProgram, SameBelow
<1>6. MemoryInv' /\ ContextInv'
  BY <1>2, <1>5 DEF IInv, MemoryInv, MemoryOK, ContextInv
<1>7. BranchInv'
  <2>1. /\ prog \in Programs /\ branch \in prog.branches /\ todo \in Seq(Nodes)
        /\ Defined(BranchNodes(branch)) /\ ToSet(todo) \subseteq ToSet(Visits(branch))
        /\ \A n \in ToSet(Visits(branch)) \ ToSet(todo) : Fresh(n)
        /\ pc \in {"eval", "undefined"} => todo = <<>>
        /\ pc \in {"run", "prepare", "eval", "undefined"}
    BY DEF IInv, BranchInv
  <2>2. ToSet(Visits(branch)) \subseteq Nodes
    BY <2>1, BranchFacts DEF Closed
  <2>3. \A n \in ToSet(Visits(branch)) \ ToSet(todo) : Fresh(n)'
    BY <1>1, <2>1, <2>2, FreshKept DEF Binds
  <2>4. Defined(BranchNodes(branch))'
    BY <1>2, <1>5, <2>1 DEF Defined, BranchNodes
  <2>5. branch' \in prog'.branches /\ todo' \in Seq(Nodes') /\ ToSet(todo') \subseteq ToSet(Visits(branch)')
    BY <1>2, <1>5, <2>1
  <2>6. \A n \in ToSet(Visits(branch)') \ ToSet(todo') : Fresh(n)'
    BY <1>2, <1>5, <2>3
  <2>7. pc' \in {"run", "prepare", "eval", "undefined"} /\ (pc' \in {"eval", "undefined"} => todo' = <<>>)
    BY <1>2, <2>1
  <2> QED
    BY <2>4, <2>5, <2>6, <2>7 DEF BranchInv
<1> QED
  BY <1>2, <1>4, <1>6, <1>7 DEF IInv

\* The program goes on, or nothing happens.
LEMMA RunStep ==
  ASSUME IInv, UNCHANGED <<prog, todo, memory, binding, context>>, pc' = "run",
         branch' \in {branch, NoBranch}
  PROVE  IInv'
<1>2. prog' = prog /\ todo' = todo /\ home' = home /\ mem' = mem /\ heap' = heap
      /\ binding' = binding /\ addr' = addr /\ ptr' = ptr /\ idxs' = idxs
  BY DEF memory, context
<1>3. Locals' = Locals /\ Arrays' = Arrays /\ Lookups' = Lookups /\ Nodes' = Nodes
  BY <1>2, SameProgram
<1>4. MemoryInv' /\ ContextInv'
  BY <1>2, <1>3 DEF IInv, MemoryInv, MemoryOK, ContextInv
<1>5. BranchInv'
  BY <1>2, <1>3 DEF IInv, BranchInv, NoBranch
<1>6. DecidedOnSame'
  BY DEF DecidedOnSame
<1> QED
  BY <1>2, <1>4, <1>5, <1>6 DEF IInv

LEMMA NextInv == IInv /\ [Next]_vars => IInv'
<1> SUFFICES ASSUME IInv, [Next]_vars
             PROVE  IInv'
  OBVIOUS
<1>1. CASE (\E v \in Locals : Define(v) \/ Assign(v) \/ AssignElement(v)) \/ EndTest
  BY <1>1, ProgramStep
<1>2. ASSUME NEW b \in prog.branches, Take(b)
      PROVE  IInv'
  BY <1>2, TakeStep
<1>3. CASE DrawIndices \/ DrawCondition
  BY <1>3, DrawStep
<1>4. CASE PrepareIdent \/ PrepareLocalLookup \/ PrepareInputLookup \/ PrepareLength \/ PrepareOther
  BY <1>4, PrepareStep
<1>5. CASE SolveUndefined
  BY <1>5, UnchangedStep DEF SolveUndefined, Solving
<1>6. CASE Solve
  BY <1>6, SolveStep
<1>7. CASE Branch
  BY <1>7, RunStep DEF Branch
<1>8. CASE UNCHANGED vars
  <2>1. /\ UNCHANGED <<prog, branch, todo, memory, binding, context>>
        /\ UNCHANGED <<prog, todo, memory, binding, context>>
        /\ pc' = pc /\ seen' = seen /\ branch' = branch
    BY <1>8 DEF vars
  <2>2. CASE pc = "run"
    BY <2>1, <2>2, RunStep
  <2>3. CASE pc # "run"
    <3>1. UNCHANGED <<prog, branch, todo, memory, binding, context>>
      BY <2>1
    <3>2. (pc' = pc /\ seen' = seen) \/ (pc' = "undefined" /\ todo = <<>>)
      BY <2>1
    <3> QED
      BY <2>3, <3>1, <3>2, UnchangedStep
  <2> QED
    BY <2>2, <2>3
<1> QED
  BY <1>1, <1>2, <1>3, <1>4, <1>5, <1>6, <1>7, <1>8 DEF Next

\* For every program, what holds of the state of the solver's context and of
\* the branch always holds.
THEOREM Invariant == Spec => []IInv
<1>1. Init => IInv
  BY InitInv
<1>2. IInv /\ [Next]_vars => IInv'
  BY NextInv
<1> QED
  BY <1>1, <1>2, PTL DEF Spec

\* The types of the variables: the addresses of the context are of slots, the
\* variables that are defined hold values or blocks that are in use.
THEOREM TypeCorrect == Spec => []TypeOK
<1>1. IInv => TypeOK
  BY IInvImplies
<1> QED
  BY <1>1, Invariant, PTL

\* For every program and branch: when the solver is called, every node that
\* gen_expr reads is looked up where it is now, unless it is the condition itself.
THEOREM ContextIsFresh == Spec => []ContextFresh
<1>1. IInv => ContextFresh
  BY IInvImplies
<1> QED
  BY <1>1, Invariant, PTL

\* For every program and branch: gen_expr reads a pointer that is not set, or
\* that dangles, only for a node that is the whole condition and was not visited.
THEOREM UndefinedAtRootOnly == Spec => []UndefinedOnlyAtRoot
<1>1. IInv => UndefinedOnlyAtRoot
  BY IInvImplies
<1> QED
  BY <1>1, Invariant, PTL

\* For every program and branch: until the branch is taken, the condition is
\* computed on the values and elements that the solver was given, whatever
\* inputs the solver or the condition gives a value in between.
THEOREM DecidedOnWhatWasSeen == Spec => []DecidedOnSame
<1>1. IInv => DecidedOnSame
  BY DEF IInv
<1> QED
  BY <1>1, Invariant, PTL
==============================================================================
