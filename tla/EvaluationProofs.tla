--------------------------- MODULE EvaluationProofs ---------------------------
(***************************************************************************)
(* Proofs about Evaluation, for every width and every expression.          *)
(*                                                                         *)
(* The values on the stack agree because each operator agrees where its    *)
(* result fits (the lemmas on numbers); what LLVM and the solver accept    *)
(* follows from Shape, which says of every operand that its LLVM type is   *)
(* the one its type and rule stand for, unless a use of types was odd.     *)
(***************************************************************************)
EXTENDS Evaluation, TLAPS

LEMMA WrapRange ==
  ASSUME NEW w \in {"i8", "i32"}, NEW n \in Int
  PROVE  Wrap(w, n) \in Int /\ Wrap(w, n) \in Range(w)
<1> DEFINE H == Half[w]
<1>1. H \in Nat \ {0}
  BY EvaluationAssumption
<1>2. (n + H) % (2 * H) \in 0 .. 2 * H - 1
  BY <1>1
<1> QED
  BY <1>1, <1>2 DEF Wrap, Range

LEMMA WrapFits ==
  ASSUME NEW w \in {"i8", "i32"}, NEW n \in Range(w)
  PROVE  Wrap(w, n) = n
<1> DEFINE H == Half[w]
<1>1. H \in Nat \ {0} /\ n \in -H .. H - 1
  BY EvaluationAssumption DEF Range
<1>2. n + H \in 0 .. 2 * H - 1
  BY <1>1
<1>3. \A m \in Nat \ {0} : \A k \in 0 .. m - 1 : k % m = k
  OBVIOUS
<1>4. (n + H) % (2 * H) = n + H
  BY <1>1, <1>2, <1>3
<1> QED
  BY <1>1, <1>4 DEF Wrap

LEMMA Quotient ==
  ASSUME NEW n \in Int, NEW m \in Nat \ {0}
  PROVE  /\ n \div m \in Int
         /\ n % m \in 0 .. m - 1
         /\ n = m * (n \div m) + (n % m)
OBVIOUS

LEMMA QuotientUnique ==
  ASSUME NEW m \in Nat \ {0}, NEW q \in Int
  PROVE  (m * q) \div m = q
<1>1. /\ (m * q) \div m \in Int /\ (m * q) % m \in 0 .. m - 1
      /\ m * q = m * ((m * q) \div m) + ((m * q) % m)
  <2>1. \A n \in Int : n \div m \in Int /\ n % m \in 0 .. m - 1 /\ n = m * (n \div m) + (n % m)
    BY Quotient
  <2>2. m * q \in Int
    OBVIOUS
  <2> QED
    BY ONLY <2>1, <2>2
<1> DEFINE p == (m * q) \div m
           r == (m * q) % m
<1>2. p \in Int /\ r \in 0 .. m - 1 /\ m * (q - p) = r
  BY <1>1
<1> HIDE DEF p, r
<1>3. ~(q - p >= 1)
  <2>1. q - p >= 1 => m * (q - p) >= m
    BY <1>2
  <2> QED
    BY <1>2, <2>1
<1>4. ~(q - p <= -1)
  <2>1. q - p <= -1 => m * (q - p) <= -m
    BY <1>2
  <2> QED
    BY <1>2, <2>1
<1>5. p = q
  BY <1>2, <1>3, <1>4
<1> QED
  BY <1>5 DEF p

LEMMA QuotientBound ==
  ASSUME NEW n \in Nat, NEW m \in Nat \ {0}
  PROVE  n \div m \in 0 .. n /\ (m > 1 /\ n > 0 => n \div m < n)
<1> DEFINE q == n \div m
           r == n % m
<1>1. q \in Int /\ r \in 0 .. m - 1 /\ n = m * q + r
  BY Quotient
<1> HIDE DEF q, r
<1>2. q >= 0
  <2>1. q <= -1 => m * q <= -m
    BY <1>1
  <2> QED
    BY <1>1, <2>1
<1>3. m * q >= q
  BY <1>1, <1>2
<1>4. q <= n
  BY <1>1, <1>3
<1>5. m > 1 /\ q > 0 => m * q > q
  BY <1>1
<1>6. m > 1 /\ n > 0 => q < n
  BY <1>1, <1>2, <1>3, <1>5
<1> QED
  BY <1>1, <1>2, <1>4, <1>6 DEF q

\* The two divisions agree on what the type of the remainder cannot tell apart.
LEMMA DivisionsAgree ==
  ASSUME NEW n \in Int, NEW d \in Int \ {0}, n >= 0 \/ n % Abs(d) = 0
  PROVE  SDiv(n, d) = EuclidDiv(n, d)
<1> DEFINE m == Abs(d)
<1>1. m \in Nat \ {0} /\ (d > 0 => m = d) /\ (d < 0 => m = -d)
  BY DEF Abs
<1>2. n \div m \in Int
  BY <1>1, Quotient
<1>3. CASE n >= 0
  <2>1. Abs(n) = n
    BY <1>3 DEF Abs
  <2> QED
    BY <1>1, <1>2, <1>3, <2>1 DEF SDiv, EuclidDiv
<1>4. CASE n < 0 /\ n % m = 0
  <2> DEFINE q == n \div m
  <2>1. n = m * q
    <3> HIDE DEF m
    <3> QED
      BY <1>1, <1>4, Quotient
  <2>2. -n = m * (-q)
    BY <1>1, <1>2, <2>1
  <2>3. (m * (-q)) \div m = -q
    <3> HIDE DEF m
    <3> QED
      BY <1>1, <1>2, QuotientUnique
  <2>4. Abs(n) \div m = -q
    BY <1>4, <2>2, <2>3 DEF Abs
  <2>5. CASE d > 0
    BY <1>1, <1>2, <1>4, <2>4, <2>5 DEF SDiv, EuclidDiv
  <2>6. CASE d < 0
    BY <1>1, <1>2, <1>4, <2>4, <2>6 DEF SDiv, EuclidDiv
  <2> QED
    BY <2>5, <2>6
<1> QED
  BY <1>3, <1>4

LEMMA SDivRange ==
  ASSUME NEW w \in {"i8", "i32"}, NEW n \in Range(w), NEW d \in Int \ {0},
         ~(d = -1 /\ n = -Half[w])
  PROVE  SDiv(n, d) \in Range(w)
<1> DEFINE H == Half[w]
           q == Abs(n) \div Abs(d)
<1>1. H \in Nat \ {0} /\ n \in -H .. H - 1
  BY EvaluationAssumption DEF Range
<1>2. Abs(n) \in 0 .. H /\ Abs(d) \in Nat \ {0}
  BY <1>1 DEF Abs
<1>3. q \in 0 .. Abs(n) /\ (Abs(d) > 1 /\ Abs(n) > 0 => q < Abs(n))
  BY <1>2, QuotientBound
<1>4. q \in 0 .. H
  <2> HIDE DEF q, H
  <2> QED
    BY <1>1, <1>2, <1>3
<1>5. CASE (n < 0) = (d < 0)
  <2>1. SDiv(n, d) = q
    BY <1>5 DEF SDiv
  <2>2. CASE n >= 0
    BY <1>1, <1>3, <2>1, <2>2 DEF Abs, Range
  <2>3. CASE n < 0
    <3>1. d < 0
      BY <1>5, <2>3
    <3>2. d = -1 => n # -H
      OBVIOUS
    <3>3. d = -1 => Abs(n) <= H - 1
      BY <1>1, <2>3, <3>2 DEF Abs
    <3>4. d # -1 => Abs(d) > 1 /\ Abs(n) > 0
      BY <1>1, <2>3, <3>1 DEF Abs
    <3>5. q <= H - 1
      BY <1>1, <1>2, <1>3, <3>3, <3>4
    <3> QED
      BY <1>1, <1>4, <2>1, <3>5 DEF Range
  <2> QED
    BY <1>1, <2>2, <2>3
<1>6. CASE (n < 0) # (d < 0)
  <2>1. SDiv(n, d) = -q
    BY <1>6 DEF SDiv
  <2>2. -q \in -H .. 0
    BY <1>1, <1>4
  <2> QED
    BY <1>1, <2>1, <2>2 DEF Range
<1> QED
  BY <1>5, <1>6

-----------------------------------------------------------------------------
(* Operators.                                                              *)

\* What LLVM computes fits the register it is computed in.
LEMMA MachineOpRange ==
  ASSUME NEW op \in Ops, NEW a \in Entries, NEW b \in Entries,
         a.v \in Range(a.w), b.v \in Range(b.w),
         ~IllFormed(op, a, b), ~NoResult(op, a, b), op \in Arith => a.w # "i1"
  PROVE  /\ MachineOp(op, a.w, a.v, b.v) \in Int
         /\ MachineOp(op, a.w, a.v, b.v) \in Range(Width(op, a, b))
<1> DEFINE w == a.w
           x == a.v
           y == b.v
<1>1. /\ w \in {"i1", "i8", "i32", "ptr"} /\ x \in Int /\ y \in Int /\ b.w = w
      /\ op \notin Compare => w # "ptr"
  BY DEF Entries, IllFormed
<1>2. CASE op \in Arith /\ w \in {"i8", "i32"}
  <2>1. Width(op, a, b) = w
    BY <1>2 DEF Width, Arith, Compare, Order, Equality
  <2>2. CASE op = "/"
    <3>1. y # 0 /\ ~(y = -1 /\ x = -Half[w])
      BY <1>1, <1>2, <2>2 DEF NoResult
    <3>2. SDiv(x, y) \in Range(w)
      BY <1>1, <1>2, <3>1, SDivRange
    <3>3. Range(w) \subseteq Int
      BY <1>2, EvaluationAssumption DEF Range
    <3>4. MachineOp(op, w, x, y) = SDiv(x, y)
      BY <2>2 DEF MachineOp
    <3> QED
      BY <2>1, <3>2, <3>3, <3>4
  <2>3. CASE op \in {"+", "-", "*"}
    <3>1. \E n \in Int : MachineOp(op, w, x, y) = Wrap(w, n)
      BY <1>1, <2>3 DEF MachineOp
    <3> QED
      BY <1>2, <2>1, <3>1, WrapRange
  <2> QED
    BY <1>2, <2>2, <2>3 DEF Arith
<1>3. CASE op \in Compare
  <2>1. MachineOp(op, w, x, y) \in {0, 1}
    BY <1>1, <1>3 DEF MachineOp, Less, Truth, Compare, Order, Equality
  <2>2. Width(op, a, b) = "i1"
    BY <1>3 DEF Width
  <2> QED
    BY <2>1, <2>2 DEF Range
<1>4. CASE op \in Connectives
  <2>1. MachineOp(op, w, x, y) \in {0, 1}
    BY <1>1, <1>4 DEF MachineOp, Less, Truth, Connectives
  <2>2. Width(op, a, b) = w /\ w # "ptr"
    BY <1>1, <1>4 DEF Width, Connectives, Compare, Order, Equality
  <2>3. {0, 1} \subseteq Range(w)
    BY <1>1, <2>2, EvaluationAssumption DEF Range
  <2> QED
    BY <2>1, <2>2, <2>3
<1> QED
  BY <1>1, <1>2, <1>3, <1>4 DEF Ops, Arith, Compare, Order, Equality

LEMMA MachineOpInt ==
  ASSUME NEW op \in Ops, NEW a \in Entries, NEW b \in Entries,
         ~IllFormed(op, a, b), ~NoResult(op, a, b), op \in Arith => a.w # "i1"
  PROVE  MachineOp(op, a.w, a.v, b.v) \in Int
<1>1. a.w \in {"i1", "i8", "i32", "ptr"} /\ a.v \in Int /\ b.v \in Int /\ b.w = a.w
  BY DEF Entries, IllFormed
<1>2. CASE op \in {"+", "-", "*"}
  <2>1. a.w \in {"i8", "i32"}
    BY <1>1, <1>2 DEF IllFormed, Arith, Compare, Order, Equality
  <2>2. \E n \in Int : MachineOp(op, a.w, a.v, b.v) = Wrap(a.w, n)
    BY <1>1, <1>2 DEF MachineOp
  <2> QED
    BY <2>1, <2>2, WrapRange
<1>3. CASE op = "/"
  <2>1. a.w \in {"i8", "i32"}
    BY <1>1, <1>3 DEF IllFormed, Arith, Compare, Order, Equality
  <2>2. b.v # 0
    BY <1>1, <1>3, <2>1 DEF NoResult
  <2>3. Abs(a.v) \in Int /\ Abs(b.v) \in Nat \ {0}
    BY <1>1, <2>2 DEF Abs
  <2>4. Abs(a.v) \div Abs(b.v) \in Int
    BY <2>3, Quotient
  <2> QED
    BY <1>3, <2>4 DEF MachineOp, SDiv
<1>4. CASE op \in Compare \cup Connectives
  BY <1>4 DEF MachineOp, Less, Truth, Compare, Order, Equality, Connectives
<1> QED
  BY <1>2, <1>3, <1>4 DEF Ops, Arith

LEMMA SolverOpInt ==
  ASSUME NEW op \in Ops, NEW x \in Int, NEW y \in Int
  PROVE  SolverOp(op, x, y) \in Int
<1>1. CASE op = "/"
  <2>1. CASE y = 0
    BY <1>1, <2>1 DEF SolverOp
  <2>2. CASE y > 0
    <3>1. x \div y \in Int
      BY <2>2, Quotient
    <3> QED
      BY <1>1, <2>2, <3>1 DEF SolverOp, EuclidDiv
  <2>3. CASE y < 0
    <3>1. -y \in Nat \ {0}
      BY <2>3
    <3>2. x \div (-y) \in Int
      BY <3>1, Quotient
    <3> QED
      BY <1>1, <2>3, <3>2 DEF SolverOp, EuclidDiv
  <2> QED
    BY <2>1, <2>2, <2>3
<1>2. CASE op \in {"+", "-", "*"}
  BY <1>2 DEF SolverOp
<1>3. CASE op \in Compare \cup Connectives
  BY <1>3 DEF SolverOp, Truth, Compare, Order, Equality, Connectives
<1> QED
  BY <1>1, <1>2, <1>3 DEF Ops, Arith

\* Where nothing is lost, the machine computes what the solver does.
LEMMA OpsAgree ==
  ASSUME NEW op \in Ops, NEW a \in Entries, NEW b \in Entries,
         a.v = a.term, b.v = b.term, a.v \in Range(a.w), b.v \in Range(b.w),
         ~IllFormed(op, a, b), ~NoResult(op, a, b), op \in Arith => a.w # "i1",
         LossOf(op, a, b) = {}
  PROVE  MachineOp(op, a.w, a.v, b.v) = SolverOp(op, a.term, b.term)
<1> DEFINE w == a.w
           x == a.v
           y == b.v
<1>1. x \in Int /\ y \in Int /\ w \in {"i1", "i8", "i32", "ptr"} /\ b.w = w
  BY DEF Entries, IllFormed
<1>2. CASE op \in Arith
  <2>1. w \in {"i8", "i32"}
    BY <1>1, <1>2 DEF IllFormed, Arith, Compare, Order, Equality
  <2>2. SolverOp(op, x, y) \in Range(w)
    BY <1>2, <2>1 DEF LossOf
  <2>3. CASE op \in {"+", "-", "*"}
    <3>1. MachineOp(op, w, x, y) = Wrap(w, SolverOp(op, x, y))
      BY <1>1, <2>3 DEF MachineOp, SolverOp
    <3> QED
      BY <2>1, <2>2, <3>1, WrapFits
  <2>4. CASE op = "/"
    <3>1. y # 0
      BY <1>1, <2>1, <2>4 DEF NoResult
    <3>2. x >= 0 \/ x % Abs(y) = 0
      BY <1>1, <2>4, <3>1 DEF LossOf
    <3>3. SDiv(x, y) = EuclidDiv(x, y)
      BY <1>1, <3>1, <3>2, DivisionsAgree
    <3>4. MachineOp(op, w, x, y) = SDiv(x, y) /\ SolverOp(op, x, y) = EuclidDiv(x, y)
      BY <2>4, <3>1 DEF MachineOp, SolverOp
    <3> QED
      BY <3>3, <3>4
  <2> QED
    BY <1>2, <2>3, <2>4 DEF Arith
<1>3. CASE op \in Compare \cup Connectives
  BY <1>1, <1>3 DEF MachineOp, Less, SolverOp, Truth, Compare, Order, Equality, Connectives
<1> QED
  BY <1>2, <1>3 DEF Ops

LEMMA OnTop ==
  ASSUME NEW S, NEW s \in Seq(S), NEW e \in S
  PROVE  /\ Append(s, e) \in Seq(S)
         /\ \A i \in DOMAIN Append(s, e) :
              Append(s, e)[i] = e \/ \E j \in DOMAIN s : Append(s, e)[i] = s[j]
OBVIOUS

LEMMA Below ==
  ASSUME NEW S, NEW s \in Seq(S), NEW k \in 0 .. Len(s)
  PROVE  /\ SubSeq(s, 1, k) \in Seq(S)
         /\ \A i \in DOMAIN SubSeq(s, 1, k) : i \in DOMAIN s /\ SubSeq(s, 1, k)[i] = s[i]
OBVIOUS

-----------------------------------------------------------------------------
(* The inductive invariant.                                                *)

OddTypes == {"char arithmetic", "bool arithmetic", "string arithmetic", "bool operand"}

\* The LLVM type that a type and a rule stand for.
WidthOf(e) == IF e.rule = "logic" THEN "i1" ELSE LLVM[e.type]

Shape ==
  \A i \in DOMAIN stack :
    LET e == stack[i]
    IN  /\ e.rule = "expr" => e.w # "i1"
        /\ e.rule = "logic" => e.type = "bool"
        /\ odd \cap OddTypes = {} /\ "rejected" \notin faults => e.w = WidthOf(e)

Reasons ==
  /\ "malformed" \in faults => odd \cap OddTypes # {} \/ "rejected" \in faults
  /\ "failed" \in faults => odd \cap {"string", "bool arithmetic", "bool order"} # {}

IInv ==
  /\ TypeOK /\ Agree /\ Arrives /\ WellFormed /\ Translatable
  /\ pc = "eval" => Shape /\ Reasons

LEMMA InitInv == Init => IInv
  BY EvaluationAssumption
     DEF Init, IInv, TypeOK, Agree, Arrives, WellFormed, Translatable, Shape, Reasons

LEMMA ReadInv ==
  ASSUME IInv, NEW how \in Hows, NEW type \in Types, NEW v \in Range(LLVM[type]),
         NEW term \in Int, Read(how, type, v, term)
  PROVE  IInv'
<1> DEFINE e == Entry(type, "expr", LLVM[type], v, term)
<1>1. /\ pc = "eval" /\ pc' = "eval" /\ use' = use
      /\ stack' = Append(stack, e)
      /\ leaves' = leaves + 1
      /\ faults' = faults \cup {f \in {"failed"} : ~HasTerm(how, type)}
      /\ odd' = odd \cup {o \in {"string"} : type = "string"}
      /\ lossy' = lossy \cup {l \in {"narrowed"} : v # term}
  BY DEF Read
<1>2. /\ e \in Entries /\ e.w = LLVM[type] /\ e.v = v /\ e.rule = "expr" /\ e.type = type
      /\ e.w # "i1" /\ e.term = term
  <2>1. LLVM[type] \in {"i8", "i32", "ptr"}
    BY DEF LLVM, Types
  <2>2. v \in Int
    BY <2>1, EvaluationAssumption DEF Range
  <2> QED
    BY <2>1, <2>2 DEF Entry, Entries
<1> HIDE DEF e
<1>3. /\ stack' \in Seq(Entries)
      /\ \A i \in DOMAIN stack' : stack'[i] = e \/ \E j \in DOMAIN stack : stack'[i] = stack[j]
  <2>1. stack \in Seq(Entries)
    BY DEF IInv, TypeOK
  <2> QED
    BY <1>1, <1>2, <2>1, OnTop
<1>4. TypeOK'
  <2>1. pc' \in Faults \cup {"eval", "done"} /\ leaves' \in Nat /\ use' \in Uses \cup {Nowhere}
    BY <1>1 DEF IInv, TypeOK
  <2>2. faults' \subseteq Faults /\ lossy' \subseteq Losses /\ odd' \subseteq Oddities
    BY <1>1 DEF IInv, TypeOK, Faults, Losses, Oddities
  <2>3. Sound' => \A i \in DOMAIN stack' : stack'[i].v \in Range(stack'[i].w)
    BY <1>1, <1>2, <1>3 DEF IInv, TypeOK, Sound
  <2> QED
    BY <1>3, <2>1, <2>2, <2>3 DEF TypeOK
<1>5. Agree'
  BY <1>1, <1>2, <1>3 DEF IInv, Agree, Sound
<1>6. Arrives' /\ WellFormed' /\ Translatable'
  BY <1>1 DEF Arrives, WellFormed, Translatable
<1>7. Shape'
  BY <1>1, <1>2, <1>3 DEF IInv, Shape, WidthOf
<1>8. Reasons'
  BY <1>1 DEF IInv, Reasons, HasTerm, Types
<1> QED
  BY <1>4, <1>5, <1>6, <1>7, <1>8 DEF IInv

LEMMA OperateInv ==
  ASSUME IInv, NEW op \in Ops, Operate(op)
  PROVE  IInv'
<1> DEFINE n == Len(stack)
           a == stack[n - 1]
           b == stack[n]
           stops == FaultsOf(op, a, b)
           v == IF stops \cap {"malformed", "undefined"} = {}
                THEN MachineOp(op, a.w, a.v, b.v) ELSE 0
           rule == IF op \in Arith THEN "expr" ELSE "logic"
           e == Entry(ResultType(op), rule, Width(op, a, b), v, SolverOp(op, a.term, b.term))
           below == SubSeq(stack, 1, n - 2)
<1>1. /\ pc = "eval" /\ n >= 2 /\ Parses(op, a, b)
      /\ stack' = Append(below, e)
      /\ faults' = faults \cup stops
      /\ lossy' = lossy \cup LossOf(op, a, b)
      /\ odd' = odd \cup OddOf(op, a, b)
      /\ pc' = "eval" /\ leaves' = leaves /\ use' = use
  BY DEF Operate
<1>2. /\ stack \in Seq(Entries) /\ n \in Nat /\ n - 1 \in DOMAIN stack /\ n \in DOMAIN stack
      /\ a \in Entries /\ b \in Entries /\ n - 2 \in 0 .. Len(stack)
  <2>1. stack \in Seq(Entries) /\ n \in Nat
    BY DEF IInv, TypeOK
  <2>2. n - 1 \in DOMAIN stack /\ n \in DOMAIN stack /\ n - 2 \in 0 .. n
    BY <1>1, <2>1
  <2> QED
    BY <2>1, <2>2
<1>3. Shape /\ Reasons /\ TypeOK /\ Agree
  BY <1>1 DEF IInv
<1>4. op \in Arith => a.w # "i1"
  BY <1>1, <1>2, <1>3 DEF Shape, Parses, Arith, Connectives
<1>5. /\ "malformed" \in stops <=> IllFormed(op, a, b)
      /\ "undefined" \in stops <=> NoResult(op, a, b)
      /\ "rejected" \in stops <=> TypeError(op, a, b)
      /\ "failed" \in stops <=> NoTerm(op, a, b)
      /\ stops \subseteq Faults
  BY DEF FaultsOf, Faults
<1> HIDE DEF n, a, b, stops, v, e, below
<1>6. v \in Int /\ (stops \cap {"malformed", "undefined"} = {} /\ Sound => v \in Range(Width(op, a, b)))
  <2>1. ASSUME stops \cap {"malformed", "undefined"} = {}, Sound
        PROVE  v \in Range(Width(op, a, b))
    <3>1. a.v \in Range(a.w) /\ b.v \in Range(b.w)
      BY <1>2, <1>3, <2>1 DEF TypeOK, a, b
    <3>2. v = MachineOp(op, a.w, a.v, b.v)
      BY <2>1 DEF v
    <3> QED
      BY <1>2, <1>4, <1>5, <2>1, <3>1, <3>2, MachineOpRange
  <2>2. ASSUME stops \cap {"malformed", "undefined"} = {}
        PROVE  v \in Int
    BY <1>2, <1>4, <1>5, <2>2, MachineOpInt DEF v
  <2>3. stops \cap {"malformed", "undefined"} # {} => v \in Int
    BY DEF v
  <2> QED
    BY <2>1, <2>2, <2>3
<1>7. e \in Entries /\ e.v = v /\ e.w = Width(op, a, b) /\ e.rule = rule
      /\ e.type = ResultType(op) /\ e.term = SolverOp(op, a.term, b.term)
  <2>1. Width(op, a, b) \in {"i1", "i8", "i32", "ptr"}
    BY <1>2 DEF Width, Entries
  <2>2. SolverOp(op, a.term, b.term) \in Int
    BY <1>2, SolverOpInt DEF Entries
  <2>3. ResultType(op) \in Types /\ rule \in {"expr", "logic"}
    BY DEF ResultType, Types
  <2> QED
    BY <1>6, <2>1, <2>2, <2>3 DEF e, Entry, Entries
<1>8. /\ stack' \in Seq(Entries)
      /\ \A i \in DOMAIN stack' : stack'[i] = e \/ \E j \in DOMAIN stack : stack'[i] = stack[j]
  <2>1. /\ below \in Seq(Entries)
        /\ \A i \in DOMAIN below : i \in DOMAIN stack /\ below[i] = stack[i]
    BY <1>2, Below DEF below
  <2>2. /\ Append(below, e) \in Seq(Entries)
        /\ \A i \in DOMAIN Append(below, e) :
             Append(below, e)[i] = e \/ \E j \in DOMAIN below : Append(below, e)[i] = below[j]
    BY <1>7, <2>1, OnTop
  <2> QED
    BY <1>1, <2>1, <2>2
<1>9. Sound' => Sound /\ stops \cap {"malformed", "undefined", "failed"} = {}
  BY <1>1 DEF Sound
<1>10. TypeOK'
  <2>1. pc' \in Faults \cup {"eval", "done"} /\ leaves' \in Nat /\ use' \in Uses \cup {Nowhere}
    BY <1>1, <1>3 DEF TypeOK
  <2>2. faults' \subseteq Faults
    BY <1>1, <1>3, <1>5 DEF TypeOK
  <2>3. lossy' \subseteq Losses
    BY <1>1, <1>3 DEF TypeOK, LossOf, Losses
  <2>4. odd' \subseteq Oddities
    BY <1>1, <1>3 DEF TypeOK, OddOf
  <2>5. Sound' => \A i \in DOMAIN stack' : stack'[i].v \in Range(stack'[i].w)
    BY <1>3, <1>6, <1>7, <1>8, <1>9 DEF TypeOK
  <2> QED
    BY <1>8, <2>1, <2>2, <2>3, <2>4, <2>5 DEF TypeOK
<1>11. Agree'
  <2> SUFFICES ASSUME Sound', lossy' = {} PROVE e.v = e.term /\ \A i \in DOMAIN stack : stack[i].v = stack[i].term
    BY <1>8 DEF Agree
  <2>1. Sound /\ lossy = {} /\ LossOf(op, a, b) = {}
    BY <1>1, <1>9
  <2>2. \A i \in DOMAIN stack : stack[i].v = stack[i].term /\ stack[i].v \in Range(stack[i].w)
    BY <1>1, <1>3, <2>1 DEF Agree, TypeOK
  <2>3. ~IllFormed(op, a, b) /\ ~NoResult(op, a, b) /\ v = MachineOp(op, a.w, a.v, b.v)
    BY <1>5, <1>9 DEF v
  <2>4. a.v = a.term /\ b.v = b.term /\ a.v \in Range(a.w) /\ b.v \in Range(b.w)
    BY <1>2, <2>2 DEF a, b
  <2> QED
    BY <1>2, <1>4, <1>7, <2>1, <2>2, <2>3, <2>4, OpsAgree
<1>12. Arrives' /\ WellFormed' /\ Translatable'
  BY <1>1 DEF Arrives, WellFormed, Translatable
<1>13. ASSUME odd' \cap OddTypes = {}, "rejected" \notin faults'
       PROVE  e.w = WidthOf(e) /\ ~IllFormed(op, a, b)
  <2>1. odd \cap OddTypes = {} /\ "rejected" \notin faults /\ ~TypeError(op, a, b)
    BY <1>1, <1>5, <1>13
  <2>2. a.w = WidthOf(a) /\ b.w = WidthOf(b)
    BY <1>2, <1>3, <2>1 DEF Shape, a, b
  <2>3. OddOf(op, a, b) \cap OddTypes = {}
    BY <1>1, <1>13
  <2>4. CASE op \in Arith
    <3>1. a.type = b.type /\ a.rule = "expr" /\ b.rule = "expr"
      BY <1>1, <2>1, <2>4 DEF TypeError, Parses, Arith, Connectives
    <3>2. a.type = "int"
      BY <1>2, <2>3, <2>4, <3>1 DEF OddOf, OddTypes, Oddities, Entries, Types
    <3>3. a.w = "i32" /\ b.w = "i32"
      BY <2>2, <3>1, <3>2 DEF WidthOf, LLVM
    <3>4. e.w = "i32" /\ e.type = "int" /\ e.rule = "expr"
      BY <1>7, <2>4, <3>3 DEF Width, ResultType, rule, Arith, Compare, Order, Equality
    <3> QED
      BY <3>3, <3>4 DEF WidthOf, LLVM, IllFormed
  <2>5. CASE op \in Compare
    <3>1. a.type = b.type /\ a.rule = "expr" /\ b.rule = "expr"
      BY <1>1, <2>1, <2>5 DEF TypeError, Parses, Compare, Order, Equality, Connectives
    <3>2. e.w = "i1" /\ e.rule = "logic"
      BY <1>7, <2>5 DEF Width, rule, Arith, Compare, Order, Equality
    <3> QED
      BY <2>2, <2>5, <3>1, <3>2 DEF WidthOf, IllFormed
  <2>6. CASE op \in Connectives
    <3>1. a.rule = "logic" /\ b.rule = "logic"
      BY <1>2, <2>3, <2>6 DEF OddOf, OddTypes, Oddities, Entries
    <3>2. a.w = "i1" /\ b.w = "i1"
      BY <2>2, <3>1 DEF WidthOf
    <3>3. e.w = "i1" /\ e.rule = "logic"
      BY <1>7, <2>6, <3>2 DEF Width, rule, Arith, Connectives, Compare, Order, Equality
    <3> QED
      BY <3>2, <3>3 DEF WidthOf, IllFormed
  <2> QED
    BY <2>4, <2>5, <2>6 DEF Ops
<1>14. Shape'
  <2>1. e.rule = "expr" => e.w # "i1"
    BY <1>4, <1>7 DEF Width, rule, Arith, Compare, Order, Equality
  <2>2. e.rule = "logic" => e.type = "bool"
    BY <1>7 DEF rule, ResultType
  <2>3. odd' \cap OddTypes = {} /\ "rejected" \notin faults' =>
          odd \cap OddTypes = {} /\ "rejected" \notin faults
    BY <1>1
  <2> QED
    BY <1>3, <1>8, <1>13, <2>1, <2>2, <2>3 DEF Shape, WidthOf
<1>15. Reasons'
  <2>1. "malformed" \in faults' => odd' \cap OddTypes # {} \/ "rejected" \in faults'
    BY <1>1, <1>3, <1>5, <1>13 DEF Reasons
  <2>2. NoTerm(op, a, b) => OddOf(op, a, b) \cap {"bool arithmetic", "bool order"} # {}
    BY DEF NoTerm, OddOf, Oddities
  <2>3. "failed" \in faults' => odd' \cap {"string", "bool arithmetic", "bool order"} # {}
    BY <1>1, <1>3, <1>5, <2>2 DEF Reasons
  <2> QED
    BY <2>1, <2>3 DEF Reasons
<1> QED
  BY <1>10, <1>11, <1>12, <1>14, <1>15 DEF IInv

LEMMA DeliverInv ==
  ASSUME IInv, NEW u \in Uses, Deliver(u)
  PROVE  IInv'
<1> DEFINE e == stack[1]
           put == Converted(u, e)
<1>1. /\ pc = "eval" /\ Len(stack) = 1
      /\ u.how \in {"index", "gep", "length"} => e.rule = "expr"
      /\ use' = u /\ odd' = odd \cup OddUse(u, e) /\ pc' = Outcome(u, e)
      /\ stack' = (IF pc' = "done" THEN <<put>> ELSE stack)
      /\ leaves' = leaves /\ faults' = faults /\ lossy' = lossy
  BY DEF Deliver
<1>2. stack \in Seq(Entries) /\ 1 \in DOMAIN stack /\ e \in Entries
  <2>1. stack \in Seq(Entries)
    BY DEF IInv, TypeOK
  <2> QED
    BY <1>1, <2>1
<1>3. Shape /\ Reasons /\ TypeOK /\ Agree
  BY <1>1 DEF IInv
<1> HIDE DEF e
<1>4. pc' \in Faults \cup {"done"}
  BY <1>1 DEF Outcome, Faults
<1> DEFINE cast == /\ u.how = "store" /\ e.type # u.type /\ Convertible(e.type, u.type)
                   /\ e.w \in {"i8", "i32"}
<1>5. ~cast => put = e
  BY DEF Converted
<1>6. ASSUME cast
      PROVE  /\ LLVM[u.type] \in {"i8", "i32"} /\ u.type \in {"int", "char"}
             /\ put.w = LLVM[u.type] /\ put.v = Wrap(LLVM[u.type], e.v)
             /\ put.type = e.type /\ put.rule = e.rule /\ put.term = e.term
             /\ put \in Entries /\ put.v \in Range(put.w)
  <2>1. u.type \in {"int", "char"} /\ LLVM[u.type] \in {"i8", "i32"}
    BY <1>6 DEF Convertible, LLVM
  <2>2. Wrap(LLVM[u.type], e.v) \in Int /\ Wrap(LLVM[u.type], e.v) \in Range(LLVM[u.type])
    BY <1>2, <2>1, WrapRange DEF Entries
  <2>3. put = [e EXCEPT !.w = LLVM[u.type], !.v = Wrap(LLVM[u.type], e.v)]
    BY <1>6 DEF Converted
  <2>4. /\ put.w = LLVM[u.type] /\ put.v = Wrap(LLVM[u.type], e.v)
        /\ put.type = e.type /\ put.rule = e.rule /\ put.term = e.term /\ put \in Entries
    BY <1>2, <2>1, <2>2, <2>3 DEF Entries
  <2> QED
    BY <2>1, <2>2, <2>4
<1> HIDE DEF put, cast
<1>7. TypeOK'
  <2>1. pc' \in Faults \cup {"eval", "done"} /\ leaves' \in Nat /\ use' \in Uses \cup {Nowhere}
    BY <1>1, <1>3, <1>4 DEF TypeOK
  <2>2. faults' \subseteq Faults /\ lossy' \subseteq Losses
    BY <1>1, <1>3 DEF TypeOK
  <2>3. odd' \subseteq Oddities
    BY <1>1, <1>3 DEF TypeOK, OddUse, Oddities
  <2>4. put \in Entries
    BY <1>2, <1>5, <1>6
  <2>5. stack' \in Seq(Entries)
    BY <1>1, <1>2, <2>4
  <2>6. Sound' => \A i \in DOMAIN stack' : stack'[i].v \in Range(stack'[i].w)
    <3> SUFFICES ASSUME Sound' PROVE \A i \in DOMAIN stack' : stack'[i].v \in Range(stack'[i].w)
      OBVIOUS
    <3>1. \A i \in DOMAIN stack : stack[i].v \in Range(stack[i].w)
      BY <1>1, <1>3 DEF TypeOK, Sound
    <3>2. put.v \in Range(put.w)
      BY <1>2, <1>5, <1>6, <3>1 DEF e
    <3> QED
      BY <1>1, <3>1, <3>2
  <2> QED
    BY <2>1, <2>2, <2>3, <2>5, <2>6 DEF TypeOK
<1>8. Agree'
  BY <1>1, <1>4 DEF Agree, Faults
<1>9. ASSUME pc' = "done"
      PROVE  /\ put.w \in Places(u)
             /\ u.how = "store" => Convertible(e.type, u.type)
  BY <1>1, <1>9 DEF Outcome, Accepts, put, Uses, Use
<1>10. Arrives'
  <2> SUFFICES ASSUME Sound, lossy = {}, pc' = "done"
               PROVE  put.v = IF u.how = "store" /\ u.type \in {"int", "char"}
                              THEN Wrap(put.w, put.term) ELSE put.term
    BY <1>1 DEF Arrives, Sound
  <2>1. e.v = e.term /\ e.v \in Range(e.w)
    BY <1>1, <1>2, <1>3 DEF Agree, TypeOK, e
  <2>2. CASE cast
    BY <1>6, <2>1, <2>2 DEF cast
  <2>3. CASE ~cast /\ u.how = "store" /\ u.type \in {"int", "char"}
    <3>1. put = e /\ e.w = LLVM[u.type]
      BY <1>5, <1>9, <2>3 DEF Places
    <3>2. e.w \in {"i8", "i32"}
      BY <2>3, <3>1 DEF LLVM
    <3>3. Wrap(e.w, e.v) = e.v
      BY <2>1, <3>2, WrapFits
    <3> QED
      BY <2>1, <2>3, <3>1, <3>3
  <2>4. CASE ~cast /\ ~(u.how = "store" /\ u.type \in {"int", "char"})
    BY <1>5, <2>1, <2>4
  <2> QED
    BY <2>2, <2>3, <2>4
<1>11. WellFormed'
  <2> SUFFICES ASSUME pc' = "malformed", odd' \cap OddTypes = {},
                      u.how = "length" => "rejected" \notin faults /\ e.type = "int"
               PROVE  FALSE
    BY <1>1, <1>2 DEF WellFormed, OddTypes, e
  <2>1. "rejected" \notin faults /\ (u.how # "length" => Accepts(u, e.type))
    BY <1>1 DEF Outcome
  <2>2. "malformed" \notin faults /\ odd \cap OddTypes = {} /\ OddUse(u, e) = {}
    BY <1>1, <1>3, <2>1 DEF Reasons, OddUse, OddTypes
  <2>3. put.w \notin Places(u)
    BY <1>1, <2>1, <2>2 DEF Outcome, put
  <2>4. e.w = WidthOf(e) /\ (e.rule = "logic" => e.type = "bool")
    BY <1>2, <1>3, <2>1, <2>2 DEF Shape, e
  <2>5. e.type = "bool" => ((u.how = "branch") <=> (e.rule = "logic"))
    BY <2>2 DEF OddUse
  <2>6. CASE cast
    BY <1>6, <2>3, <2>6 DEF Places, cast
  <2>7. CASE ~cast
    <3>1. e.w \notin Places(u)
      BY <1>5, <2>3, <2>7
    <3>2. CASE u.how = "branch"
      <4>1. e.type = "bool"
        BY <2>1, <3>2 DEF Accepts, Uses, Use
      <4> QED
        BY <2>4, <2>5, <3>1, <3>2, <4>1 DEF WidthOf, Places
    <3>3. CASE u.how \in {"index", "gep", "length"}
      <4>1. e.type = "int" /\ e.rule = "expr"
        BY <1>1, <2>1, <3>3 DEF Accepts, Uses, Use
      <4> QED
        BY <2>4, <3>1, <3>3, <4>1 DEF WidthOf, Places, LLVM
    <3>4. CASE u.how \in {"store", "return"} /\ e.type = u.type
      <4>1. e.rule = "expr"
        BY <1>2, <2>4, <2>5, <3>4 DEF Entries
      <4> QED
        BY <2>4, <3>1, <3>4, <4>1 DEF WidthOf, Places
    <3>5. CASE u.how \in {"store", "return"} /\ e.type # u.type
      <4>1. u.how = "store" /\ Convertible(e.type, u.type)
        BY <2>1, <3>5 DEF Accepts, Uses, Use
      <4>2. e.type \in {"int", "char"}
        BY <3>5, <4>1 DEF Convertible
      <4>3. e.w \in {"i8", "i32"}
        BY <2>4, <4>2, <1>2 DEF WidthOf, LLVM, Entries
      <4> QED
        BY <2>7, <3>5, <4>1, <4>3 DEF cast
    <3> QED
      BY <3>2, <3>3, <3>4, <3>5 DEF Uses, Use
  <2> QED
    BY <2>6, <2>7
<1>12. Translatable'
  <2>1. pc' = "failed" => "failed" \in faults
    BY <1>1 DEF Outcome
  <2> QED
    BY <1>1, <1>3, <2>1 DEF Reasons, Translatable
<1> QED
  BY <1>4, <1>7, <1>8, <1>10, <1>11, <1>12 DEF IInv, Faults

LEMMA NextInv == IInv /\ [Next]_vars => IInv'
<1> SUFFICES ASSUME IInv, [Next]_vars PROVE IInv'
  OBVIOUS
<1>1. CASE \E how \in Hows, type \in Types : ReadKnown(how, type)
  <2>1. PICK how \in Hows, type \in Types : ReadKnown(how, type)
    BY <1>1
  <2>2. PICK v \in LeafVals(how, type) : Read(how, type, v, v)
    BY <2>1 DEF ReadKnown
  <2>3. v \in Range(LLVM[type]) /\ v \in Int
    <3>1. CASE type = "bool" \/ (type = "int" /\ how = "const")
      BY <2>2, <3>1, EvaluationAssumption DEF LeafVals, LLVM, Range
    <3>2. CASE type = "string"
      BY <2>2, <3>2 DEF LeafVals, LLVM, Range
    <3>3. CASE type \in {"int", "char"} /\ ~(type = "int" /\ how = "const")
      BY <2>2, <3>3, EvaluationAssumption DEF LeafVals, LLVM, Range
    <3> QED
      BY <3>1, <3>2, <3>3 DEF Types
  <2> QED
    BY <2>2, <2>3, ReadInv
<1>2. CASE \E type \in Types : ReadUnknown(type)
  <2>1. PICK type \in {"int", "char"}, n \in SolverInts : Read("input", type, Wrap(LLVM[type], n), n)
    BY <1>2 DEF ReadUnknown
  <2>2. n \in Int /\ LLVM[type] \in {"i8", "i32"}
    BY EvaluationAssumption DEF LLVM
  <2>3. Wrap(LLVM[type], n) \in Range(LLVM[type])
    BY <2>2, WrapRange
  <2> QED
    BY <2>1, <2>2, <2>3, ReadInv DEF Hows, Types
<1>3. CASE \E op \in Ops : Operate(op)
  BY <1>3, OperateInv
<1>4. CASE \E u \in Uses : Deliver(u)
  BY <1>4, DeliverInv
<1>5. CASE UNCHANGED vars
  BY <1>5 DEF vars, IInv, TypeOK, Agree, Arrives, WellFormed, Translatable, Shape, Reasons,
              Sound, WidthOf
<1> QED
  BY <1>1, <1>2, <1>3, <1>4, <1>5 DEF Next

LEMMA Invariance == Spec => []IInv
  BY InitInv, NextInv, PTL DEF Spec

-----------------------------------------------------------------------------

\* Every value fits the register it is in, and what waits on the stack has the
\* shape code generation gives it.
THEOREM TypeCorrect == Spec => []TypeOK
<1>1. IInv => TypeOK
  BY DEF IInv
<1> QED
  BY Invariance, <1>1, PTL

\* The solver and the compiled program compute the same values, but for
\* narrowing, overflow and negative division (CodegenZ3Visitor.cpp:270,
\* CodegenVisitor.cpp:76).
THEOREM ValuesAgree == Spec => []Agree
<1>1. IInv => Agree
  BY DEF IInv
<1> QED
  BY Invariance, <1>1, PTL

\* What is stored, branched on or returned is what the solver computed
\* (CodegenVisitor.cpp:350).
THEOREM ValuesArrive == Spec => []Arrives
<1>1. IInv => Arrives
  BY DEF IInv
<1> QED
  BY Invariance, <1>1, PTL

\* What the type checker accepts is well formed for LLVM, but for the odd uses
\* of types (ast.cpp:424, Semantics.cpp:106).
THEOREM IRWellFormed == Spec => []WellFormed
<1>1. IInv => WellFormed
  BY DEF IInv
<1> QED
  BY Invariance, <1>1, PTL

\* The solver can be given every accepted condition on numbers and booleans
\* (CodegenZ3Visitor.cpp:252).
THEOREM ConditionsTranslatable == Spec => []Translatable
<1>1. IInv => Translatable
  BY DEF IInv
<1> QED
  BY Invariance, <1>1, PTL
=============================================================================
