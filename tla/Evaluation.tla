------------------------------ MODULE Evaluation ------------------------------
(***************************************************************************)
(* What becomes of one expression of a program: BinOpNode::get_type gives  *)
(* it a type, CodegenVisitor an LLVM value of some width, and, in a        *)
(* condition, CodegenZ3Visitor::gen_expr a term of the solver.  The three  *)
(* visit the expression in the same order, operands first, and are         *)
(* followed together on a stack, over every expression of the grammar.     *)
(*                                                                         *)
(* Booleans are 0 and 1, a pointer is a number without arithmetic.  An     *)
(* array is like a string here.  -f is -1 * f (ASTBuilderVisitor.cpp).     *)
(***************************************************************************)
EXTENDS Integers, Sequences

CONSTANTS Half,        \* Half[w]: 2^7 for "i8", 2^31 for "i32"
          SolverInts,  \* the integers the solver may answer with
          MaxLeaves    \* the length of an expression, in leaves

ASSUME EvaluationAssumption ==
  /\ Half \in [{"i8", "i32"} -> Nat \ {0, 1}]
  /\ Half["i8"] <= Half["i32"]
  /\ SolverInts \subseteq Int
  /\ MaxLeaves \in Nat

VARIABLES pc,      \* "eval", or what became of the expression
          stack,   \* the values of the operands that wait for their operator
          leaves,  \* how many leaves were read
          faults,  \* what a visitor met: it stops there, the others do not
          lossy,   \* history: where the solver's and the machine's numbers part
          odd,     \* history: uses of types the operators are not meant for
          use      \* where the value goes

vars == <<pc, stack, leaves, faults, lossy, odd, use>>

-----------------------------------------------------------------------------
(* Types and numbers.                                                      *)

Types == {"int", "char", "bool", "string"}
\* map_type_to_llvm_type
LLVM == [int |-> "i32", char |-> "i8", bool |-> "i8", string |-> "ptr"]

Range(w) ==
  CASE w = "i1"  -> {0, 1}
    [] w = "ptr" -> Nat
    [] OTHER     -> -Half[w] .. Half[w] - 1
Wrap(w, n) == ((n + Half[w]) % (2 * Half[w])) - Half[w]
Truth(p) == IF p THEN 1 ELSE 0
Abs(n) == IF n < 0 THEN -n ELSE n

\* What the solver divides by: the remainder is never negative.
EuclidDiv(n, d) == IF d > 0 THEN n \div d ELSE -(n \div (-d))
\* sdiv: the quotient is rounded towards zero.
SDiv(n, d) ==
  IF (n < 0) = (d < 0) THEN Abs(n) \div Abs(d) ELSE -(Abs(n) \div Abs(d))

Arith == {"+", "-", "*", "/"}
Order == {"<", "<=", ">", ">="}
Equality == {"==", "!="}
Connectives == {"&&", "||"}
Compare == Order \cup Equality
Ops == Arith \cup Compare \cup Connectives

\* An operand: its type, its rule of the grammar, LLVM type and value, term.
Entry(type, rule, w, v, term) ==
  [type |-> type, rule |-> rule, w |-> w, v |-> v, term |-> term]

-----------------------------------------------------------------------------
(* Leaves.                                                                 *)

Faults == {"rejected", "malformed", "failed", "undefined"}
Losses == {"narrowed", "overflow", "truncated"}
Oddities == {"string", "char arithmetic", "bool arithmetic", "string arithmetic",
             "bool order", "bool operand"}

Hows == {"const", "local", "input"}

\* Mutant of HasTerm: get_expr_from_void has no case for char.
HasTermNotChar(how, type) ==
  type \in (IF how = "local" THEN {"int", "bool"} ELSE {"int", "char", "bool"})

\* The types that gen_expr of a constant, get_expr_from_void and get_expr
\* have a term for; they throw for the others.
HasTerm(how, type) == type \in {"int", "char", "bool"}

LeafVals(how, type) ==
  CASE type = "bool"   -> {0, 1}
    [] type = "string" -> {0, 1}
    [] how = "const" /\ type = "int" -> -1 .. Half["i32"] - 1
    [] OTHER -> Range(LLVM[type])

Read(how, type, v, term) ==
  /\ pc = "eval" /\ leaves < MaxLeaves
  /\ stack' = Append(stack, Entry(type, "expr", LLVM[type], v, term))
  /\ leaves' = leaves + 1
  /\ faults' = faults \cup {f \in {"failed"} : ~HasTerm(how, type)}
  /\ odd' = odd \cup {o \in {"string"} : type = "string"}
  /\ lossy' = lossy \cup {l \in {"narrowed"} : v # term}
  /\ UNCHANGED <<pc, use>>

\* A constant, a local variable or element, or an input that has a value.
ReadKnown(how, type) ==
  \E v \in LeafVals(how, type) : Read(how, type, v, v)

\* Mutant of ReadUnknown: the answer is not cut to the width of the input.
ReadUnknownUncut(type) ==
  /\ type \in {"int", "char"}
  /\ \E n \in SolverInts : Read("input", type, n, n)

\* A number the solver is asked for: fill_val stores its answer in 8 or 32 bits.
ReadUnknown(type) ==
  /\ type \in {"int", "char"}
  /\ \E n \in SolverInts : Read("input", type, Wrap(LLVM[type], n), n)

-----------------------------------------------------------------------------
(* Operators.                                                              *)

\* The grammar: comparisons and connectives are no operands of the others.
Parses(op, a, b) == op \in Connectives \/ (a.rule = "expr" /\ b.rule = "expr")

\* Mutant of TypeError: == and != take any two operands.
TypeErrorButEquality(op, a, b) ==
  IF op \in Connectives THEN ~(a.type = "bool" /\ b.type = "bool")
  ELSE op \notin Equality /\ a.type # b.type

TypeError(op, a, b) ==
  IF op \in Connectives THEN ~(a.type = "bool" /\ b.type = "bool")
  ELSE a.type # b.type

ResultType(op) == IF op \in Arith THEN "int" ELSE "bool"
Width(op, a, b) == IF op \in Compare THEN "i1" ELSE a.w
\* LLVM asks for operands of one type, and for integers in arithmetic.
IllFormed(op, a, b) == a.w # b.w \/ (op \notin Compare /\ a.w = "ptr")

\* sdiv has no result.
NoResult(op, a, b) ==
  /\ op = "/"
  /\ a.w \in {"i8", "i32"} /\ a.w = b.w
  /\ b.v = 0 \/ (b.v = -1 /\ a.v = -Half[a.w])

\* Mutant of Less: the comparison is not signed.
LessUnsigned(w, x, y) == x % (2 * Half[w]) < y % (2 * Half[w])

\* icmp slt; the other signed orders are its converse and complements.
Less(w, x, y) == x < y

\* CodegenVisitor::code_gen(BinOpNode), in w bits.
MachineOp(op, w, x, y) ==
  CASE op = "+"  -> Wrap(w, x + y)
    [] op = "-"  -> Wrap(w, x - y)
    [] op = "*"  -> Wrap(w, x * y)
    [] op = "/"  -> SDiv(x, y)
    [] op = "<"  -> Truth(Less(w, x, y))
    [] op = "<=" -> Truth(~Less(w, y, x))
    [] op = ">"  -> Truth(Less(w, y, x))
    [] op = ">=" -> Truth(~Less(w, x, y))
    [] op = "==" -> Truth(x = y)
    [] op = "!=" -> Truth(x # y)
    [] op = "&&" -> Truth(x = 1 /\ y = 1)
    [] op = "||" -> Truth(x = 1 \/ y = 1)

\* CodegenZ3Visitor::gen_expr(BinOpNode), in the integers.  The solver gives
\* n / 0 a value of its own choice.
SolverOp(op, x, y) ==
  CASE op = "+"  -> x + y
    [] op = "-"  -> x - y
    [] op = "*"  -> x * y
    [] op = "/"  -> IF y = 0 THEN 0 ELSE EuclidDiv(x, y)
    [] op = "<"  -> Truth(x < y)
    [] op = "<=" -> Truth(x <= y)
    [] op = ">"  -> Truth(x > y)
    [] op = ">=" -> Truth(x >= y)
    [] op = "==" -> Truth(x = y)
    [] op = "!=" -> Truth(x # y)
    [] op = "&&" -> Truth(x = 1 /\ y = 1)
    [] op = "||" -> Truth(x = 1 \/ y = 1)

\* Z3 has no arithmetic and no order on booleans.
NoTerm(op, a, b) == op \in Arith \cup Order /\ "bool" \in {a.type, b.type}

FaultsOf(op, a, b) ==
  {f \in Faults :
     CASE f = "rejected"  -> TypeError(op, a, b)
       [] f = "malformed" -> IllFormed(op, a, b)
       [] f = "failed"    -> NoTerm(op, a, b)
       [] f = "undefined" -> NoResult(op, a, b)}

LossOf(op, a, b) ==
  {l \in {"overflow", "truncated"} :
     IF l = "overflow"
     THEN op \in Arith /\ a.w # "ptr" /\ SolverOp(op, a.term, b.term) \notin Range(a.w)
     ELSE op = "/" /\ a.term < 0 /\ b.term # 0 /\ a.term % Abs(b.term) # 0}

OddOf(op, a, b) ==
  {o \in Oddities \ {"string"} :
     CASE o = "char arithmetic" -> op \in Arith /\ "char" \in {a.type, b.type}
       [] o = "string arithmetic" -> op \in Arith /\ "string" \in {a.type, b.type}
       [] o = "bool arithmetic" -> op \in Arith /\ "bool" \in {a.type, b.type}
       [] o = "bool order"      -> op \in Order /\ "bool" \in {a.type, b.type}
       [] o = "bool operand"    -> op \in Connectives /\ "expr" \in {a.rule, b.rule}}

\* Where a visitor has stopped, its result is of no consequence.
Operate(op) ==
  /\ pc = "eval" /\ Len(stack) >= 2
  /\ LET n == Len(stack)
         a == stack[n - 1]
         b == stack[n]
         stops == FaultsOf(op, a, b)
         v == IF stops \cap {"malformed", "undefined"} = {}
              THEN MachineOp(op, a.w, a.v, b.v) ELSE 0
         rule == IF op \in Arith THEN "expr" ELSE "logic"
     IN  /\ Parses(op, a, b)
         /\ stack' = Append(SubSeq(stack, 1, n - 2),
                            Entry(ResultType(op), rule, Width(op, a, b), v,
                                  SolverOp(op, a.term, b.term)))
         /\ faults' = faults \cup stops
         /\ lossy' = lossy \cup LossOf(op, a, b)
         /\ odd' = odd \cup OddOf(op, a, b)
  /\ UNCHANGED <<pc, leaves, use>>

-----------------------------------------------------------------------------
(* The place the value is for.                                             *)

Use(how, type) == [how |-> how, type |-> type]
\* A condition, an index of an input or a local array, the length of a new
\* array, an assignment or definition, a return.
Uses == {Use("branch", "bool"), Use("index", "int"), Use("gep", "int"), Use("length", "int")}
        \cup {Use(how, type) : how \in {"store", "return"}, type \in Types}

Convertible(t, u) == t = u \/ {t, u} \subseteq {"int", "char"}

\* type_check; nothing asks for the type of a length.
Accepts(u, type) ==
  CASE u.how = "store"  -> Convertible(type, u.type)
    [] u.how = "length" -> TRUE
    [] OTHER -> type = u.type

\* Mutant of Converted: the cast does not keep the sign.
ConvertedUnsigned(u, e) ==
  IF /\ u.how = "store" /\ e.type # u.type /\ Convertible(e.type, u.type)
     /\ e.w \in {"i8", "i32"}
  THEN [e EXCEPT !.w = LLVM[u.type],
                 !.v = Wrap(LLVM[u.type], IF @ < 0 THEN @ + 2 * Half[e.w] ELSE @)]
  ELSE e

\* convert_val_if_convertible; the IR is malformed already where a pointer is cast.
Converted(u, e) ==
  IF /\ u.how = "store" /\ e.type # u.type /\ Convertible(e.type, u.type)
     /\ e.w \in {"i8", "i32"}
  THEN [e EXCEPT !.w = LLVM[u.type], !.v = Wrap(LLVM[u.type], @)]
  ELSE e

\* The LLVM types that fit the place.
Places(u) ==
  CASE u.how = "branch" -> {"i1"}
    [] u.how = "gep"    -> {"i1", "i8", "i32"}
    [] u.how \in {"index", "length"} -> {"i32"}
    [] OTHER -> {LLVM[u.type]}

OddUse(u, e) ==
  {o \in {"bool operand"} :
     e.type = "bool" /\ (u.how = "branch") # (e.rule = "logic")}

\* Types are checked first, then code is generated; gen_expr runs before it.
Outcome(u, e) ==
  LET put == Converted(u, e)
  IN  IF u.how # "length" /\ ("rejected" \in faults \/ ~Accepts(u, e.type)) THEN "rejected"
      ELSE IF "malformed" \in faults \/ put.w \notin Places(u) THEN "malformed"
      ELSE IF u.how = "branch" /\ "failed" \in faults THEN "failed"
      ELSE IF "undefined" \in faults THEN "undefined"
      ELSE "done"

Deliver(u) ==
  /\ pc = "eval" /\ Len(stack) = 1
  /\ u.how \in {"index", "gep", "length"} => stack[1].rule = "expr"
  /\ use' = u
  /\ odd' = odd \cup OddUse(u, stack[1])
  /\ pc' = Outcome(u, stack[1])
  /\ stack' = IF pc' = "done" THEN <<Converted(u, stack[1])>> ELSE stack
  /\ UNCHANGED <<leaves, faults, lossy>>

-----------------------------------------------------------------------------
Nowhere == Use("nowhere", "int")

Init ==
  /\ pc = "eval" /\ stack = <<>> /\ leaves = 0
  /\ faults = {} /\ lossy = {} /\ odd = {} /\ use = Nowhere

Next ==
  \/ \E how \in Hows, type \in Types : ReadKnown(how, type)
  \/ \E type \in Types : ReadUnknown(type)
  \/ \E op \in Ops : Operate(op)
  \/ \E u \in Uses : Deliver(u)

Spec == Init /\ [][Next]_vars

-----------------------------------------------------------------------------
Entries == [type : Types, rule : {"expr", "logic"}, w : {"i1", "i8", "i32", "ptr"},
            v : Int, term : Int]

\* The compiled code has a meaning and the terms exist.
Sound == faults \cap {"malformed", "undefined", "failed"} = {}

\* Every value fits the register it is in.
TypeOK ==
  /\ pc \in Faults \cup {"eval", "done"}
  /\ stack \in Seq(Entries)
  /\ leaves \in Nat
  /\ faults \subseteq Faults
  /\ lossy \subseteq Losses
  /\ odd \subseteq Oddities
  /\ use \in Uses \cup {Nowhere}
  /\ Sound => \A i \in DOMAIN stack : stack[i].v \in Range(stack[i].w)

\* CodegenZ3Visitor.cpp:270 and CodegenVisitor.cpp:76: the solver and the
\* compiled program compute the same values, on every operand of every
\* expression, unless an answer of the solver was cut to the width of an
\* input, a result left its width, or a negative number was divided with a
\* remainder.  There is no fourth reason.
Agree ==
  (Sound /\ lossy = {} /\ pc = "eval") =>
    \A i \in DOMAIN stack : stack[i].v = stack[i].term

\* CodegenVisitor.cpp:350: the value that arrives is the solver's, cut to the
\* type of the variable it is stored in (chars are signed): a branch is taken
\* as the solver decided it.
Arrives ==
  (Sound /\ lossy = {} /\ pc = "done") =>
    LET e == stack[1]
    IN  e.v = IF use.how = "store" /\ use.type \in {"int", "char"}
              THEN Wrap(e.w, e.term) ELSE e.term

\* Semantics.cpp:106 and ast.cpp:424: what the type checker accepts, LLVM
\* accepts, but for arithmetic on other types than int (it is typed int, in
\* whatever width the operands have), variables and constants of type bool
\* where a comparison is meant and the reverse (8 bits and 1 bit), and the
\* lengths of new arrays, which are not checked.
WellFormed ==
  pc = "malformed" =>
    \/ odd \cap {"char arithmetic", "bool arithmetic", "string arithmetic", "bool operand"} # {}
    \/ use.how = "length" /\ ("rejected" \in faults \/ stack[1].type # "int")

\* CodegenZ3Visitor.cpp:252: gen_expr has a term for every condition the type
\* checker accepts, but for conditions with a string, or with arithmetic or an
\* order on booleans.
Translatable ==
  pc = "failed" => odd \cap {"string", "bool arithmetic", "bool order"} # {}
=============================================================================
