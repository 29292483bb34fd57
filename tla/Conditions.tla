------------------------------ MODULE Conditions ------------------------------
(***************************************************************************)
(* What the solver knows of the program when it is called at a branch with *)
(* a precondition.  The compiled code tells it, node by node of the        *)
(* condition, where the local variables are and which elements are indexed *)
(* (CodegenZ3Visitor::prepare_eval_ctx); gen_expr then reads that context, *)
(* which is kept with the symbols and nodes of the syntax tree: it         *)
(* survives the branch and the test.                                       *)
(*                                                                         *)
(* The program between its branches is any sequence of definitions and     *)
(* assignments.  A definition that is run again has a new address, as an   *)
(* alloca in a loop has.  What operators compute and which answer the      *)
(* solver finds is in Evaluation and Concolic, lengths are in Concolic and *)
(* AllocTable.                                                             *)
(***************************************************************************)
EXTENDS Integers, Sequences, SequencesExt, Functions

CONSTANTS Programs,  \* records of nodes and branches
          Slots,     \* the addresses of the stack
          Blocks,    \* the blocks of the heap
          Lengths,   \* the length that allocated_vals has for each of them
          Values     \* the values of variables, elements and inputs, and the indices

Null == -1      \* a pointer that was never set
Unknown == -2   \* the value of an input that has none

\* A program is a sequence of nodes, children before their parents, and its
\* branches.  Every operand is a number or a bool: gen_expr throws for others.
\* Local arrays have one dimension here.
WellFormed(p) ==
  LET kind(n) == p.nodes[n].kind
      kids(n) == p.nodes[n].kids
      scalars == {n \in DOMAIN p.nodes : kind(n) \notin {"array", "inputs"}}
  IN  /\ Len(p.nodes) \in Nat /\ DOMAIN p.nodes = 1 .. Len(p.nodes)
      /\ \A n \in DOMAIN p.nodes :
           /\ kind(n) \in {"const", "local", "input", "array", "inputs", "at", "len", "op"}
           /\ kids(n) \in Seq(1 .. n - 1)
           /\ kind(n) = "const" => p.nodes[n].sym \in Values
           /\ kind(n) \in {"const", "local", "input", "array", "inputs"} => kids(n) = <<>>
           /\ kind(n) = "op" => kids(n) # <<>> /\ \A i \in DOMAIN kids(n) : kids(n)[i] \in scalars
           /\ kind(n) = "len" => Len(kids(n)) = 1 /\ kind(kids(n)[1]) = "array"
           /\ kind(n) = "at" =>
                /\ Len(kids(n)) >= 2 /\ \A i \in 2 .. Len(kids(n)) : kids(n)[i] \in scalars
                /\ \/ kind(kids(n)[1]) = "inputs"
                   \/ kind(kids(n)[1]) = "array" /\ Len(kids(n)) = 2
      /\ \A m, n \in DOMAIN p.nodes :
           kind(m) = "local" /\ kind(n) = "array" => p.nodes[m].sym # p.nodes[n].sym
      /\ \A b \in p.branches : b.cond \in scalars /\ b.pre \in scalars \cup {0}

ASSUME ConditionsAssumption ==
  /\ Slots \subseteq Nat /\ Blocks \subseteq Nat /\ Values \subseteq Nat
  /\ Lengths \in [Blocks -> Values]
  /\ \A p \in Programs : WellFormed(p)

VARIABLES pc,       \* the program runs, or a branch is prepared or evaluated
          prog,
          branch,   \* the branch that is taken
          todo,     \* the nodes that prepare_eval_ctx still visits
          home,     \* the addresses of the locals that are defined
          mem,      \* what the stack holds, where it is in use
          heap,     \* what the blocks hold that are in use
          binding,  \* the values of the inputs and their elements
          addr,     \* Symbol::addr of each local
          ptr,      \* ArrLookupNode::current_ptr
          idxs,     \* ArrLookupNode::current_idxs
          seen      \* what gen_expr found for the nodes it read

memory == <<home, mem, heap>>
context == <<addr, ptr, idxs>>
vars == <<pc, prog, branch, todo, memory, binding, context, seen>>

-----------------------------------------------------------------------------
(* Conditions are trees of nodes [kind, sym, kids].  A node is a constant  *)
(* (its sym is the number), a scalar ("local", "input"), an array ("array",*)
(* "inputs"), an element ("at") or the length ("len") of the array that is *)
(* its first child, or an operator.                                        *)

Kind(n) == prog.nodes[n].kind
Sym(n) == prog.nodes[n].sym
Kids(n) == prog.nodes[n].kids
Nodes == DOMAIN prog.nodes
Array(n) == Kids(n)[1]
Indices(n) == IF Kind(n) = "at" THEN Tail(Kids(n)) ELSE <<>>

Locals == {Sym(n) : n \in {m \in Nodes : Kind(m) \in {"local", "array"}}}
Arrays == {Sym(n) : n \in {m \in Nodes : Kind(m) = "array"}}
Lookups == {n \in Nodes : Kind(n) = "at"}
IsInput(n) ==
  Kind(n) = "input" \/ (Kind(n) = "at" /\ Kind(Array(n)) = "inputs")

\* ASTNode::visitChildren
Preorder ==
  LET f[n \in Nodes] == <<n>> \o FlattenSeq([i \in DOMAIN Kids(n) |-> f[Kids(n)[i]]])
  IN  f
Below(n) == ToSet(Preorder[n])

\* The nodes gen_expr reads: it does not go into arrays and indices.
Reads ==
  LET f[n \in Nodes] ==
        IF Kind(n) = "op" THEN UNION {f[k] : k \in ToSet(Kids(n))}
        ELSE {n} \ {m \in Nodes : Kind(m) = "const"}
  IN  f
ReadBy(b) == Reads[b.cond] \cup (IF b.pre = 0 THEN {} ELSE Reads[b.pre])

\* What the compiled code computes for a node.  An operator is any operator.
Bound(key) == IF key \in DOMAIN binding THEN binding[key] ELSE Unknown
Val ==
  LET f[n \in Nodes] ==
        LET is == [i \in DOMAIN Indices(n) |-> f[Indices(n)[i]]]
        IN  CASE Kind(n) = "const"  -> Sym(n)
              [] Kind(n) = "inputs" -> Null
              [] Kind(n) = "input"  -> Bound(<<Sym(n)>>)
              [] Kind(n) \in {"local", "array"} -> mem[home[Sym(n)]]
              [] Kind(n) = "len"    -> Lengths[f[Array(n)]]
              [] Kind(n) = "op"     ->
                   LET vs == {f[k] : k \in ToSet(Kids(n))}
                   IN  CHOOSE v \in vs : \A w \in vs : v <= w
              [] Kind(n) = "at"     ->
                   IF Unknown \in ToSet(is) THEN Unknown
                   ELSE IF IsInput(n) THEN Bound(<<Sym(Array(n))>> \o is)
                   ELSE heap[f[Array(n)]][is[1]]
  IN  f

IdxVals(n) == [i \in DOMAIN Indices(n) |-> Val[Indices(n)[i]]]

\* Where the compiled code finds what gen_expr reads.
Place(n) ==
  CASE Kind(n) = "local" -> home[Sym(n)]
    [] Kind(n) = "len"   -> home[Sym(Array(n))]
    [] Kind(n) = "input" -> <<Sym(n)>>
    [] Kind(n) = "at"    ->
         IF IsInput(n) THEN <<Sym(Array(n))>> \o IdxVals(n)
         ELSE <<mem[home[Sym(Array(n))]]>> \o IdxVals(n)

\* The inputs that the compiled code must draw to compute the nodes ns.
Wanted(ns) ==
  {Place(n) : n \in {m \in UNION {Below(k) : k \in ns} :
     IsInput(m) /\ Val[m] = Unknown /\ Unknown \notin ToSet(IdxVals(m))}}

-----------------------------------------------------------------------------
(* The program.                                                            *)

\* f with the values of g, or with one value more.
Extend(f, g) == [x \in DOMAIN f \cup DOMAIN g |-> IF x \in DOMAIN g THEN g[x] ELSE f[x]]
With(f, key, x) == Extend(f, [k \in {key} |-> x])

NoBranch == [cond |-> 0, pre |-> 0]
Idle == pc = "run"
\* At the top of its function, or in a loop: there is a fresh slot.
Define(v) ==
  /\ Idle
  /\ \E a \in Slots \ DOMAIN mem :
       /\ home' = With(home, v, a)
       /\ IF v \in Arrays
          THEN \E b \in Blocks \ DOMAIN heap :
                 /\ mem' = With(mem, a, b)
                 /\ \E h \in [Values -> Values] : heap' = With(heap, b, h)
          ELSE /\ \E x \in Values : mem' = With(mem, a, x)
               /\ UNCHANGED heap
  /\ UNCHANGED <<pc, prog, branch, todo, binding, context, seen>>

Assign(v) ==
  /\ Idle /\ v \in DOMAIN home
  /\ IF v \in Arrays
     THEN \E b \in DOMAIN heap : mem' = [mem EXCEPT ![home[v]] = b]
     ELSE \E x \in Values : mem' = [mem EXCEPT ![home[v]] = x]
  /\ UNCHANGED <<pc, prog, branch, todo, home, heap, binding, context, seen>>

AssignElement(v) ==
  /\ Idle /\ v \in Arrays \cap DOMAIN home
  /\ \E i, x \in Values : heap' = [heap EXCEPT ![mem[home[v]]][i] = x]
  /\ UNCHANGED <<pc, prog, branch, todo, home, mem, binding, context, seen>>

\* Mutant of EndTest: the addresses of variables outlive the stack.
EndTestKeepsHome ==
  /\ Idle
  /\ mem' = <<>> /\ heap' = <<>> /\ binding' = <<>>
  /\ UNCHANGED <<pc, prog, branch, todo, home, context, seen>>

\* The test ends: the stack and the heap are left, inputs are reset, the
\* contexts are not.
EndTest ==
  /\ Idle
  /\ home' = <<>> /\ mem' = <<>> /\ heap' = <<>> /\ binding' = <<>>
  /\ UNCHANGED <<pc, prog, branch, todo, context, seen>>

-----------------------------------------------------------------------------
(* CodegenZ3Visitor::prepare_eval_ctx.                                     *)

\* Mutant of Visits: the precondition is not visited.
VisitsCondOnly(b) == Tail(Preorder[b.cond])

\* The children of the PrecondNode, and those of the condition.
Visits(b) ==
  (IF b.pre = 0 THEN <<>> ELSE Preorder[b.pre]) \o Tail(Preorder[b.cond])

\* A branch uses locals that are defined.
Take(b) ==
  /\ Idle
  /\ \A n \in Below(b.cond) \cup (IF b.pre = 0 THEN {} ELSE Below(b.pre)) :
       Kind(n) \in {"local", "array"} => Sym(n) \in DOMAIN home
  /\ pc' = "prepare" /\ branch' = b /\ todo' = Visits(b)
  /\ UNCHANGED <<prog, memory, binding, context, seen>>

Draw(ns) ==
  /\ \E key \in Wanted(ns), x \in Values : binding' = With(binding, key, x)
  /\ UNCHANGED <<pc, prog, branch, todo, memory, context, seen>>

Visiting(kinds) == pc = "prepare" /\ todo # <<>> /\ Kind(Head(todo)) \in kinds
Visited == todo' = Tail(todo) /\ UNCHANGED <<pc, prog, branch, memory, binding, seen>>

\* upd_ident_addr
PrepareIdent ==
  /\ Visiting({"local", "array"})
  /\ addr' = [addr EXCEPT ![Sym(Head(todo))] = home[Sym(Head(todo))]]
  /\ UNCHANGED <<ptr, idxs>>
  /\ Visited

\* Computing the indices may draw inputs.
DrawIndices == Visiting({"at"}) /\ Draw(ToSet(Indices(Head(todo))))

\* Mutant of PrepareLocalLookup: a pointer that is set is kept.
PrepareLocalLookupOnce ==
  /\ Visiting({"at"}) /\ ~IsInput(Head(todo))
  /\ Wanted(ToSet(Indices(Head(todo)))) = {}
  /\ ptr' = [ptr EXCEPT ![Head(todo)] = IF @ = <<>> THEN Place(Head(todo)) ELSE @]
  /\ UNCHANGED <<addr, idxs>>
  /\ Visited

\* upd_arr_lookup_addr, for a local array.
PrepareLocalLookup ==
  /\ Visiting({"at"}) /\ ~IsInput(Head(todo))
  /\ Wanted(ToSet(Indices(Head(todo)))) = {}
  /\ ptr' = [ptr EXCEPT ![Head(todo)] = Place(Head(todo))]
  /\ UNCHANGED <<addr, idxs>>
  /\ Visited

\* upd_arr_idxs, for an input array.
PrepareInputLookup ==
  /\ Visiting({"at"}) /\ IsInput(Head(todo))
  /\ Wanted(ToSet(Indices(Head(todo)))) = {}
  /\ idxs' = [idxs EXCEPT ![Head(todo)] = IdxVals(Head(todo))]
  /\ UNCHANGED <<addr, ptr>>
  /\ Visited

\* The address of an array whose length is read; its identifier is visited next.
PrepareLength ==
  /\ Visiting({"len"})
  /\ addr' = [addr EXCEPT ![Sym(Array(Head(todo)))] = home[Sym(Array(Head(todo)))]]
  /\ UNCHANGED <<ptr, idxs>>
  /\ Visited

PrepareOther ==
  /\ Visiting({"const", "op", "input", "inputs"})
  /\ UNCHANGED context
  /\ Visited

-----------------------------------------------------------------------------
(* CodegenZ3Visitor::start_z3_gen.                                         *)

\* Where gen_expr looks for a node.
Sought(n) ==
  CASE Kind(n) = "local" -> addr[Sym(n)]
    [] Kind(n) = "len"   -> addr[Sym(Array(n))]
    [] Kind(n) = "input" -> <<Sym(n)>>
    [] Kind(n) = "at"    -> IF IsInput(n) THEN <<Sym(Array(n))>> \o idxs[n] ELSE ptr[n]

\* Memory in use, or at least one index.
Readable(n) ==
  CASE Kind(n) \in {"local", "len"} -> Sought(n) \in DOMAIN mem
    [] Kind(n) = "input" -> TRUE
    [] Kind(n) = "at"    ->
         IF IsInput(n) THEN idxs[n] # <<>> ELSE ptr[n] # <<>> /\ ptr[n][1] \in DOMAIN heap

Solving == pc = "prepare" /\ todo = <<>>

\* A null or dangling pointer is read, or an index of an empty vector.
SolveUndefined ==
  /\ Solving
  /\ \E n \in ReadBy(branch) : ~Readable(n)
  /\ pc' = "undefined"
  /\ UNCHANGED <<prog, branch, todo, memory, binding, context, seen>>

\* Inputs without a value are what the solver is asked for.
Asked == {Sought(n) : n \in {m \in ReadBy(branch) : IsInput(m)}} \ DOMAIN binding

\* What gen_expr makes of a node: the value in memory, or a symbol.
Term(n) ==
  CASE IsInput(n) -> Sought(n)
    [] Kind(n) = "local" -> mem[Sought(n)]
    [] Kind(n) = "len" -> Lengths[mem[Sought(n)]]
    [] OTHER -> heap[ptr[n][1]][ptr[n][2]]

\* Mutant of Fill: inputs that have a value are solved for as well.
FillAnew(keys) ==
  \E m \in [{Sought(n) : n \in {k \in ReadBy(branch) : IsInput(k)}} -> Values] : binding' = Extend(binding, m)

\* fill_val of every symbol of syms_to_expr_id.
Fill(keys) == \E m \in [keys -> Values] : binding' = Extend(binding, m)

\* The problem is solved, or it is not.
Solve ==
  /\ Solving
  /\ \A n \in ReadBy(branch) : Readable(n)
  /\ seen' = [n \in ReadBy(branch) |-> Term(n)]
  /\ Fill(Asked) \/ UNCHANGED binding
  /\ pc' = "eval"
  /\ UNCHANGED <<prog, branch, todo, memory, context>>

\* Then the condition is computed, and draws what is still unknown.
DrawCondition == pc = "eval" /\ Draw({branch.cond})

Branch ==
  /\ pc = "eval" /\ Wanted({branch.cond}) = {}
  /\ pc' = "run" /\ branch' = NoBranch /\ seen' = <<>>
  /\ UNCHANGED <<prog, todo, memory, binding, context>>

-----------------------------------------------------------------------------
Init ==
  /\ prog \in Programs /\ pc = "run" /\ branch = NoBranch /\ todo = <<>>
  /\ home = <<>> /\ mem = <<>> /\ heap = <<>> /\ binding = <<>> /\ seen = <<>>
  /\ addr = [v \in Locals |-> Null]
  /\ ptr = [n \in Lookups |-> <<>>]
  /\ idxs = [n \in Lookups |-> <<>>]

Next ==
  \/ \E v \in Locals : Define(v) \/ Assign(v) \/ AssignElement(v)
  \/ EndTest
  \/ \E b \in prog.branches : Take(b)
  \/ PrepareIdent \/ DrawIndices \/ PrepareLocalLookup \/ PrepareInputLookup
  \/ PrepareLength \/ PrepareOther
  \/ SolveUndefined \/ Solve
  \/ DrawCondition \/ Branch

Spec == Init /\ [][Next]_vars

-----------------------------------------------------------------------------
\* The nodes of the branch whose context was set for it.
Refreshed ==
  LET nodes == ToSet(Visits(branch))
      syms == {Sym(n) : n \in {m \in nodes : Kind(m) \in {"local", "array"}}}
  IN  {n \in ReadBy(branch) :
         \/ n \in nodes
         \/ Kind(n) = "input"
         \/ Kind(n) = "local" /\ Sym(n) \in syms}

TypeOK ==
  /\ pc \in {"run", "prepare", "eval", "undefined"}
  /\ branch \in prog.branches \cup {NoBranch}
  /\ ToSet(todo) \subseteq Nodes
  /\ DOMAIN home \subseteq Locals /\ Range(home) \subseteq DOMAIN mem
  /\ DOMAIN mem \subseteq Slots /\ Range(mem) \subseteq Values \cup DOMAIN heap
  /\ DOMAIN heap \subseteq Blocks
  /\ Range(binding) \subseteq Values
  /\ \A v \in Locals : addr[v] \in Slots \cup {Null}

\* CodegenZ3Visitor.cpp:29: when the solver is called, every local, element
\* and length that gen_expr can read in the condition and the precondition is
\* looked up where it is now, whatever was run since the branch was last
\* taken: only the node that is the whole condition may be looked up where it
\* was at an earlier time.
ContextFresh ==
  Solving => \A n \in ReadBy(branch) \ {branch.cond} : Readable(n) => Sought(n) = Place(n)

\* CodegenZ3Visitor.cpp:34: a null or dangling pointer or an empty vector of
\* indices is only ever read for a node that is the whole condition, and not
\* for a variable that the precondition has as well.
UndefinedOnlyAtRoot ==
  pc = "undefined" =>
    {n \in ReadBy(branch) : ~Readable(n)} \subseteq {branch.cond} \ Refreshed

\* CodegenVisitor.cpp:253: the condition is computed on the very values and
\* elements that the solver was given, though it is computed later, and its
\* indices once more: solving changes no input that an index depends on.
DecidedOnSame ==
  pc = "eval" =>
    \A n \in Refreshed :
      seen[n] = IF IsInput(n) THEN Place(n) ELSE Val[n]
=============================================================================
