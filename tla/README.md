# A TLA+ model of d_gen

d_gen compiles an algorithm written in a small language, runs it once per test,
and invents the input values *while it runs*: the first access to an input gives
it a random value, and a branch annotated with `[prob = p; e]` asks Z3 for
values of the inputs it reads that have no value yet. When the algorithm returns,
the inputs and the result are written as one JSON test. Nothing is concurrent and
nothing is persisted; what is hard is the order of events. The compiled program
calls back into the library, the library reads and rebuilds the tree of input
symbols, and any order of accesses, solver answers and exceptions can happen.

Line numbers are those of the files under `src/src/` unless a path is given.

## 1. Inventory

| component | state | operations | correct when |
|---|---|---|---|
| **Input symbols** `Symbol.{h,cpp}` | per input a tree: `ArraySym::inited_size`, `arr`; `std::optional` values of the scalars | `*_rand_gen`, `arr_rand_gen`, `get_val_arr`, `get_symbol_by_idxs`, `get_size`, `fill_val`, `serialize`, `reset_val` | a symbol gets its value once per test; what the program saw is what the test says; no element outlives its array |
| **Solving of branches** `CodegenZ3Visitor` | `syms_to_expr_id`, `exprs`; per node `current_idxs`, `current_ptr`, `Symbol::addr` | `z3_gen`/`start_z3_gen`, `gen_expr`, the context callbacks | the branch goes where the solver was asked to send it; unanswered problems fall back to random values |
| **Test loop** `DGen.cpp` | `tests`, `inputs` | `generate_json`, `gather_res`, `gather_rec`, `reset` | complete tests, independent of each other |
| **Allocation table** `Symbol::allocated_vals` (`Symbol.h:30`, `CodegenVisitor.cpp`, `DGen.cpp`) | pointer to `{is_alloc, size}`, process-wide | `create_arr`, `set_global_ptr_size`, `arr_rand_gen`, `get_property`, `gather_rec`, `reset` | every array the program can reach has its length there; everything allocated is freed once |
| **Code generation** `CodegenVisitor` | insertion point, `ForNode::loop_cond_bb`, `merge_bb` | one `code_gen` per node | well-formed blocks that run like the source |
| **Semantic passes** `Semantics` | `ContinueNode::loop`, `IdentNode::symbol`, `BodyNode::stmts` | `connect_loops`, `type_ast`, `type_check`, `eliminate_unreachable_code` | each pass leaves what the next one needs |
| **Types, symbol table, AST** | `Type`, `SymbolTable`, `ASTNode::children` | `get_type`, conversions, scoping, `copy`, `~ASTNode` | what is accepted has one meaning; each node is deleted once |
| **Parser** `d_gen.g4`, `ASTBuilderVisitor` | none | one visit per rule | every node has one parent |
| **Command line tool** `tool/main.cpp` | `prog_path`, `tests_num`, `seed` | `parse_args`, `main` | all tests that were asked for, or a message |
| **JIT, errors, build** | none of their own | `DGenJIT` | |

How they interact: `generate_json` parses, runs the passes, generates code and
calls the JIT-compiled function `tests_num` times. That function calls
`num_rand_gen`, `get_val_arr`, `get_property`, `create_arr`, `set_global_ptr_size`
and `z3_gen` while it runs and `gather_res` before it returns; they share the
symbol tree and the allocation table. An exception in a callback passes through
the compiled function and `generate_json` to the caller, and skips `reset`.

The hazards this brings, each at its line, are listed in `PROJECT.json`.

## 2. Modules

    SymbolTree         the tree of symbols, as operators on a partial function
      TestOracle       abstract: values are learnt once, tests are complete, then all is forgotten
      Concolic         detailed: the callbacks, the solver, the test loop   (implements TestOracle)
        MCConcolic     f(int x, string s)
        MCNested       f(bool b, int[][] m)
      ConcolicProofs     lemmas about the tree, invariants and refinement, for every program
    AllocTable         allocated_vals, the heap and the program's pointers
      MCAllocTable
      AllocTableProofs
    ControlFlow        passes, basic blocks, and running them next to the source
      MCControlFlow
      ControlFlowProofs  invariants and the simulation of the source, for every program
    SyntaxTree         nodes from the parser to their deletion: names, types, allocas, ownership
      MCSyntaxTree
      SyntaxTreeProofs   ownership and types, for every program
        ScopeProofs      names and allocas, for every program
    Evaluation         one expression: its type, its LLVM value, its term of the solver
      MCEvaluation
      EvaluationProofs
    Conditions         where the solver finds what a condition reads
      MCConditions
      ConditionsProofs
    Induction          lemmas: induction over numbers, FlattenSeq  (for Conditions, ControlFlow and SyntaxTree)
    JsonReader         reference: what a reader of JSON makes of a text
      Output           command line, test loop and text  (extends SymbolTree)
        MCOutput

### SymbolTree

A symbol is `[in, path]`: the input and the indices that lead to it. A *binding*
maps the symbols that have a value to it: a scalar to its value, an array to
`inited_size`. The vector `arr` of an array is implied by its size, so that
`init_arr`, which empties the vector and pushes new symbols (`Symbol.cpp:284-290`),
is `Assign`: the array gets its size and every symbol below it loses its value.
A string is an array of chars. `Frontier` is what forcing a symbol generates
next, `Wrap` the narrowing of `fill_val`.

### Concolic and TestOracle

The compiled program is the most general one: between callbacks it does any
access of `Accesses`, takes any branch of `Conds`, or returns. A read is a value
or a length; a branch lists the reads of its condition and then of its
precondition, in the order `gen_expr` visits them. What is computed from the
values is a parameter (`Side`, `PreHolds`), so the theorems hold for every
condition.

| action | code |
|---|---|
| `Access` | the program calls a value callback (`CodegenVisitor.cpp:110-118`, `187-202`, `213-227`) |
| `Branch` | `z3_gen` (`CodegenZ3Visitor.cpp:25-46`) |
| `Descend` | a turn of `get_symbol_by_idxs`: size, bounds check, next level (`Symbol.cpp:262-277`) |
| `GenRead` | `gen_expr`: literal, or constant registered to be filled (`CodegenZ3Visitor.cpp:217-250`, `308-324`) |
| `SolverSat`, `SolverGivesUp` | the problem, its negation with `prob`, sat, or nothing to solve and no answer (`CodegenZ3Visitor.cpp:149-195`) |
| `Fill(s)`, `FillDone` | one `fill_val`, in any order: the map is unordered (`CodegenZ3Visitor.cpp:196-202`) |
| `Generate`, `Observe` | a value callback generates what is missing, then returns (`Symbol.cpp:13-30`, `115-120`, `174-187`, `201-208`) |
| `Resume` | all values are there, the program branches |
| `Return`, `Serialize`, `Emit` | `gather_res` (`DGen.cpp:117-130`) |
| `Reset` | `reset_val` of every input (`DGen.cpp:140-142`) |

`pc = "failed"` is an exception that ends `generate_json`; `pc = "undefined"` is
undefined behaviour: an index below zero, or `fill_val` on a destroyed symbol.
`seen` is a history variable: the values the program was given.

What is abstracted: the solver is any procedure that answers with values
satisfying condition and precondition, or does not; each symbol has a constant of
its own; the compiled condition and the solver's compute the same function
(`Side`), which is `Evaluation`'s question; a read carries the indices of the
moment, which is `Conditions`'. Failed generations stop the model, since
`generate_json` starts from new symbols.

`TestOracle` is what a user is promised: `known` only grows, a test is written
when every symbol of every input has a value, with these values, and the next
test knows nothing. `Concolic` implements it with `known <- binding` and
`emitted <- (pc = "reset")`.

### AllocTable

Pointers do not carry a length; the table has it. The model has the heap
(`blocks`), the table, the program's array variables and `gather_rec`'s pending
calls. The program is the most general one that stays in bounds: it creates
arrays, evaluates literals, copies inputs, copies pointers through variables and
elements, asks for lengths, returns, throws. Uninitialized variables and elements
hold `Garbage`, and using one as a pointer yields any address. `Touch` is
`operator[]`, which inserts. `Again` is a caller that catches an exception and
generates again: `allocated_vals` is static and still holds the entries of the
test that was left. Addresses are reused after `free`.

### ControlFlow

A program is a set of paths with a statement at each, so passes are set
comprehensions and the code generator a machine with the stack of `code_gen`
calls (`work`), one action per handler. Then the blocks run, and next to them the
source program as C would run it (`src`, `SourceNext`); conditions may come out
either way. An instruction past the end of a block is undefined. `WellFormed` says of a
program what its paths cannot fail to be: a statement that is there has those in
front of it and those it stands in, and no path is longer than a bound. This is all
the proofs assume of it.

### SyntaxTree

`nodes` is the heap of syntax-tree nodes, `work` the nodes a traversal comes to
next: `visitChildren`, `code_gen` and `~ASTNode` are recursive, and what is still
to be visited is their stack. The text of a program is the sequence of grammar
rules in the order `ASTBuilderVisitor` leaves them, so that each constructor call
is a step and the operands are on a stack, as the visitor's return values are.

| action | code |
|---|---|
| `LeaveOut`, `Construct`, `ConstructLookup` | the visits of `ASTBuilderVisitor.cpp:74-314`; an optional part is a null pointer |
| `ConstructCompound` | `AsgNode::create`, `CremNode::create` with `copy()` (`ast.cpp:196-256`, `558-565`) |
| `ConstructFunction` | the function node, the input symbols, the first table (`Semantics.cpp:64-76`) |
| `TypeDef`, `TypeIdent`, `TypeBody`, `TypeOther` | a turn of `type_visitor` (`Semantics.cpp:78-98`, `SymbolTable.cpp`) |
| `TypeCheck` | `type_check` with the `get_type` of all nodes (`Semantics.cpp:106-180`, `ast.cpp:424-599`, `type.cpp`) |
| `Eliminate` | `eliminate_unreachable_code`: `stmts` is cut, the children are not (`Semantics.cpp:11-33`) |
| `Generate` | `code_gen` of a node: its alloca, and the order of its parts (`CodegenVisitor.cpp:42-338`) |
| `StartDelete`, `Delete` | `delete func` and `~ASTNode` (`DGen.cpp:56`, `ast.cpp:56-62`) |

A program is `WellFormed` when its rules are those of one parse of `d_gen.g4`: each
takes what was returned for its parts, these have the kinds that the grammar allows
there (`Parts`, `Shape`: a body has statements, a condition is an expression, the
left side of an assignment is a name or a lookup), a type is a scalar behind any
number of `arr`, and the body of the function is what remains. `Copies` is the part of a left side that `copy()` copies: a class
without a `copy()` of its own returns itself, with all that is below it.

`connect_loops`, the first pass, is in `ControlFlow`; the programs here are those
it accepts. Operators stand for their group: `+` for arithmetic, `<` for
comparisons of numbers, `==` for equality, `&&` for both connectives. What the
type checker does not look at (the length of a created array) is generated all
the same.

### Evaluation

One expression is followed through its three visitors at once. `get_type`,
`code_gen` and `gen_expr` all visit the operands before the operator, so the
model is a stack machine: a leaf pushes an entry with the type, the LLVM type and
value, and the term, and an operator replaces two entries by one. Any sequence
of leaves and operators that the grammar allows is an expression. Each visitor
may stop (`faults`) and the others go on, since type checking, code generation and
solving happen at different times; `Outcome` puts them in their order.

| action | code |
|---|---|
| `ReadKnown` | a constant, a local variable or element, or an input with a value (`CodegenVisitor.cpp:50-56`, `CodegenZ3Visitor.cpp:205-229`) |
| `ReadUnknown` | an input the solver is asked for, and the narrowing of its answer (`Symbol.cpp:153-155`, `360-364`) |
| `Operate` | `BinOpNode`: `get_type` (`ast.cpp:424-478`), `code_gen` (`CodegenVisitor.cpp:79-108`), `gen_expr` (`CodegenZ3Visitor.cpp:270-299`) |
| `Deliver` | the place the value is for: `type_check` (`Semantics.cpp:104-180`), `convert_val_if_convertible` (`CodegenVisitor.cpp:350-355`), a branch, an index, a length, a store or a return |

`sdiv`, the integers of Z3 and what LLVM calls ill-formed are modelled as those
projects define them and are marked external. `lossy` and `odd` are history
variables that the properties need to say when things may differ.

### Conditions

A condition is a tree of nodes; between branches the program defines and assigns
variables in any order. A definition in a loop runs its `alloca` again, so that
each run of `Define` takes a fresh slot. `addr`, `ptr` and `idxs` are
`Symbol::addr`, `current_ptr` and `current_idxs`: they are kept with the syntax
tree and nothing resets them, not even the end of a test.

| action | code |
|---|---|
| `Define`, `Assign`, `AssignElement` | `DefNode`, `AsgNode` (`CodegenVisitor.cpp:120-185`) |
| `EndTest` | the function returns, `reset` (`DGen.cpp:132-143`) |
| `Take` | a branch with a precondition; the nodes `prepare_eval_ctx` visits (`CodegenZ3Visitor.cpp:29-46`) |
| `PrepareIdent`, `PrepareLocalLookup`, `PrepareInputLookup`, `PrepareLength`, `PrepareOther` | the callbacks of one node (`CodegenZ3Visitor.cpp:48-141`, `301-306`) |
| `DrawIndices`, `DrawCondition` | computing an index or the condition draws inputs |
| `Solve`, `SolveUndefined` | `start_z3_gen`: what `gen_expr` reads and fills (`CodegenZ3Visitor.cpp:143-268`) |
| `Branch` | the branch is taken, on values computed again (`CodegenVisitor.cpp:255-261`) |

The context of a property lookup is that of its array; the table of lengths is
`AllocTable`'s and is a constant here, `Lengths`. `WellFormed` says of a program
what the type checker and `gen_expr` leave of it: children come before their
parents, an index, an operand and a condition is a number or a bool, a length is
asked of an array. Local arrays have one dimension; an input has any number of
them. Bounds of indices are `Concolic`'s.

### Output and JsonReader

`Output` is the part of the system a user sees: options, the loop over the tests,
the text. A run learns some values of some inputs (how is `Concolic`'s matter), then
returns or throws. A text is a sequence of tokens: punctuation, quotes, characters
of strings, numbers, literals; line breaks and tabs between them are left out.
`SymbolText` and `ResultText` write what `serialize` and `gather_rec` write, with
the comma that the closing bracket replaces and without any escape.

| action | code |
|---|---|
| `ParseArgs`, `Build` | `parse_args` and `main` (`tool/main.cpp:12-67`), `generate_json` up to its loop (`DGen.cpp:21-49`) |
| `Learn`, `Throw`, `Return` | the compiled function |
| `Force`, `WriteInput`, `WriteResult` | `gather_res` (`DGen.cpp:117-130`): what serializing generates, then what it writes |
| `Reset` | `reset` and the loop (`DGen.cpp:50-53`, `132-143`) |
| `Show` | the report (`DGen.cpp:57-69`), printed by `main` |

`JsonReader` is not a translation of code: it is a reader of JSON as RFC 8259 has it,
and the measure for the text.

## 3. Checks

| run | question | expected |
|---|---|---|
| `concolic_safe` | all properties of `Concolic`, for branches that read no length before an element of the same input | pass |
| `nested` | the same invariants and refinement for a bool and an array of arrays, over two tests | pass |
| `alloc` | table and heap agree, lengths are known, frees are right, a returned test leaves nothing allocated | pass |
| `control_flow` | links, blocks and execution of some 6,800 programs | pass |
| `syntax_tree` | names, types, allocas and ownership of nodes in some 7,900 programs, of which 1,353 are accepted | pass |
| `evaluation` | every expression of at most four leaves, with every small value: do type checker, machine and solver agree | pass |
| `conditions` | branches on locals, elements, lengths and inputs, taken again and again: does the solver see what the program sees | pass |
| `output` | six programs, from the command line to the text: does a reader get the tests back | pass |
| `concolic_len_first` | `s.len > 0 && s[0] == 1` on a fresh input: values stick | **violated** |
| `concolic_lengths` | a program without element accesses never fails | **violated** |
| `continue_increments` | `continue` in a `for` runs the increment | **violated** |
| `shared_constant` | `p[s[x] - 'a']++`: each node is deleted once | **violated** |

The properties:

* `BindingsStick`, `Faithful`, `RefinesOracle`: the first access binds a value,
  no callback changes or drops it, the program and the test agree on it, the next
  test starts afresh.
* `BoundInTree`, `NoDangling`: no value and no registered symbol outlives the
  vector it was in, however fills, descents and rebuilds interleave.
* `UndefinedBelowZero`: `s[-1]` passes the bounds check and is undefined
  behaviour; nothing else in the callbacks and the filling of a model is.
* `BranchHonoured`: if the solver's values survive narrowing, the branch goes the
  way that was asked for and the precondition holds on the values generated.
* `CallbackReturns`: callbacks and gathering end.
* `HeapTracked`, `LensKnown`, `NoBadFree`, `NothingLeft`: no leak, no unknown or
  stale length, no bad free, also over exceptions.
* `Connected`, `OneTerminator`, `Simulates`: every jump kept by the passes is
  linked to its innermost loop, no block goes on behind its end, and the compiled
  function does what the source does.
* `Lexical`: a name means what a reading of the text says it means, and a program
  is refused for a name exactly when it has no definition in scope.
* `UsesReady`: no null alloca is used, although names are resolved over all
  children and code is generated over what is left of them, in another order.
* `ExpressionsTyped`: no accepted expression has a `get_type` that throws, outside
  of array lengths.
* `DeletedOnce`, `AllDeleted`: the tree is deleted as a whole and once.
* `Agree`, `Arrives`: the solver's number and the machine's are the same for every
  operand, and when they reach the variable, the branch or the result, unless an
  answer was narrowed (`c > 200` for a char), a result overflowed, or a negative
  number was divided with a remainder (`-7 / 2` is -4 for Z3 and -3 for `sdiv`).
* `WellFormed`: what the type checker accepts is well-formed for LLVM, except
  arithmetic on chars, bools and strings, bools of eight bits where one bit is
  expected (`if true`, as in `examples/indent.dg`) and the reverse, and lengths of
  new arrays, whose type nobody asks for.
* `Translatable`: an accepted condition has a term, except with strings and with
  arithmetic or an order on bools, for which `gen_expr` or Z3 throws in the middle
  of a test.
* `ContextFresh`, `UndefinedOnlyAtRoot`: `gen_expr` reads a variable, element or
  length where it is now, whatever happened since the branch was last taken. The
  exception is a condition that is one node, `if b` or `if p[i]`: the children of
  the condition are prepared and the condition itself is not, so it is read where
  it was at an earlier time, or through a null or dangling pointer.
* `DecidedOnSame`: the condition, computed after the solver has filled its model,
  is computed on the elements and values that were solved for.
* `ReadsBack`: the text is JSON and holds exactly the tests, if and only if no
  input has an empty list, no string has a character to be escaped and no two
  different values have one name. An empty list is written `]`
  (`Symbol.cpp:257`), which one of these suffices to make the whole report
  unreadable or wrong; that strings are not escaped is a TODO of the source
  (`Symbol.cpp:310`, `DGen.cpp:87`).
* `AllOrNothing`: tests are printed if all that were asked for were made, and none
  otherwise.

The violated runs are the findings of `PROJECT.json`, each a state the program
reaches: a length registered with the solver and then generated on the way to an
element is overwritten, with the elements, by the solver's; `s.len < 2` may be
solved by -1, for which `reserve` throws; `continue` goes to the condition of a
`for` loop and not to its increment; a character constant in the index of a
compound assignment is a child of both sides and is deleted twice.

### Bounds, and why they are enough

* `MCConcolic`: int of 3 bits, char of 2 bits, int64 of 4 bits, vectors of at
  most 5 elements, random strings of at most 2, solver answers
  {-1, 0, 1, 2, 5, 9}: negative, small, too large for a char, equal to the largest
  vector, and out of int64. Two elements are the least that has one sibling kept
  while another is generated; one int beside the string has an unrelated input.
* `MCNested`: two dimensions, so that a rebuilt row is inside a rebuilt array;
  more dimensions repeat the same step. Two tests, the second one starting from
  whatever the first left: a third starts from the same.
* `MCAllocTable`: two addresses, which are all in use, reused, and run out; two
  variables, so that a pointer is shared, and lengths from -1, which is refused, to
  2. There is no symmetry, which liveness would not allow; the safety properties
  are proved for any number of addresses and variables.
* `MCControlFlow`: three levels of nesting with bodies of at most two statements:
  a jump at the end, in front of the end, or in no branch, one, or both of an if,
  in and out of loops. `is_last_stmt_br` looks at the last statement and the two
  bodies of an if, so two levels of ifs in a loop reach all its cases.

* `MCSyntaxTree`: one family puts every expression of at most one operator, and a
  few deeper ones, in every place where an expression may stand; types are compared
  with those of direct operands only, so deeper ones add no case. The other nests
  all pairs of definitions, uses and compound assignments of one name, with jumps
  between them, in a body inside the outer one, before and after it: a lookup
  depends on the chain of tables, and each link is like the next. `syntax_tree` has
  no compound assignment with a constant other than a number in an index: those are
  `shared_constant`'s.
* `MCEvaluation`: an int has the six values -3..2 and a char the four -2..1, so
  that every operator overflows, a char is strictly narrower than an int, and every
  division and comparison of signs occurs; the solver's integers go beyond both. Four
  leaves are two operators side by side below a third, or a chain of three. The
  five properties are proved for all widths and lengths.
* `MCConditions`: four programs: a condition that is one variable, next to one with
  a precondition on the same variable; an element, alone and compared with the
  length of its array; an input element inside the index of another; and an input
  element indexed by a local element indexed by an input element. Two nested
  levels of indices reach every callback from every other. Three slots and two
  blocks let a variable move and leave its old address free or taken by another.
* `MCOutput`: the programs differ in the shapes of inputs and results: scalars,
  strings, arrays, arrays of arrays and of strings, two inputs of one name, an input
  with the function's name. Lengths are 0, 1 or 2 (a list is empty, has no comma, or
  has one), the number of tests is -1 to 2 (the same for the list of tests), and
  characters are of three bits, with quote, backslash, comma and line feed among
  them, each known by its number.

### Fairness

d_gen runs on one thread. Once a callback or `gather_res` is entered nothing but
its own code runs until it returns, so `WF(Callback \/ Finish)` in `Concolic` and
`WF(Finish)` in `AllocTable` say no more than that this thread goes on, and that
the solver and `malloc` return. Nothing is assumed of the program: it may loop
forever between callbacks.

## 4. Proofs

`ConcolicProofs` begins with the facts about paths, `Assign`, `Live` and `Frontier`
that the rest needs, for example that giving a value to a symbol without one
changes no other (`AssignNew`) when the binding is `Closed`.

It proves, for all inputs, depths, kinds, accesses, branches,
`Side`, `PreHolds` and solver answers: `TypeOK`, `BoundInTree`, `Faithful`,
`NoDangling`, `BranchHonoured`, `BindingsStick` and the refinement of
`TestOracle`. The hypothesis is `AllLenSafe`: no branch reads a length before an
element of the same input. It is needed: `concolic_len_first` is the
counterexample without it. None of the properties is inductive. `IInv` adds

* `ReadInv`: what is being read is on its way in the tree: the levels above `lvl`
  have a size and the indices followed are inside it;
* `GenInv`: while terms are generated, every term made so far is either a
  registered symbol, which is reachable and has no value, or a literal, whose symbol
  has one. This is where `AllLenSafe` is used: an array registered for its length
  is given a size at random if an element of it is read later;
* `FillInv`: while the model is filled, every registered symbol is reachable, what is
  still to do has no value, what is done has the model's, and the model still
  satisfies the query on the literals as they are;
* `EvalInv`: the registered symbols keep the model's values, and the literals
  theirs, until the branch is taken;
* `QuietInv`: nothing is left to fill outside the fill, there is no query between
  branches, and nothing has been destroyed.

From `IInv`, `BindingsStick` and the refinement are shown action by action: each
step of `Concolic` is `Learn`, `Emit`, `Forget` or a stutter of `TestOracle`.

`AllocTableProofs` proves `TypeOK`, `HeapTracked`, `LensKnown` and `NoBadFree` for
any addresses, literals, variables and lengths. `LensKnown` alone is not inductive:
it speaks of the program's variables, and a variable may later be loaded from an
element of an array. `IInv` adds `AllSized`, that every block on the heap has its
length in the table, whether or not a variable points at it.

`OnlyBelowZero` (`UndefinedBelowZero`) follows from `QuietInv`: the filling of a
model never meets a destroyed symbol, which leaves the index below zero.

`ControlFlowProofs` proves `Connected` and `OneTerminator` for all programs, and
`Simulates` for all but those of the finding below. `Connected` needs `LinkInv`: what `connect_loops` does not
visit comes after a break or continue, hence after a jump, and is cut.
`OneTerminator` is about the last instruction of every block, but a block is only
safe if nothing will be emitted to it any more. The invariant `IInv` says of the
pending `code_gen` calls (`StackOK`) that each stands under the one before it in
the program; of the blocks they will move the insertion point to (`BlankOK`) that
they are empty, not current, and each waited for by one call; of what is left
after `eliminate_unreachable_code` (`CutInv`) that a jump is the last statement of
its body; and that a current block which has ended implies `Closed(Call)`: the body
that is being generated has come to a jump, or ended in one as `is_last_stmt_br`
sees it. The last part is what makes `EndThen`, `EndElse` and `EndLoop` emit
their branch exactly to blocks that are open.

`FollowsTheProgram` is the correctness of the code generator: whatever is nested in
what, the compiled function does what the source does. Its hypothesis,
`ContinuesWhile`, is that no `continue` that can be come to stands in a loop with an
`inc_asg`, and nothing weaker will do: `continue_increments` is the counterexample.
`SInv` gives every block a label, what the source program does next in front of it.

* The source is read by `Come(q, n)`, what comes at place `n` of the body `q`;
  `Finished` is recursive in the statements behind and around one, and satisfies its
  equation because it ends (`FinishedEquation`).
* `BlocksSim`: from the label of a block, each of its instructions is what the source
  does next, and a branch goes to a block whose label comes then.
* `HereOK`: at the insertion point the source does what the pending calls of
  `code_gen` will generate next. This holds while the block is open only: behind a
  jump there is nothing to agree with.
* `ReachOK`: an open block that a branch goes to is current or waited for. It is what
  shows that the function never runs off a block, and it is not evident: the merge
  block of an `if` whose branches both jump is left open without a terminator
  (`CodegenVisitor.cpp:278`), and nothing must go there. `WaitOK` and `Ended` say
  when `is_last_stmt_br` promises this, for bodies that end in an `if` that ends in
  jumps as well.

When the function is called the calls are done: an open block that is gone to has
the end of the source as what comes next (`Compiled`), and the position in the
blocks keeps step with the source (`Position`).

`EvaluationProofs` proves all five properties of `Evaluation` for every width,
every set of solver answers and every length of expressions. The arithmetic is in
lemmas: two's complement of a number in range is that number, `sdiv` of numbers in
range leaves the range only for the least one by -1, and `sdiv` and Z3's division
agree unless a negative dividend leaves a remainder. `IInv` adds `Shape`, that an
operand's LLVM type is the one its type and grammar rule stand for unless an odd
use or a type error is on record, and `Reasons`, that every fault met so far has
one of the causes `WellFormed` and `Translatable` list.

`Induction` is what these and the next two rest on. A library theorem of induction has the
property as a parameter, which the provers here do not instantiate; `LeastNat`,
`Induction` and `StrongInduction` say the same of membership in a set of numbers,
and the property becomes the set of the numbers that have it. In this way the
recursive functions on nodes and rules (`Preorder`, `Reads`, `Val`, `Copies`,
`Returned`) are shown to satisfy their equations, and what they return is shown
for every tree (`NodeInduction`).

`ConditionsProofs` proves all four properties of `Conditions` for all programs,
slots, blocks, lengths and values. `ContextFresh` is about the moment the solver is
called, and the nodes were prepared one after the other before it, while indices
were drawn between them. `IInv` has

* `MemoryInv`: defined variables have different slots, a slot of an array variable
  holds a block in use, and every other one a value;
* `BranchInv`: while a branch is prepared, what its nodes name is defined, and every
  node that was visited and is not to be visited any more is `Fresh`: the context
  has what the compiled code would store in it now;
* `DecidedOnSame` itself.

`Fresh` survives the preparation of another node, because the context of a symbol
shared by two nodes is set to the same address, and it survives what is drawn and
filled, because the indices of a `Fresh` lookup want no input any more: their
value depends on inputs that are bound (`Drawn`), and binding more inputs changes
the value of no such node. The root of the condition is in no `Visits`, unless it
is a part of the precondition too: this is the exception `UndefinedOnlyAtRoot` is
about. `ContextFresh` is stated for what `gen_expr` reads (`Reads`) and `Fresh` for
what was visited (`Preorder` below the root): that the first is part of the second
is the induction over the tree.

`SyntaxTreeProofs` proves `AllDeleted` for all programs: whatever the rules, no
node is lost between the parser and `delete func`. `IInv` says that children are
created before their parents; that a node, while the visitor works, is an
argument, waits on its stack or has a parent; that afterwards only the root has
none; and that the children of a deleted node are deleted or are in `work`. If
some nodes were left at the end, the last one created among them would have a
parent that is created later, hence deleted, and its children with it.

`DeletedOnce` does not hold for all programs: `shared_constant` is the
counterexample. `WholeCopiesAreDeletedOnce` proves it under `WholeCopied`: whenever
a compound assignment is constructed, the nodes that `copy()` copies are the whole
left side, which means that it has no constant but numbers and no array creation
in an index. All programs of the run `syntax_tree` are such programs. `OnceInv`
adds to `IInv` that no node has two parents or two places under one (`OneParent`),
that what waits on the stack has none (`Waiting`), and that what is deleted or
next is the root or has a parent that is deleted (`DeletedDown`): a node met
twice would be the child of two, or its own parent would be deleted twice.

`EveryExpressionTyped` proves `ExpressionsTyped` for all programs that the grammar
allows. `type_check_visitor` asks for the types of the parts of statements and of the
indices of lookups, not for those of every expression, and `get_type` of an operator
asks its operands; the theorem says that this reaches every expression but those in
the length of an array that is created. `TypedInv` adds three parts to `IInv`.
`KindsOK`: the children of every node have the kinds of its grammar rule, also those
of the nodes that a lookup, `lhs op= rhs` and `copy()` create; it is where
`WellFormed` enters. `SymsOK`: no symbol has the type of an error, and the chain of
tables ends and leads to symbols only, so that `find_symbol` returns one or null
(`FoundFacts`). `NamesOK`: while `type_visitor` works, a name without a symbol is
below a node in `work`; so no name is without one when `type_check` starts, and no
node is badly typed behind it. Then a constant, a created array or a name is typed
by itself, and any other expression by its parent (`Places`, `TypedBelow`): from the
root downwards, a parent either was asked for its type, and had one, or is looked at
by `type_check_visitor`.

`ScopeProofs` proves `Lexical` and `UsesReady` for all programs that the grammar
allows. Both relate passes that walk the tree with a stack and tables to `Visible`,
a reading of the whole tree. The first part, `TreesOK`, is about the tree alone: the
parts of a block follow each other in the order in which nodes were created
(`KidsOrder`), and a statement has one parent and nothing below it is shared with
the outside (`OwnTree`). The second part is needed, and is no more than what holds:
below one statement a node may have two parents, as `shared_constant` shows.

`EveryNameLexical` says what a table holds while `type_visitor` works. `OrderInv`:
what is in `work` stands in the order of the text, inner tables before outer ones;
the definitions that were visited are in front of all that are left, and any other
that an entry of `work` can see is visited before it. `MeansInv`: `find_symbol`
in the table of a node that is next returns, for every name, the last definition
that stands in front of the node (`Meaning`). A definition that is added
changes its own table only, and stands in front of just those entries of `work` that
are to be visited with it (`Shared`); the definitions of a body that is left stand in
front of nothing that follows. So a name gets the symbol of the last definition in its scope when it is
visited, and `LexOK` keeps this: a later definition stands behind the name.

`EveryUseReady` is about `CodegenVisitor`. `CutOK`: what a body keeps of its
statements is a beginning of its children. `ReadyInv`: for a name that is below
something in `work`, the symbol is an input's, or has its alloca, or is that of a
definition that comes first in `work`, or the definition stands in front of the name
in a body below the same entry (`Inside`). The order of code generation
differs from that of the text only between the parts of an `if` or `for`
(`prepare_eval_ctx` takes the precondition and the operands of the condition
before the condition, and `inc_asg` comes behind the body or not at all), and none of
these parts has a definition that the others see; in a body it is the order of the children, so that a definition comes
before the statements behind it (`BodyVisits`), and what is cut off takes only uses
behind it along. That no input is assigned to is `type_check`'s
(`AssignsInput`).

Only model-checked:

* everything under fairness (`CallbackReturns`, `NothingLeft`), which the prover
  does not do;
* `Output` (`TypeOK`, `ReadsBack`, `AllOrNothing`): the text and its reader are
  RECURSIVE operators, for which the prover has no SMT backend.

## 5. Not modelled

* The grammar is ANTLR's work, and so are the null pointers its parse tree has for
  parts that are left out (`ASTBuilderVisitor.cpp:134`); the JIT and the
  optimization passes are LLVM's. `SyntaxTree` starts from the rules that were
  recognised, `ControlFlow` ends with the blocks that were generated.
* What `BuildError` and `Position` carry, the dumps of the syntax tree (`print`) and
  the build files: data and wording without a decision.
* The sizes of the stack and of blocks in bytes: `len * sizeof` in 32 bits
  (`CodegenVisitor.cpp:234`) and the allocas of indices in a loop
  (`Symbol.cpp:221`) have an effect only through a layout that is the machine's.
* Probabilities: `prob = 0` still asks for the condition once in a hundred
  (`CodegenZ3Visitor.cpp:156`); the model allows both.
* The names of the solver's constants (`CodegenZ3Visitor.cpp:236`): two unknowns with
  one name share a value. That leaves out models and makes no wrong one.

Known from reading: when both branches of the last `if` return, its merge block is
left without a terminator (`CodegenVisitor.cpp:278`). `OneTerminator` asks for at
most one, and by `Simulates` it is never run; what LLVM's passes make of it is
LLVM's.

## 6. Plan

All modules of the plan are written: `SymbolTree`, `TestOracle`, `Concolic`,
`AllocTable`, `Evaluation`, `Conditions`, `ControlFlow` and `SyntaxTree` (checked and
proved) and `Output` (checked). What could be added, in this order:

1. `Conditions` composed with `Concolic`: a read of `Concolic` carries the indices of
   the moment, `Conditions` says when `current_idxs` has them. `ContextFresh` is the
   interface between the two.
2. Several calls of `generate_json` on one `DGen`: `AllocTable` has them for the
   table of allocations, `Output` for none.
