------------------------------ MODULE Concolic ------------------------------
(***************************************************************************)
(* Generating tests: the compiled program runs NumTests times              *)
(* (DGen.cpp: generate_json) and calls back into d_gen whenever it reads   *)
(* an input or reaches a branch with a precondition.  The program itself   *)
(* is the most general one: between callbacks it may do any access of      *)
(* Accesses, take any branch of Conds, or return.                          *)
(*                                                                         *)
(* A read is [how, sym]: the value of a symbol ("val") or the length of an *)
(* input array ("len").  A branch is [id, reads, ncond, prob]: the reads   *)
(* of its condition, then those of the precondition's expression, in the   *)
(* order gen_expr visits them; a read stands below the condition's root    *)
(* operator, its indices being those the program has just computed.  What  *)
(* the condition and the precondition compute from the values read (and    *)
(* from constants and local variables) is given by Side and PreHolds.      *)
(***************************************************************************)
EXTENDS SymbolTree

CONSTANTS Accesses,        \* the reads the program does outside its branches
          Conds,           \* the branches that have a precondition
          Side(_, _),      \* Side(c, vals): the side of c taken on vals
          PreHolds(_, _),  \* PreHolds(c, vals): the expression of its precondition
          SolverInts,      \* the integers the solver may answer with
          Half64,          \* 2^63, the bound of get_numeral_int64
          MaxLen,          \* the longest vector that can be reserved
          NumTests         \* the number of tests asked for

Reads == [how : {"val", "len"}, sym : Sym]

\* A length is asked of an input only, never of an element (d_gen.g4).
WellFormed(r) == r.how = "len" => r.sym = Root(r.sym.in) /\ IsArray(r.sym)

ASSUME ConcolicAssumption ==
  /\ \A r \in Accesses : r \in Reads /\ WellFormed(r) /\ Len(r.sym.path) <= Depth[r.sym.in]
  /\ \A c \in Conds :
       /\ c.reads \in Seq(Reads)
       /\ c.ncond \in 0 .. Len(c.reads)
       /\ c.prob \in -1 .. 100
       /\ \A j \in 1 .. Len(c.reads) :
            WellFormed(c.reads[j]) /\ Len(c.reads[j].sym.path) <= Depth[c.reads[j].sym.in]
  /\ SolverInts \subseteq Int
  /\ Half64 \in Nat
  /\ MaxLen \in Nat
  /\ NumTests \in Nat \ {0}

VARIABLES pc,        \* what is running: the program or a callback
          binding,   \* the values of the symbols
          seen,      \* history: the <<symbol, value>> pairs the program was given
          tests,     \* DGen::tests, the input part of each
          cond,      \* the branch, or access, in progress
          pos,       \* its next read
          lvl,       \* how many indices of that read are followed
          symbolic,  \* the reads that became constants of the solver's problem
          model,     \* the solver's value for each of their symbols
          todo,      \* the symbols of syms_to_expr_id that are not filled yet
          dead,      \* the symbols of syms_to_expr_id that are destroyed
          goal       \* the side the model was asked for

tree == <<binding, seen, tests>>
query == <<symbolic, model, todo, dead, goal>>
vars == <<pc, tree, cond, pos, lvl, query>>

-----------------------------------------------------------------------------
AsCond(r) == [id |-> "access", reads |-> <<r>>, ncond |-> 1, prob |-> -1]
NoCond == [id |-> "none", reads |-> <<>>, ncond |-> 0, prob |-> -1]

Last == IF pc = "gen" THEN Len(cond.reads) ELSE cond.ncond
Read == cond.reads[pos]
Reading == pc \in {"gen", "eval"} /\ pos <= Last
\* The symbol to read is reached.
Arrived == Read.how = "len" \/ lvl = Len(Read.sym.path)

Registered == {cond.reads[j].sym : j \in symbolic}

\* The values of a branch's reads under a model m, and in the tree.
TermVals(m) ==
  [j \in 1 .. Len(cond.reads) |->
     LET s == cond.reads[j].sym IN IF j \in symbolic THEN m[s] ELSE binding[s]]
ReadVals == [j \in 1 .. Len(cond.reads) |-> binding[cond.reads[j].sym]]

\* r in 0 .. 99 negates the condition when r > prob; prob is -1 when it is
\* not given, and the condition is then never negated.
Goals(prob) ==
  IF prob = -1 THEN {"then"}
  ELSE {IF r > prob THEN "else" ELSE "then" : r \in 0 .. 99}

SolverVals(s) ==
  IF ~IsArray(s) /\ Kind[s.in] = "bool" THEN {0, 1} ELSE SolverInts

IsInt64(z) == -Half64 <= z /\ z < Half64

\* The symbols the JIT's read of r generates next.
Needed(r) == IF r.how = "len" THEN {r.sym} \ DOMAIN binding
             ELSE Frontier(binding, r.sym)

\* The symbols whose values that read hands to the program.
Given(r) == {s \in DOMAIN binding : s = r.sym \/ (r.how = "val" /\ Below(s, r.sym))}

-----------------------------------------------------------------------------
NoQuery == symbolic = {} /\ model = NoBinding /\ todo = {} /\ dead = {} /\ goal = "none"

Init ==
  /\ pc = "run" /\ binding = NoBinding /\ seen = {} /\ tests = <<>>
  /\ cond = NoCond /\ pos = 1 /\ lvl = 0 /\ NoQuery

\* The program reads an input outside the branches: num_rand_gen and its
\* likes, arr_rand_gen, get_val_arr or get_property is called.
Access(r) ==
  /\ pc = "run"
  /\ pc' = "eval" /\ cond' = AsCond(r)
  /\ UNCHANGED <<tree, pos, lvl, query>>

\* The program comes to a branch that has a precondition: z3_gen is called.
Branch(c) ==
  /\ pc = "run"
  /\ pc' = "gen" /\ cond' = c
  /\ UNCHANGED <<tree, pos, lvl, query>>

\* Mutant of Descend: the index may equal the size ("idxs[i] > arr_size").
DescendOffByOne ==
  /\ Reading /\ ~Arrived
  /\ LET a == Up(Read.sym, lvl)
         idx == Read.sym.path[lvl + 1]
     IN  \E n \in IF a \in DOMAIN binding THEN {binding[a]} ELSE RandLens :
           /\ binding' = IF a \in DOMAIN binding THEN binding ELSE Assign(binding, a, n)
           /\ pc' = IF idx > n THEN "failed" ELSE IF idx < 0 THEN "undefined" ELSE pc
  /\ lvl' = lvl + 1
  /\ UNCHANGED <<seen, tests, cond, pos, query>>

\* One turn of get_symbol_by_idxs: the size of the array is generated if it
\* has none, and the index compared with it.
Descend ==
  /\ Reading /\ ~Arrived
  /\ LET a == Up(Read.sym, lvl)
         idx == Read.sym.path[lvl + 1]
     IN  \E n \in IF a \in DOMAIN binding THEN {binding[a]} ELSE RandLens :
           /\ binding' = IF a \in DOMAIN binding THEN binding ELSE Assign(binding, a, n)
           /\ pc' = IF idx >= n THEN "failed" ELSE IF idx < 0 THEN "undefined" ELSE pc
  /\ lvl' = lvl + 1
  /\ UNCHANGED <<seen, tests, cond, pos, query>>

\* Mutant of GenRead: a symbol is registered whether it has a value or not.
GenReadAlways ==
  /\ pc = "gen" /\ Reading /\ Arrived
  /\ Read.how = "len" \/ ~IsArray(Read.sym)
  /\ symbolic' = symbolic \cup {pos}
  /\ pos' = pos + 1 /\ lvl' = 0
  /\ UNCHANGED <<pc, tree, cond, model, todo, dead, goal>>

\* A read becomes a term: a literal if the symbol has a value, else a constant
\* of the solver, registered to be filled.  A whole array has no term.
GenRead ==
  /\ pc = "gen" /\ Reading /\ Arrived
  /\ IF Read.how = "val" /\ IsArray(Read.sym)
     THEN pc' = "failed" /\ UNCHANGED <<pos, lvl, symbolic>>
     ELSE /\ symbolic' = IF Read.sym \in DOMAIN binding THEN symbolic
                         ELSE symbolic \cup {pos}
          /\ pos' = pos + 1 /\ lvl' = 0
          /\ UNCHANGED pc
  /\ UNCHANGED <<tree, cond, model, todo, dead, goal>>

\* Mutant of SolverSat: the precondition's expression is not added.
SolverIgnoresPrecond ==
  /\ pc = "gen" /\ ~Reading /\ symbolic # {}
  /\ \E g \in Goals(cond.prob), m \in [Registered -> SolverInts \cup {0, 1}] :
       /\ \A s \in Registered : m[s] \in SolverVals(s)
       /\ Side(cond, TermVals(m)) = g
       /\ model' = m /\ goal' = g
  /\ todo' = Registered
  /\ pc' = "fill"
  /\ UNCHANGED <<tree, cond, pos, lvl, symbolic, dead>>

\* The solver finds values for the registered symbols that satisfy the
\* condition, or its negation, and the precondition.
SolverSat ==
  /\ pc = "gen" /\ ~Reading /\ symbolic # {}
  /\ \E g \in Goals(cond.prob), m \in [Registered -> SolverInts \cup {0, 1}] :
       /\ \A s \in Registered : m[s] \in SolverVals(s)
       /\ Side(cond, TermVals(m)) = g /\ PreHolds(cond, TermVals(m))
       /\ model' = m /\ goal' = g
  /\ todo' = Registered
  /\ pc' = "fill"
  /\ UNCHANGED <<tree, cond, pos, lvl, symbolic, dead>>

\* Mutant of SolverGivesUp: an unsatisfiable problem is not given up.
SolverInsists ==
  /\ pc = "gen" /\ ~Reading /\ symbolic = {}
  /\ pc' = "eval" /\ pos' = 1
  /\ UNCHANGED <<tree, cond, lvl, query>>

\* Nothing to solve, or no answer: the branch goes where random values lead.
SolverGivesUp ==
  /\ pc = "gen" /\ ~Reading
  /\ pc' = "eval" /\ pos' = 1
  /\ UNCHANGED <<tree, cond, lvl, query>>

\* fill_val of one registered symbol, in the order of an unordered_map.  It is
\* a call on a destroyed object if an earlier one emptied the vector that held
\* it; it throws if the value is no int64, or no size a vector can have (which
\* ends the generation: what the tree then holds is not used again).
Fill(s) ==
  /\ pc = "fill" /\ s \in todo
  /\ todo' = todo \ {s}
  /\ LET v == Wrap(s, model[s])
         fits == ~IsArray(s) \/ v \in 0 .. MaxLen
     IN  /\ pc' = IF s \in dead THEN "undefined"
                  ELSE IF IsInt64(model[s]) /\ fits THEN "fill" ELSE "failed"
         /\ binding' = IF s \in dead \/ ~IsInt64(model[s]) THEN binding
                       ELSE Assign(binding, s, v)
         /\ dead' = IF s \notin dead /\ IsArray(s) /\ IsInt64(model[s]) /\ fits
                    THEN dead \cup {t \in Registered : Below(t, s)} ELSE dead
  /\ UNCHANGED <<seen, tests, cond, pos, lvl, symbolic, model, goal>>

FillDone ==
  /\ pc = "fill" /\ todo = {}
  /\ pc' = "eval" /\ pos' = 1
  /\ UNCHANGED <<tree, cond, lvl, query>>

\* Mutant of Generate: has_value is not asked, each access draws a new value.
GenerateAgain ==
  /\ pc = "eval" /\ Reading /\ Arrived
  /\ \E s \in Needed(Read) \cup {Read.sym} : \E v \in RandOf(s) :
       binding' = Assign(binding, s, v)
  /\ UNCHANGED <<pc, seen, tests, cond, pos, lvl, query>>

\* The callback of a read generates what still has no value, symbol by symbol.
Generate ==
  /\ pc = "eval" /\ Reading /\ Arrived
  /\ \E s \in Needed(Read) : \E v \in RandOf(s) : binding' = Assign(binding, s, v)
  /\ UNCHANGED <<pc, seen, tests, cond, pos, lvl, query>>

\* The callback returns: the program has seen the values.
Observe ==
  /\ pc = "eval" /\ Reading /\ Arrived /\ Needed(Read) = {}
  /\ seen' = seen \cup {<<s, binding[s]>> : s \in Given(Read)}
  /\ pos' = pos + 1 /\ lvl' = 0
  /\ UNCHANGED <<pc, binding, tests, cond, query>>

\* Mutant of Resume: the symbols registered for the branch stay registered.
ResumeKeepsQuery ==
  /\ pc = "eval" /\ ~Reading
  /\ pc' = "run" /\ cond' = NoCond /\ pos' = 1
  /\ UNCHANGED <<tree, lvl, query>>

\* All values of the condition are there: the program goes on.
Resume ==
  /\ pc = "eval" /\ ~Reading
  /\ pc' = "run" /\ cond' = NoCond /\ pos' = 1
  /\ symbolic' = {} /\ model' = NoBinding /\ todo' = {} /\ dead' = {} /\ goal' = "none"
  /\ UNCHANGED <<tree, lvl>>

\* The program returns: gather_res serializes the inputs ...
Return ==
  /\ pc = "run"
  /\ pc' = "gather"
  /\ UNCHANGED <<tree, cond, pos, lvl, query>>

\* ... generating the symbols it never read ...
Serialize ==
  /\ pc = "gather"
  /\ \E i \in Inputs : \E s \in Frontier(binding, Root(i)) : \E v \in RandOf(s) :
       binding' = Assign(binding, s, v)
  /\ UNCHANGED <<pc, seen, tests, cond, pos, lvl, query>>

\* Mutant of Emit: the inputs are written as they are, nothing is forced.
EmitUnforced ==
  /\ pc = "gather"
  /\ tests' = Append(tests, binding)
  /\ pc' = "reset"
  /\ UNCHANGED <<binding, seen, cond, pos, lvl, query>>

\* ... and adds the test.
Emit ==
  /\ pc = "gather" /\ Complete(binding)
  /\ tests' = Append(tests, binding)
  /\ pc' = "reset"
  /\ UNCHANGED <<binding, seen, cond, pos, lvl, query>>

\* Mutant of Reset: arrays keep their size and elements.
ResetScalarsOnly ==
  /\ pc = "reset"
  /\ binding' = [s \in {t \in DOMAIN binding : Depth[t.in] > 0} |-> binding[s]]
  /\ seen' = {}
  /\ pc' = IF Len(tests) < NumTests THEN "run" ELSE "done"
  /\ UNCHANGED <<tests, cond, pos, lvl, query>>

\* DGen::reset: reset_val of every input.
Reset ==
  /\ pc = "reset"
  /\ binding' = NoBinding /\ seen' = {}
  /\ pc' = IF Len(tests) < NumTests THEN "run" ELSE "done"
  /\ UNCHANGED <<tests, cond, pos, lvl, query>>

\* generate_json has returned, or thrown, or the behaviour is undefined.
Stopped == pc \in {"done", "failed", "undefined"}
Stutter == Stopped /\ UNCHANGED vars

Callback ==
  \/ Descend \/ GenRead \/ SolverSat \/ SolverGivesUp
  \/ \E s \in todo : Fill(s)
  \/ FillDone \/ Generate \/ Observe \/ Resume

Finish == Serialize \/ Emit \/ Reset

Next ==
  \/ \E r \in Accesses : Access(r)
  \/ \E c \in Conds : Branch(c)
  \/ Callback \/ Return \/ Finish \/ Stutter

Spec == Init /\ [][Next]_vars

\* One thread runs everything: a callback or a gather that has begun goes on.
FairSpec == Spec /\ WF_vars(Callback \/ Finish)

-----------------------------------------------------------------------------
\* The state the variables range over.
TypeOK ==
  /\ pc \in {"run", "gen", "fill", "eval", "gather", "reset", "done", "failed", "undefined"}
  /\ IsBinding(binding)
  /\ seen \subseteq Sym \X Int
  /\ tests \in Seq({tests[k] : k \in DOMAIN tests})
  /\ \A k \in DOMAIN tests : IsBinding(tests[k])
  /\ cond \in Conds \cup {NoCond} \cup {AsCond(r) : r \in Accesses}
  /\ pos \in 1 .. Len(cond.reads) + 1
  /\ lvl \in Nat
  /\ symbolic \subseteq 1 .. Len(cond.reads)
  /\ model \in [DOMAIN model -> Int]
  /\ todo \subseteq Registered
  /\ dead \subseteq Registered
  /\ goal \in {"none", "then", "else"}

\* The lengths a branch reads come after the elements it reads of the same
\* input: by then the size of the array is a literal.
LenSafe(c) ==
  \A j, k \in 1 .. Len(c.reads) :
    ~ (/\ j < k /\ c.reads[j].how = "len" /\ c.reads[k].how = "val"
       /\ c.reads[j].sym.in = c.reads[k].sym.in)

AllLenSafe == \A c \in Conds : LenSafe(c)

\* A symbol that has a value is an object of the tree: no value survives in a
\* vector that init_arr has emptied or that was never as long (Symbol.cpp
\* init_arr, get_symbol_by_idxs).
BoundInTree == Closed(binding)

\* What the program was given for an input is what the symbol still holds, so
\* it is what the test says of that input (the value callbacks, fill_val and
\* serialize work on the same symbols).
Faithful == \A o \in seen : o[1] \in DOMAIN binding /\ binding[o[1]] = o[2]

\* A symbol is given a value once: until reset, no callback changes or drops
\* it ("every first access to an input variable triggers a newly generated
\* value being bound to it", README.md:3).
BindingsStick == [][pc # "reset" => Extends(binding', binding)]_vars

\* fill_val is never called on a symbol that the fill of an array destroyed.
NoDangling == todo \cap dead = {}

\* The only way to undefined behaviour is an index below zero, which nothing
\* compares with (Symbol.cpp get_symbol_by_idxs): no callback works on a symbol
\* that is gone.
UndefinedBelowZero ==
  pc = "undefined" => lvl > 0 /\ Read.sym.path[lvl] < 0

\* The model's values survive the narrowing of fill_val.
ModelFits == \A s \in Registered : model[s] = Wrap(s, model[s])

\* After the solver has found values that fit, the condition evaluates to the
\* side it was asked for, and the precondition holds, on the values the symbols
\* have: nothing generated on the way to the values disturbs them.
BranchHonoured ==
  (pc = "eval" /\ goal # "none" /\ ModelFits) =>
     Side(cond, ReadVals) = goal /\ PreHolds(cond, ReadVals)

\* A callback, and a test's gathering, come to an end.
CallbackReturns ==
  pc \in {"gen", "fill", "eval", "gather", "reset"} ~> (pc = "run" \/ Stopped)

\* Seen from outside, the values and tests are those of TestOracle.
Oracle == INSTANCE TestOracle WITH known <- binding, emitted <- (pc = "reset")
RefinesOracle == Oracle!Spec
=============================================================================
