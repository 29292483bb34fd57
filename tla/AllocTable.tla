----------------------------- MODULE AllocTable -----------------------------
(***************************************************************************)
(* Symbol::allocated_vals: the process-wide table of the arrays that the   *)
(* compiled program holds pointers to (Symbol.h:30-34).  A pointer carries *)
(* no length: get_property, the solver's terms and gather_rec find it in   *)
(* the table, and reset frees what the table says was allocated.           *)
(*                                                                         *)
(* The program is the most general one with the array variables Locals,    *)
(* kept in bounds: it creates arrays, evaluates string literals, copies    *)
(* inputs, copies pointers between variables and elements, asks for        *)
(* lengths, returns, or throws.  What was never assigned is Garbage: using *)
(* it as a pointer gives any address.  malloc always finds room.           *)
(***************************************************************************)
EXTENDS Integers, FiniteSets

CONSTANTS Addrs,     \* what malloc may return
          Literals,  \* the string constants of the module
          LitLen,    \* their strlen
          Locals,    \* the array variables of the function
          Lens,      \* the lengths arrays are created with, negative ones too
          Garbage    \* an uninitialized variable or element

ASSUME AllocAssumption ==
  /\ Addrs \cap Literals = {}
  /\ Garbage \notin Addrs \cup Literals
  /\ LitLen \in [Literals -> Nat]
  /\ Lens \subseteq Int

VARIABLES pc,      \* run, gather, reset, or failed: an exception has left the test
          blocks,  \* the malloc'ed blocks: the pointers (or data) of their elements
          table,   \* allocated_vals
          locals,  \* the pointers the variables hold
          work     \* gather_rec's calls to come: pointers, and dimensions below

vars == <<pc, blocks, table, locals, work>>

Pointers == Addrs \cup Literals
Values == Pointers \cup {Garbage}

\* What the pointer stored as x may be.
Deref(x) == IF x = Garbage THEN Pointers ELSE {x}

\* allocated_vals[p].size, and allocated_vals after it: operator[] inserts a
\* zero-initialized entry for a pointer it does not know.
Lookup(t, p) == IF p \in DOMAIN t THEN t[p].size ELSE 0
Touch(t, p) ==
  [q \in DOMAIN t \cup {p} |-> IF q \in DOMAIN t THEN t[q] ELSE [is_alloc |-> 0, size |-> 0]]

\* allocated_vals[p] = {a, n}
Record(t, p, a, n) ==
  [q \in DOMAIN t \cup {p} |-> IF q = p THEN [is_alloc |-> a, size |-> n] ELSE t[q]]

Free == Addrs \ DOMAIN blocks
WithBlock(p, elems) == [q \in DOMAIN blocks \cup {p} |-> IF q = p THEN elems ELSE blocks[q]]
Unset(n) == [i \in 0 .. n - 1 |-> Garbage]

Init ==
  /\ pc = "run" /\ blocks = <<>> /\ table = <<>> /\ work = {}
  /\ locals = [v \in Locals |-> Garbage]

\* Mutant of CreateArr: a negative length is not refused.
CreateArrUnchecked(v, len) ==
  /\ pc = "run"
  /\ \E p \in Free :
       /\ blocks' = WithBlock(p, Unset(len))
       /\ table' = Record(table, p, 1, len)
       /\ locals' = [locals EXCEPT ![v] = p]
  /\ UNCHANGED <<pc, work>>

\* Mutant of CreateArr: the new block is not entered in the table.
CreateArrUnrecorded(v, len) ==
  /\ pc = "run" /\ len >= 0
  /\ \E p \in Free :
       /\ blocks' = WithBlock(p, Unset(len))
       /\ locals' = [locals EXCEPT ![v] = p]
  /\ UNCHANGED <<pc, table, work>>

\* v = T[len]: create_arr throws for a negative length.
CreateArr(v, len) ==
  /\ pc = "run"
  /\ IF len < 0
     THEN pc' = "failed" /\ UNCHANGED <<blocks, table, locals>>
     ELSE \E p \in Free :
            /\ blocks' = WithBlock(p, Unset(len))
            /\ table' = Record(table, p, 1, len)
            /\ locals' = [locals EXCEPT ![v] = p]
            /\ UNCHANGED pc
  /\ UNCHANGED work

\* Mutant of EvalLiteral: the length of the literal is not entered.
EvalLiteralUnrecorded(v, l) ==
  /\ pc = "run"
  /\ locals' = [locals EXCEPT ![v] = l]
  /\ UNCHANGED <<pc, blocks, table, work>>

\* v = "...": set_global_ptr_size records the literal, each time it is evaluated.
EvalLiteral(v, l) ==
  /\ pc = "run"
  /\ table' = Record(table, l, 0, LitLen[l])
  /\ locals' = [locals EXCEPT ![v] = l]
  /\ UNCHANGED <<pc, blocks, work>>

\* v = in, for an input array of arrays: arr_rand_gen copies it, row by row,
\* to new blocks.  A row of n elements is as long as the caller likes.
CopyInput(v, rows, n) ==
  /\ pc = "run" /\ rows >= 0 /\ n >= 0
  /\ \E p \in Free : \E at \in [0 .. rows - 1 -> Free \ {p}] :
       LET new == {at[i] : i \in 0 .. rows - 1}
       IN  /\ \A i, j \in 0 .. rows - 1 : at[i] = at[j] => i = j
           /\ blocks' = [q \in DOMAIN blocks \cup {p} \cup new |->
                           IF q = p THEN at ELSE IF q \in new THEN Unset(n) ELSE blocks[q]]
           /\ table' = [q \in DOMAIN table \cup {p} \cup new |->
                          IF q = p THEN [is_alloc |-> 1, size |-> rows]
                          ELSE IF q \in new THEN [is_alloc |-> 1, size |-> n]
                          ELSE table[q]]
           /\ locals' = [locals EXCEPT ![v] = p]
  /\ UNCHANGED <<pc, work>>

\* v = w
Copy(v, w) ==
  /\ pc = "run"
  /\ locals' = [locals EXCEPT ![v] = locals[w]]
  /\ UNCHANGED <<pc, blocks, table, work>>

\* v[i] = w, in bounds: the store is not checked by the compiled program.
Store(v, i, w) ==
  /\ pc = "run" /\ locals[v] \in DOMAIN blocks /\ i \in DOMAIN blocks[locals[v]]
  /\ blocks' = [blocks EXCEPT ![locals[v]][i] = locals[w]]
  /\ UNCHANGED <<pc, table, locals, work>>

\* v = w[i], in bounds.
Load(v, w, i) ==
  /\ pc = "run" /\ locals[w] \in DOMAIN blocks /\ i \in DOMAIN blocks[locals[w]]
  /\ locals' = [locals EXCEPT ![v] = blocks[locals[w]][i]]
  /\ UNCHANGED <<pc, blocks, table, work>>

\* v.len: get_property, or the solver's term for it.
GetProperty(v) ==
  /\ pc = "run"
  /\ \E p \in Deref(locals[v]) : table' = Touch(table, p)
  /\ UNCHANGED <<pc, blocks, locals, work>>

\* return v, an array with dims dimensions: gather_res is called.
Return(v, dims) ==
  /\ pc = "run"
  /\ \E p \in Deref(locals[v]) : work' = {<<p, dims>>}
  /\ pc' = "gather"
  /\ UNCHANGED <<blocks, table, locals>>

\* One call of gather_rec: as many elements are read as the table says, and
\* each of them is a pointer for the next call if dimensions are left.
Gather(p, dims) ==
  /\ pc = "gather" /\ <<p, dims>> \in work
  /\ table' = Touch(table, p)
  /\ LET n == IF p \in DOMAIN blocks /\ dims > 1 THEN Lookup(table, p) ELSE 0
     IN  \E next \in [0 .. n - 1 -> Pointers] :
           /\ \A i \in 0 .. n - 1 : next[i] \in Deref(blocks[p][i])
           /\ work' = (work \ {<<p, dims>>}) \cup {<<next[i], dims - 1>> : i \in 0 .. n - 1}
  /\ UNCHANGED <<pc, blocks, locals>>

GatherDone ==
  /\ pc = "gather" /\ work = {}
  /\ pc' = "reset"
  /\ UNCHANGED <<blocks, table, locals, work>>

\* Any other exception: an index or a solver value out of range.
Throw ==
  /\ pc = "run"
  /\ pc' = "failed"
  /\ UNCHANGED <<blocks, table, locals, work>>

\* Mutant of Reset: the table is not emptied.
ResetKeepsTable ==
  /\ pc = "reset"
  /\ LET freed == {p \in DOMAIN table : table[p].is_alloc = 1}
     IN  /\ pc' = IF freed \subseteq DOMAIN blocks THEN "run" ELSE "undefined"
         /\ blocks' = [q \in DOMAIN blocks \ freed |-> blocks[q]]
  /\ locals' = [v \in Locals |-> Garbage]
  /\ UNCHANGED <<table, work>>

\* Mutant of Reset: the table is emptied, and nothing freed.
ResetWithoutFree ==
  /\ pc = "reset"
  /\ pc' = "run" /\ table' = <<>>
  /\ locals' = [v \in Locals |-> Garbage]
  /\ UNCHANGED <<blocks, work>>

\* DGen::reset frees what is marked as allocated, and empties the table.
\* Freeing what is no block is undefined.
Reset ==
  /\ pc = "reset"
  /\ LET freed == {p \in DOMAIN table : table[p].is_alloc = 1}
     IN  /\ pc' = IF freed \subseteq DOMAIN blocks THEN "run" ELSE "undefined"
         /\ blocks' = [q \in DOMAIN blocks \ freed |-> blocks[q]]
  /\ table' = <<>>
  /\ locals' = [v \in Locals |-> Garbage]
  /\ UNCHANGED work

\* The caller of the library catches the exception and generates again: the
\* table is static and still has the entries of the test that was left.
Again ==
  /\ pc = "failed"
  /\ pc' = "run"
  /\ locals' = [v \in Locals |-> Garbage]
  /\ UNCHANGED <<blocks, table, work>>

Program ==
  \/ \E v \in Locals, n \in Lens : CreateArr(v, n)
  \/ \E v \in Locals, l \in Literals : EvalLiteral(v, l)
  \/ \E v \in Locals, rows, n \in Lens : CopyInput(v, rows, n)
  \/ \E v, w \in Locals : Copy(v, w)
  \/ \E v, w \in Locals, i \in Lens : Store(v, i, w)
  \/ \E v, w \in Locals, i \in Lens : Load(v, w, i)
  \/ \E v \in Locals : GetProperty(v)
  \/ \E v \in Locals, dims \in 1 .. 2 : Return(v, dims)
  \/ Throw

Finish == (\E c \in work : Gather(c[1], c[2])) \/ GatherDone \/ Reset

Next == Program \/ Finish \/ Again

Spec == Init /\ [][Next]_vars

\* Once gather_res is called, nothing but d_gen's own code runs until reset.
FairSpec == Spec /\ WF_vars(Finish)

-----------------------------------------------------------------------------
\* The state the variables range over.
TypeOK ==
  /\ pc \in {"run", "gather", "reset", "failed", "undefined"}
  /\ DOMAIN blocks \subseteq Addrs
  /\ \A p \in DOMAIN blocks : \A i \in DOMAIN blocks[p] : blocks[p][i] \in Values
  /\ DOMAIN table \subseteq Pointers
  /\ \A p \in DOMAIN table : table[p] \in [is_alloc : {0, 1}, size : Nat]
  /\ locals \in [Locals -> Values]
  /\ work \subseteq Pointers \X Int

\* The pointers whose number of elements is in the table.
Known ==
  {p \in DOMAIN table :
     /\ p \in Literals => table[p].size = LitLen[p]
     /\ p \notin Literals => p \in DOMAIN blocks /\ DOMAIN blocks[p] = 0 .. table[p].size - 1}

\* The entries marked as allocated are the blocks that are not freed yet: reset
\* frees each of them, once, and nothing else, also after an exception has
\* skipped it (create_arr, arr_rand_gen, DGen::reset).
HeapTracked == {p \in DOMAIN table : table[p].is_alloc = 1} = DOMAIN blocks

\* Every pointer the program was handed, wherever it has copied it, has the
\* number of its elements in the table: neither get_property nor gather_rec
\* takes an array for an unknown one of length 0, or reads past its end.
LensKnown ==
  /\ \A v \in Locals : locals[v] # Garbage => locals[v] \in Known
  /\ \A p \in DOMAIN blocks : \A i \in DOMAIN blocks[p] :
       blocks[p][i] # Garbage => blocks[p][i] \in Known

\* DGen::reset never frees twice, nor what malloc did not return.
NoBadFree == pc # "undefined"

\* A test that is gathered leaves no array behind (gather_res, then reset).
NothingLeft == pc = "gather" ~> blocks = <<>>
=============================================================================
