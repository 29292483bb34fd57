-------------------------- MODULE AllocTableProofs --------------------------
(***************************************************************************)
(* Proofs about AllocTable, for every program, heap and set of literals.   *)
(*                                                                         *)
(* HeapTracked is inductive with types; LensKnown needs that the entry of  *)
(* every block, whether or not a variable points to it, has its length     *)
(* (AllSized), because an element may be loaded later.                     *)
(***************************************************************************)
EXTENDS AllocTable, TLAPS

AllSized == DOMAIN blocks \subseteq Known

IInv == TypeOK /\ HeapTracked /\ AllSized /\ LensKnown /\ NoBadFree

\* Steps that leave the pointers of the program alone and forget no length.
LEMMA KeepSized ==
  ASSUME IInv, Known \subseteq Known',
         UNCHANGED <<blocks, locals>>
  PROVE  AllSized' /\ LensKnown'
<1>1. DOMAIN blocks \subseteq Pointers
  BY DEF IInv, TypeOK, Pointers
<1>2. \A v \in Locals : locals[v] # Garbage => locals[v] \in Pointers
  BY DEF IInv, TypeOK, Values
<1>3. \A p \in DOMAIN blocks : \A i \in DOMAIN blocks[p] :
        blocks[p][i] # Garbage => blocks[p][i] \in Pointers
  BY DEF IInv, TypeOK, Values
<1> QED
  BY <1>1, <1>2, <1>3 DEF IInv, AllSized, LensKnown

\* An entry for a pointer that was not known changes no other.
LEMMA TouchKeeps ==
  ASSUME IInv, NEW p \in Pointers, table' = Touch(table, p), UNCHANGED blocks
  PROVE  /\ Known \subseteq Known'
         /\ HeapTracked'
         /\ DOMAIN table' \subseteq Pointers
         /\ \A q \in DOMAIN table' : table'[q] \in [is_alloc : {0, 1}, size : Nat]
<1>1. /\ DOMAIN table' = DOMAIN table \cup {p}
      /\ \A q \in DOMAIN table : table'[q] = table[q]
      /\ p \notin DOMAIN table => table'[p] = [is_alloc |-> 0, size |-> 0]
  BY DEF Touch
<1>2. Known \subseteq Known'
  BY <1>1 DEF Known
<1>3. HeapTracked'
  BY <1>1 DEF IInv, HeapTracked
<1>4. DOMAIN table' \subseteq Pointers
  BY <1>1 DEF IInv, TypeOK
<1>5. \A q \in DOMAIN table' : table'[q] \in [is_alloc : {0, 1}, size : Nat]
  BY <1>1 DEF IInv, TypeOK
<1> QED
  BY <1>2, <1>3, <1>4, <1>5

LEMMA InitInv == Init => IInv
<1> SUFFICES ASSUME Init PROVE IInv
  OBVIOUS
<1>1. DOMAIN blocks = {} /\ DOMAIN table = {}
  BY DEF Init
<1>2. TypeOK
  BY <1>1 DEF Init, TypeOK, Values
<1>3. HeapTracked /\ AllSized /\ LensKnown /\ NoBadFree
  BY <1>1 DEF Init, HeapTracked, AllSized, LensKnown, NoBadFree
<1> QED
  BY <1>2, <1>3 DEF IInv

LEMMA CreateArrInv ==
  ASSUME IInv, NEW v \in Locals, NEW len \in Lens, CreateArr(v, len)
  PROVE  IInv'
<1>1. CASE len < 0
  <2>1. pc' = "failed" /\ UNCHANGED <<blocks, table, locals, work>>
    BY <1>1 DEF CreateArr
  <2> QED
    BY <2>1 DEF IInv, TypeOK, HeapTracked, AllSized, LensKnown, Known, NoBadFree
<1>2. CASE ~ (len < 0)
  <2>1. PICK p \in Free :
          /\ blocks' = WithBlock(p, Unset(len))
          /\ table' = Record(table, p, 1, len)
          /\ locals' = [locals EXCEPT ![v] = p]
    BY <1>2 DEF CreateArr
  <2>2. UNCHANGED <<pc, work>>
    BY <1>2 DEF CreateArr
  <2>3. p \in Addrs /\ p \notin DOMAIN blocks /\ p \in Pointers /\ p \notin Literals /\ len \in Nat
    BY <1>2, AllocAssumption DEF Free, Pointers
  <2>4. /\ DOMAIN blocks' = DOMAIN blocks \cup {p} /\ blocks'[p] = Unset(len)
        /\ \A q \in DOMAIN blocks : blocks'[q] = blocks[q]
        /\ DOMAIN table' = DOMAIN table \cup {p}
        /\ table'[p] = [is_alloc |-> 1, size |-> len]
        /\ \A q \in DOMAIN table : q # p => table'[q] = table[q]
    BY <2>1, <2>3 DEF WithBlock, Record
  <2>5. DOMAIN Unset(len) = 0 .. len - 1 /\ \A i \in 0 .. len - 1 : Unset(len)[i] = Garbage
    BY DEF Unset
  <2>6. Known \subseteq Known'
    BY <2>3, <2>4 DEF Known
  <2>7. p \in Known'
    BY <2>3, <2>4, <2>5 DEF Known
  <2>8. locals' \in [Locals -> Values] /\ \A w \in Locals : w # v => locals'[w] = locals[w]
    BY <2>1, <2>3 DEF IInv, TypeOK, Values
  <2>9. locals'[v] = p
    BY <2>1 DEF IInv, TypeOK
  <2>10. \A x \in Values : x # Garbage => x \in Pointers
    BY DEF Values
  <2>11. TypeOK'
    BY <2>2, <2>3, <2>4, <2>5, <2>8 DEF IInv, TypeOK, Values
  <2>12. HeapTracked'
    BY <2>4 DEF IInv, HeapTracked
  <2>13. AllSized'
    BY <2>4, <2>6, <2>7 DEF IInv, AllSized, TypeOK, Pointers
  <2>14. LensKnown'
    <3>1. \A w \in Locals : locals'[w] # Garbage => locals'[w] \in Known'
      BY <2>6, <2>7, <2>8, <2>9 DEF IInv, LensKnown
    <3>2. \A q \in DOMAIN blocks : \A i \in DOMAIN blocks'[q] :
            blocks'[q][i] # Garbage => blocks'[q][i] \in Known'
      BY <2>4, <2>6 DEF IInv, LensKnown
    <3>3. \A i \in DOMAIN blocks'[p] : blocks'[p][i] = Garbage
      BY <2>4, <2>5
    <3> QED
      BY <2>4, <3>1, <3>2, <3>3 DEF LensKnown
  <2> QED
    BY <2>2, <2>11, <2>12, <2>13, <2>14 DEF IInv, NoBadFree
<1> QED
  BY <1>1, <1>2

LEMMA EvalLiteralInv ==
  ASSUME IInv, NEW v \in Locals, NEW l \in Literals, EvalLiteral(v, l)
  PROVE  IInv'
<1>1. /\ table' = Record(table, l, 0, LitLen[l]) /\ locals' = [locals EXCEPT ![v] = l]
      /\ UNCHANGED <<pc, blocks, work>>
  BY DEF EvalLiteral
<1>2. l \in Pointers /\ l \notin DOMAIN blocks /\ LitLen[l] \in Nat
  BY AllocAssumption DEF IInv, TypeOK, Pointers
<1>3. /\ DOMAIN table' = DOMAIN table \cup {l}
      /\ table'[l] = [is_alloc |-> 0, size |-> LitLen[l]]
      /\ \A q \in DOMAIN table : q # l => table'[q] = table[q]
  BY <1>1 DEF Record
<1>4. Known \subseteq Known'
  BY <1>1, <1>2, <1>3 DEF Known
<1>5. l \in Known'
  BY <1>3 DEF Known
<1>6. locals' \in [Locals -> Values] /\ \A w \in Locals : w # v => locals'[w] = locals[w]
  BY <1>1, <1>2 DEF IInv, TypeOK, Values
<1>7. locals'[v] = l
  BY <1>1 DEF IInv, TypeOK
<1>8. \A x \in Values : x # Garbage => x \in Pointers
  BY DEF Values
<1>9. TypeOK'
  BY <1>1, <1>2, <1>3, <1>6 DEF IInv, TypeOK
<1>10. HeapTracked'
  BY <1>1, <1>2, <1>3 DEF IInv, HeapTracked
<1>11. AllSized'
  BY <1>1, <1>4 DEF IInv, AllSized, TypeOK, Pointers
<1>12. LensKnown'
  BY <1>1, <1>4, <1>5, <1>6, <1>7, <1>8 DEF IInv, LensKnown, TypeOK
<1> QED
  BY <1>1, <1>9, <1>10, <1>11, <1>12 DEF IInv, NoBadFree

LEMMA CopyInputInv ==
  ASSUME IInv, NEW v \in Locals, NEW rows \in Lens, NEW n \in Lens, CopyInput(v, rows, n)
  PROVE  IInv'
<1>1. rows \in Nat /\ n \in Nat /\ UNCHANGED <<pc, work>>
  BY AllocAssumption DEF CopyInput
<1>2. PICK p \in Free : \E at \in [0 .. rows - 1 -> Free \ {p}] :
       LET new == {at[i] : i \in 0 .. rows - 1}
       IN  /\ blocks' = [q \in DOMAIN blocks \cup {p} \cup new |->
                           IF q = p THEN at ELSE IF q \in new THEN Unset(n) ELSE blocks[q]]
           /\ table' = [q \in DOMAIN table \cup {p} \cup new |->
                          IF q = p THEN [is_alloc |-> 1, size |-> rows]
                          ELSE IF q \in new THEN [is_alloc |-> 1, size |-> n]
                          ELSE table[q]]
           /\ locals' = [locals EXCEPT ![v] = p]
  BY DEF CopyInput
<1>3. PICK at \in [0 .. rows - 1 -> Free \ {p}] :
       LET new == {at[i] : i \in 0 .. rows - 1}
       IN  /\ blocks' = [q \in DOMAIN blocks \cup {p} \cup new |->
                           IF q = p THEN at ELSE IF q \in new THEN Unset(n) ELSE blocks[q]]
           /\ table' = [q \in DOMAIN table \cup {p} \cup new |->
                          IF q = p THEN [is_alloc |-> 1, size |-> rows]
                          ELSE IF q \in new THEN [is_alloc |-> 1, size |-> n]
                          ELSE table[q]]
           /\ locals' = [locals EXCEPT ![v] = p]
  BY <1>2
<1> DEFINE new == {at[i] : i \in 0 .. rows - 1}
<1>4. /\ p \in Addrs /\ p \notin DOMAIN blocks /\ p \notin Literals /\ p \in Pointers
      /\ new \subseteq Addrs /\ new \cap DOMAIN blocks = {} /\ p \notin new
      /\ new \cap Literals = {} /\ new \subseteq Pointers
  BY AllocAssumption DEF Free, Pointers
<1>5. /\ DOMAIN at = 0 .. rows - 1 /\ \A i \in 0 .. rows - 1 : at[i] \in new
      /\ DOMAIN Unset(n) = 0 .. n - 1 /\ \A i \in 0 .. n - 1 : Unset(n)[i] = Garbage
  BY DEF Unset
<1>6. /\ DOMAIN blocks' = DOMAIN blocks \cup {p} \cup new
      /\ blocks'[p] = at /\ \A q \in new : blocks'[q] = Unset(n)
      /\ \A q \in DOMAIN blocks : blocks'[q] = blocks[q]
      /\ DOMAIN table' = DOMAIN table \cup {p} \cup new
      /\ table'[p] = [is_alloc |-> 1, size |-> rows]
      /\ \A q \in new : table'[q] = [is_alloc |-> 1, size |-> n]
      /\ \A q \in DOMAIN table : q # p /\ q \notin new => table'[q] = table[q]
  <2> HIDE DEF new
  <2>1. /\ blocks' = [q \in DOMAIN blocks \cup {p} \cup new |->
                        IF q = p THEN at ELSE IF q \in new THEN Unset(n) ELSE blocks[q]]
        /\ table' = [q \in DOMAIN table \cup {p} \cup new |->
                       IF q = p THEN [is_alloc |-> 1, size |-> rows]
                       ELSE IF q \in new THEN [is_alloc |-> 1, size |-> n]
                       ELSE table[q]]
    BY <1>3 DEF new
  <2> QED
    BY <1>4, <2>1
<1>7. locals' = [locals EXCEPT ![v] = p]
  BY <1>3
<1> HIDE DEF new
<1>8. Known \subseteq Known'
  BY <1>4, <1>6 DEF Known
<1>9. p \in Known' /\ new \subseteq Known'
  BY <1>4, <1>5, <1>6 DEF Known
<1>10. locals' \in [Locals -> Values] /\ \A w \in Locals : w # v => locals'[w] = locals[w]
  BY <1>4, <1>7 DEF IInv, TypeOK, Values
<1>11. locals'[v] = p
  BY <1>7 DEF IInv, TypeOK
<1>12. \A x \in Values : x # Garbage => x \in Pointers
  BY DEF Values
<1>13. TypeOK'
  <2>1. DOMAIN blocks' \subseteq Addrs /\ DOMAIN table' \subseteq Pointers
    BY <1>4, <1>6 DEF IInv, TypeOK
  <2>2. \A q \in DOMAIN blocks' : \A i \in DOMAIN blocks'[q] : blocks'[q][i] \in Values
    BY <1>4, <1>5, <1>6 DEF IInv, TypeOK, Values
  <2>3. \A q \in DOMAIN table' : table'[q] \in [is_alloc : {0, 1}, size : Nat]
    BY <1>1, <1>6 DEF IInv, TypeOK
  <2> QED
    BY <1>1, <1>10, <2>1, <2>2, <2>3 DEF IInv, TypeOK
<1>14. HeapTracked'
  BY <1>6 DEF IInv, HeapTracked
<1>15. AllSized'
  BY <1>6, <1>8, <1>9 DEF IInv, AllSized, TypeOK, Pointers
<1>16. LensKnown'
  <2>1. \A w \in Locals : locals'[w] # Garbage => locals'[w] \in Known'
    BY <1>8, <1>9, <1>10, <1>11, <1>12 DEF IInv, LensKnown, TypeOK
  <2>2. ASSUME NEW q \in DOMAIN blocks', NEW i \in DOMAIN blocks'[q], blocks'[q][i] # Garbage
        PROVE  blocks'[q][i] \in Known'
    <3>1. CASE q = p
      BY <1>5, <1>6, <1>9, <3>1
    <3>2. CASE q \in new
      BY <1>5, <1>6, <2>2, <3>2
    <3>3. CASE q \in DOMAIN blocks
      BY <1>6, <1>8, <1>12, <2>2, <3>3 DEF IInv, LensKnown, TypeOK
    <3> QED
      BY <1>6, <3>1, <3>2, <3>3
  <2> QED
    BY <2>1, <2>2 DEF LensKnown
<1> QED
  BY <1>1, <1>13, <1>14, <1>15, <1>16 DEF IInv, NoBadFree

\* Copying a pointer from a variable or an element.
LEMMA MoveInv ==
  ASSUME IInv, NEW v \in Locals, NEW x \in Values, x # Garbage => x \in Known,
         locals' = [locals EXCEPT ![v] = x], UNCHANGED <<pc, blocks, table, work>>
  PROVE  IInv'
<1>1. Known' = Known
  BY DEF Known
<1>2. locals' \in [Locals -> Values] /\ locals'[v] = x
      /\ \A w \in Locals : w # v => locals'[w] = locals[w]
  BY DEF IInv, TypeOK
<1>3. TypeOK' /\ HeapTracked' /\ AllSized' /\ NoBadFree'
  BY <1>1, <1>2 DEF IInv, TypeOK, HeapTracked, AllSized, NoBadFree
<1>4. LensKnown'
  BY <1>1, <1>2 DEF IInv, LensKnown
<1> QED
  BY <1>3, <1>4 DEF IInv

LEMMA CopyInv ==
  ASSUME IInv, NEW v \in Locals, NEW w \in Locals, Copy(v, w)
  PROVE  IInv'
BY MoveInv DEF Copy, IInv, TypeOK, LensKnown

LEMMA LoadInv ==
  ASSUME IInv, NEW v \in Locals, NEW w \in Locals, NEW i, Load(v, w, i)
  PROVE  IInv'
BY MoveInv DEF Load, IInv, TypeOK, LensKnown

LEMMA StoreInv ==
  ASSUME IInv, NEW v \in Locals, NEW i, NEW w \in Locals, Store(v, i, w)
  PROVE  IInv'
<1> DEFINE p == locals[v]
<1>1. /\ p \in DOMAIN blocks /\ i \in DOMAIN blocks[p]
      /\ blocks' = [blocks EXCEPT ![p][i] = locals[w]]
      /\ UNCHANGED <<pc, table, locals, work>>
  BY DEF Store
<1>2. locals[w] \in Values /\ (locals[w] # Garbage => locals[w] \in Known)
  BY DEF IInv, TypeOK, LensKnown
<1> HIDE DEF p
<1>3. DOMAIN blocks' = DOMAIN blocks /\ \A q \in DOMAIN blocks : DOMAIN blocks'[q] = DOMAIN blocks[q]
  BY <1>1
<1>4. \A q \in DOMAIN blocks : \A j \in DOMAIN blocks[q] :
        blocks'[q][j] = IF q = p /\ j = i THEN locals[w] ELSE blocks[q][j]
  BY <1>1
<1>5. Known \subseteq Known'
  BY <1>1, <1>3 DEF Known
<1>6. TypeOK'
  BY <1>1, <1>2, <1>3, <1>4 DEF IInv, TypeOK
<1>7. HeapTracked' /\ AllSized' /\ NoBadFree'
  BY <1>1, <1>3, <1>5 DEF IInv, HeapTracked, AllSized, NoBadFree
<1>8. LensKnown'
  BY <1>1, <1>2, <1>3, <1>4, <1>5 DEF IInv, LensKnown
<1> QED
  BY <1>6, <1>7, <1>8 DEF IInv

\* A lookup may insert an entry of length 0, for a pointer nobody was handed.
LEMMA GetPropertyInv ==
  ASSUME IInv, NEW v \in Locals, GetProperty(v)
  PROVE  IInv'
<1>1. PICK p \in Deref(locals[v]) : table' = Touch(table, p)
  BY DEF GetProperty
<1>2. UNCHANGED <<pc, blocks, locals, work>>
  BY DEF GetProperty
<1>3. p \in Pointers
  BY DEF Deref, IInv, TypeOK, Values
<1>4. /\ Known \subseteq Known' /\ HeapTracked' /\ DOMAIN table' \subseteq Pointers
      /\ \A q \in DOMAIN table' : table'[q] \in [is_alloc : {0, 1}, size : Nat]
  BY <1>1, <1>2, <1>3, TouchKeeps
<1>5. TypeOK' /\ NoBadFree'
  BY <1>2, <1>4 DEF IInv, TypeOK, NoBadFree
<1> QED
  BY <1>2, <1>4, <1>5, KeepSized DEF IInv

LEMMA GatherInv ==
  ASSUME IInv, NEW p, NEW dims, Gather(p, dims)
  PROVE  IInv'
<1>1. /\ <<p, dims>> \in work /\ table' = Touch(table, p)
      /\ UNCHANGED <<pc, blocks, locals>>
  BY DEF Gather
<1>2. p \in Pointers /\ dims \in Int
  BY <1>1 DEF IInv, TypeOK
<1>3. /\ Known \subseteq Known' /\ HeapTracked' /\ DOMAIN table' \subseteq Pointers
      /\ \A q \in DOMAIN table' : table'[q] \in [is_alloc : {0, 1}, size : Nat]
  BY <1>1, <1>2, TouchKeeps
<1>4. work' \subseteq Pointers \X Int
  <2> DEFINE n == IF p \in DOMAIN blocks /\ dims > 1 THEN Lookup(table, p) ELSE 0
  <2>1. PICK next \in [0 .. n - 1 -> Pointers] :
          work' = (work \ {<<p, dims>>}) \cup {<<next[i], dims - 1>> : i \in 0 .. n - 1}
    BY DEF Gather
  <2>2. dims - 1 \in Int /\ \A i \in 0 .. n - 1 : next[i] \in Pointers
    BY <1>2
  <2> HIDE DEF n
  <2> QED
    BY <2>1, <2>2 DEF IInv, TypeOK
<1>5. TypeOK' /\ NoBadFree'
  BY <1>1, <1>3, <1>4 DEF IInv, TypeOK, NoBadFree
<1> QED
  BY <1>1, <1>3, <1>5, KeepSized DEF IInv

\* What reset frees is what was allocated: it starts the next test with neither
\* blocks nor entries.
LEMMA ResetInv ==
  ASSUME IInv, Reset
  PROVE  IInv' /\ DOMAIN blocks' = {}
<1> DEFINE freed == {p \in DOMAIN table : table[p].is_alloc = 1}
<1>1. freed = DOMAIN blocks
  BY DEF IInv, HeapTracked
<1>2. /\ pc' = "run" /\ DOMAIN blocks' = {} /\ DOMAIN table' = {}
      /\ locals' = [v \in Locals |-> Garbage] /\ work' = work
  BY <1>1 DEF Reset
<1>3. TypeOK'
  BY <1>2 DEF IInv, TypeOK, Values
<1>4. HeapTracked' /\ AllSized' /\ LensKnown' /\ NoBadFree'
  BY <1>2 DEF HeapTracked, AllSized, LensKnown, NoBadFree
<1> QED
  BY <1>2, <1>3, <1>4 DEF IInv

LEMMA ReturnInv ==
  ASSUME IInv, NEW v \in Locals, NEW dims \in 1 .. 2, Return(v, dims)
  PROVE  IInv'
<1>1. PICK p \in Deref(locals[v]) : work' = {<<p, dims>>}
  BY DEF Return
<1>2. p \in Pointers
  BY DEF Deref, IInv, TypeOK, Values
<1>3. pc' = "gather" /\ UNCHANGED <<blocks, table, locals>>
  BY DEF Return
<1> QED
  BY <1>1, <1>2, <1>3 DEF IInv, TypeOK, HeapTracked, AllSized, LensKnown, Known, NoBadFree

\* Steps of control only; the program's variables are gone after an exception.
LEMMA ControlInv ==
  ASSUME IInv, GatherDone \/ Throw \/ Again \/ UNCHANGED vars
  PROVE  IInv'
<1>1. /\ UNCHANGED <<blocks, table, work>>
      /\ pc' = pc \/ pc' \in {"run", "reset", "failed"}
      /\ locals' = locals \/ locals' = [v \in Locals |-> Garbage]
  BY DEF GatherDone, Throw, Again, vars
<1>2. Known' = Known
  BY <1>1 DEF Known
<1> QED
  BY <1>1, <1>2 DEF IInv, TypeOK, Values, HeapTracked, AllSized, LensKnown, NoBadFree

LEMMA NextInv ==
  ASSUME IInv, [Next]_vars
  PROVE  IInv'
<1>1. CASE Program
  BY <1>1, CreateArrInv, EvalLiteralInv, CopyInputInv, CopyInv, StoreInv, LoadInv,
     GetPropertyInv, ReturnInv, ControlInv DEF Program
<1>2. CASE Finish
  BY <1>2, GatherInv, ControlInv, ResetInv DEF Finish
<1>3. CASE Again \/ UNCHANGED vars
  BY <1>3, ControlInv
<1> QED
  BY <1>1, <1>2, <1>3 DEF Next

-----------------------------------------------------------------------------
\* The inductive invariant.
THEOREM Invariance == Spec => []IInv
BY InitInv, NextInv, PTL DEF Spec

\* The heap, the table and the pointers keep their types.
THEOREM TypeCorrect == Spec => []TypeOK
<1>1. IInv => TypeOK
  BY DEF IInv
<1> QED
  BY <1>1, Invariance, PTL

\* The entries marked as allocated are the blocks that are not freed yet, after
\* exceptions too.
THEOREM NoLeak == Spec => []HeapTracked
<1>1. IInv => HeapTracked
  BY DEF IInv
<1> QED
  BY <1>1, Invariance, PTL

\* get_property and gather_rec find the length of every pointer the program
\* was handed.
THEOREM LengthsRight == Spec => []LensKnown
<1>1. IInv => LensKnown
  BY DEF IInv
<1> QED
  BY <1>1, Invariance, PTL

\* reset frees no block twice, and nothing that malloc did not return.
THEOREM FreesOnce == Spec => []NoBadFree
<1>1. IInv => NoBadFree
  BY DEF IInv
<1> QED
  BY <1>1, Invariance, PTL
=============================================================================
