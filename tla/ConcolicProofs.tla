--------------------------- MODULE ConcolicProofs ---------------------------
(***************************************************************************)
(* Proofs about Concolic, for every program, input tree and solver.        *)
(*                                                                         *)
(* The argument: a value is only ever given to a symbol that is reachable  *)
(* and has none (AssignNew), so bindings only grow within a test.  That    *)
(* the symbols the solver is asked about stay without a value until they   *)
(* are filled is what needs AllLenSafe: an array registered for its length *)
(* gets a size at random if an element of it is read later on.             *)
(***************************************************************************)
EXTENDS Concolic, SequenceTheorems, TLAPS

-----------------------------------------------------------------------------
(* The tree of input symbols: the ancestors of a symbol, and what giving a *)
(* value to an existing symbol without one does to the tree.               *)

\* An ancestor is a symbol, named by a prefix of the path.
LEMMA UpType ==
  ASSUME NEW s \in Sym, NEW k \in 0 .. Len(s.path)
  PROVE  /\ Up(s, k) \in Sym
         /\ Up(s, k).in = s.in
         /\ Len(Up(s, k).path) = k
         /\ \A j \in 1 .. k : Up(s, k).path[j] = s.path[j]
<1>1. s.path \in Seq(Int) /\ s.in \in Inputs
  BY DEF Sym
<1>2. SubSeq(s.path, 1, k) \in Seq(Int)
  BY <1>1, SMT
<1>3. Len(SubSeq(s.path, 1, k)) = k
  BY <1>1, SMT
<1>4. \A j \in 1 .. k : SubSeq(s.path, 1, k)[j] = s.path[j]
  BY <1>1, SMT
<1> QED
  BY <1>1, <1>2, <1>3, <1>4 DEF Up, Sym

\* All the indices lead to the symbol itself.
LEMMA UpSelf ==
  ASSUME NEW s \in Sym
  PROVE  Up(s, Len(s.path)) = s
<1>1. s.path \in Seq(Int) /\ s = [in |-> s.in, path |-> s.path]
  BY DEF Sym
<1>2. SubSeq(s.path, 1, Len(s.path)) = s.path
  BY <1>1, SMT
<1> QED
  BY <1>1, <1>2 DEF Up

\* The ancestors of an ancestor are ancestors.
LEMMA UpUp ==
  ASSUME NEW s \in Sym, NEW k \in 0 .. Len(s.path), NEW j \in 0 .. k
  PROVE  Up(Up(s, k), j) = Up(s, j)
<1>1. s.path \in Seq(Int)
  BY DEF Sym
<1>2. SubSeq(SubSeq(s.path, 1, k), 1, j) = SubSeq(s.path, 1, j)
  BY <1>1, SMT
<1> QED
  BY <1>2 DEF Up

-----------------------------------------------------------------------------
\* More values in the tree leave what was reachable reachable.
LEMMA LiveExtends ==
  ASSUME NEW b, NEW c, Extends(c, b), NEW s, Live(b, s)
  PROVE  Live(c, s)
BY DEF Extends, Live

\* Below a symbol without a value nothing has one, nor is reachable.
LEMMA BelowUnbound ==
  ASSUME NEW b, NEW s \in Sym, s \notin DOMAIN b,
         NEW t \in Sym, Live(b, t)
  PROVE  ~Below(t, s)
<1> SUFFICES ASSUME Below(t, s) PROVE FALSE
  OBVIOUS
<1>1. Len(s.path) \in 0 .. Len(t.path) - 1 /\ Up(t, Len(s.path)) = s
  BY DEF Below, Sym
<1> QED
  BY <1>1 DEF Live

\* Giving a reachable symbol its first value keeps every other value and the
\* shape of the tree.
LEMMA AssignNew ==
  ASSUME NEW b, IsBinding(b), Closed(b),
         NEW s \in Sym, s \notin DOMAIN b, Live(b, s), NEW v \in Int
  PROVE  /\ IsBinding(Assign(b, s, v))
         /\ DOMAIN Assign(b, s, v) = DOMAIN b \cup {s}
         /\ Assign(b, s, v)[s] = v
         /\ Extends(Assign(b, s, v), b)
         /\ Closed(Assign(b, s, v))
<1> DEFINE c == Assign(b, s, v)
<1>1. \A t \in DOMAIN b : ~Below(t, s)
  BY BelowUnbound DEF Closed, IsBinding
<1>2. c = [t \in DOMAIN b \cup {s} |-> IF t = s THEN v ELSE b[t]]
  BY <1>1 DEF Assign
<1>3. DOMAIN c = DOMAIN b \cup {s} /\ c[s] = v /\ Extends(c, b)
  BY <1>2 DEF Extends
<1>4. IsBinding(c)
  BY <1>2 DEF IsBinding
<1>5. \A t \in DOMAIN c : Live(c, t)
  BY <1>3, LiveExtends DEF Closed
<1> QED
  BY <1>3, <1>4, <1>5 DEF Closed

\* An input is always there.
LEMMA RootLive ==
  ASSUME NEW b, NEW i \in Inputs
  PROVE  Root(i) \in Sym /\ Live(b, Root(i))
BY DEF Root, Sym, Live

\* One index further: an element of a reachable array that has its size.
LEMMA UpNextLive ==
  ASSUME NEW b, NEW s \in Sym, NEW k \in 0 .. Len(s.path) - 1,
         Live(b, Up(s, k)), Up(s, k) \in DOMAIN b,
         s.path[k + 1] \in 0 .. b[Up(s, k)] - 1
  PROVE  Live(b, Up(s, k + 1))
<1> DEFINE t == Up(s, k + 1)
<1>1. k \in 0 .. Len(s.path) /\ k + 1 \in 0 .. Len(s.path) /\ k \in Nat
  BY DEF Sym
<1>2. Len(t.path) = k + 1 /\ \A j \in 1 .. k + 1 : t.path[j] = s.path[j]
  BY <1>1, UpType
<1>3. Len(Up(s, k).path) = k /\ \A j \in 1 .. k : Up(s, k).path[j] = s.path[j]
  BY <1>1, UpType
<1> SUFFICES ASSUME NEW j \in 0 .. k
             PROVE  Up(t, j) \in DOMAIN b /\ t.path[j + 1] \in 0 .. b[Up(t, j)] - 1
  BY <1>1, <1>2 DEF Live
<1>4. Up(t, j) = Up(s, j)
  BY <1>1, UpUp
<1>5. CASE j = k
  BY <1>1, <1>2, <1>4, <1>5
<1>6. CASE j < k
  <2>1. j \in 0 .. Len(Up(s, k).path) - 1 /\ j + 1 \in 1 .. k /\ j \in 0 .. k
    BY <1>1, <1>3, <1>6
  <2>2. Up(Up(s, k), j) = Up(s, j)
    BY <1>1, <2>1, UpUp
  <2>3. Up(s, j) \in DOMAIN b /\ Up(s, k).path[j + 1] \in 0 .. b[Up(s, j)] - 1
    BY <2>1, <2>2 DEF Live
  <2> QED
    BY <1>1, <1>2, <1>3, <1>4, <2>1, <2>3
<1> QED
  BY <1>1, <1>5, <1>6

\* The elements of an array with a size are there.
LEMMA ElementLive ==
  ASSUME NEW b, IsBinding(b), Closed(b), NEW a \in DOMAIN b, NEW t \in Elements(b, a)
  PROVE  t \in Sym /\ Live(b, t)
<1>1. PICK i \in 0 .. b[a] - 1 : t = [in |-> a.in, path |-> Append(a.path, i)]
  BY DEF Elements
<1>2. a \in Sym /\ a.path \in Seq(Int) /\ a.in \in Inputs
  BY DEF IsBinding, Sym
<1>3. b[a] \in Int /\ i \in Int
  BY <1>1 DEF IsBinding
<1>4. Append(a.path, i) \in Seq(Int) /\ Len(Append(a.path, i)) = Len(a.path) + 1
      /\ Append(a.path, i)[Len(a.path) + 1] = i
  BY <1>2, <1>3, SMT
<1>5. t \in Sym /\ Len(t.path) = Len(a.path) + 1 /\ t.path[Len(a.path) + 1] = i
  BY <1>1, <1>2, <1>4 DEF Sym
<1>6. SubSeq(Append(a.path, i), 1, Len(a.path)) = a.path
  BY <1>2, <1>3, SMT
<1>7. Up(t, Len(a.path)) = a
  BY <1>1, <1>2, <1>6 DEF Up, Sym
<1>8. Len(a.path) \in 0 .. Len(t.path) - 1
  BY <1>2, <1>5
<1>9. Live(b, a)
  BY DEF Closed
<1>10. Live(b, Up(t, Len(a.path) + 1))
  BY <1>1, <1>5, <1>7, <1>8, <1>9, UpNextLive
<1> QED
  BY <1>5, <1>10, UpSelf

\* What is to be generated next exists, and has no value yet.
LEMMA FrontierLive ==
  ASSUME NEW b, IsBinding(b), Closed(b), NEW s \in Sym, Live(b, s),
         NEW t \in Frontier(b, s)
  PROVE  t \in Sym /\ t \notin DOMAIN b /\ Live(b, t)
BY ElementLive DEF Frontier

\* Random values are integers, sizes natural numbers.
LEMMA RandInt ==
  ASSUME NEW s \in Sym
  PROVE  RandOf(s) \subseteq Int
<1>1. Kind[s.in] \in Kinds
  BY TreeAssumption DEF Sym
<1>2. RandVals[Kind[s.in]] \in SUBSET Int
  BY <1>1, TreeAssumption
<1>3. RandLens \subseteq Int
  BY TreeAssumption
<1> QED
  BY <1>2, <1>3 DEF RandOf

LEMMA WrapInt ==
  ASSUME NEW s \in Sym, NEW z \in Int
  PROVE  Wrap(s, z) \in Int
<1> DEFINE kind == IF IsArray(s) THEN "int" ELSE Kind[s.in]
<1>1. kind \in Kinds
  BY TreeAssumption DEF Sym, Kinds
<1>2. Half[kind] \in Nat \ {0}
  BY <1>1, TreeAssumption
<1> HIDE DEF kind
<1>3. (z + Half[kind]) % (2 * Half[kind]) \in Int
  BY <1>2
<1> QED
  BY <1>2, <1>3 DEF Wrap, kind

-----------------------------------------------------------------------------
(* The tests.                                                              *)

Running == pc \notin {"failed", "undefined"}

\* The indices followed so far lead to an existing symbol.
ReadInv ==
  Running => IF Reading
             THEN lvl \in 0 .. Len(Read.sym.path) /\ Live(binding, Up(Read.sym, lvl))
             ELSE lvl = 0

\* The reads turned into terms: constants have no value, literals have one.
GenInv ==
  pc = "gen" =>
    /\ symbolic \subseteq 1 .. pos - 1
    /\ \A j \in symbolic :
         /\ cond.reads[j].sym \notin DOMAIN binding
         /\ Live(binding, cond.reads[j].sym)
         /\ cond.reads[j].how = "val" => ~IsArray(cond.reads[j].sym)
    /\ \A j \in (1 .. pos - 1) \ symbolic : cond.reads[j].sym \in DOMAIN binding
    /\ goal = "none"

\* The model satisfies what the solver was asked, on the terms as they are.
Solved ==
  /\ model \in [Registered -> Int]
  /\ \A j \in (1 .. Len(cond.reads)) \ symbolic : cond.reads[j].sym \in DOMAIN binding
  /\ Side(cond, TermVals(model)) = goal
  /\ PreHolds(cond, TermVals(model))

FilledWith(S) ==
  \A s \in S : s \in DOMAIN binding /\ binding[s] = Wrap(s, model[s])

FillInv ==
  pc = "fill" =>
    /\ \A s \in Registered : Live(binding, s)
    /\ \A s \in todo : s \notin DOMAIN binding
    /\ FilledWith(Registered \ todo)
    /\ Solved

EvalInv == (pc = "eval" /\ goal # "none") => Solved /\ FilledWith(Registered)

QuietInv ==
  /\ dead = {}
  /\ pc \in {"run", "gen", "eval", "gather", "reset", "done"} => todo = {}
  /\ pc \in {"run", "gather", "reset", "done"} => NoQuery /\ pos = 1

IInv ==
  /\ TypeOK /\ Closed(binding) /\ Faithful
  /\ ReadInv /\ GenInv /\ FillInv /\ EvalInv /\ QuietInv

-----------------------------------------------------------------------------
AnyCond == Conds \cup {NoCond} \cup {AsCond(r) : r \in Accesses}

\* What a branch, or an access seen as one, reads.
LEMMA CondShape ==
  ASSUME NEW c \in AnyCond
  PROVE  /\ c.reads \in Seq(Reads)
         /\ Len(c.reads) \in Nat
         /\ c.ncond \in 0 .. Len(c.reads)
         /\ \A j \in 1 .. Len(c.reads) :
              /\ c.reads[j] \in Reads
              /\ c.reads[j].sym \in Sym
              /\ WellFormed(c.reads[j])
              /\ Len(c.reads[j].sym.path) <= Depth[c.reads[j].sym.in]
<1> DEFINE Shape == /\ c.reads \in Seq(Reads) /\ c.ncond \in 0 .. Len(c.reads)
                   /\ \A j \in 1 .. Len(c.reads) :
                        /\ WellFormed(c.reads[j])
                        /\ Len(c.reads[j].sym.path) <= Depth[c.reads[j].sym.in]
<1>1. ASSUME c \in Conds PROVE Shape
  BY <1>1, ConcolicAssumption
<1>2. ASSUME c = NoCond PROVE Shape
  <2>1. c.reads = <<>> /\ c.ncond = 0
    BY <1>2 DEF NoCond
  <2> QED
    BY <2>1
<1>3. ASSUME NEW r \in Accesses, c = AsCond(r)
      PROVE  Shape
  <2>1. c.reads = <<r>> /\ c.ncond = 1
    BY <1>3 DEF AsCond
  <2>2. r \in Reads /\ WellFormed(r) /\ Len(r.sym.path) <= Depth[r.sym.in]
    BY ConcolicAssumption
  <2>3. <<r>> \in Seq(Reads) /\ Len(<<r>>) = 1 /\ <<r>>[1] = r
    BY <2>2
  <2> QED
    BY <2>1, <2>2, <2>3
<1>4. Shape
  BY <1>1, <1>2, <1>3 DEF AnyCond
<1>5. Len(c.reads) \in Nat /\ \A j \in 1 .. Len(c.reads) : c.reads[j] \in Reads
  BY <1>4
<1>6. \A r \in Reads : r.sym \in Sym
  BY DEF Reads
<1> QED
  BY <1>4, <1>5, <1>6

\* The read in progress, and where it has come to.
LEMMA ReadShape ==
  ASSUME TypeOK, ReadInv, Running, Reading
  PROVE  /\ pos \in 1 .. Len(cond.reads)
         /\ Read \in Reads /\ Read.sym \in Sym /\ WellFormed(Read)
         /\ Len(Read.sym.path) <= Depth[Read.sym.in]
         /\ lvl \in 0 .. Len(Read.sym.path)
         /\ Live(binding, Up(Read.sym, lvl))
         /\ Arrived => Live(binding, Read.sym)
<1>1. cond \in AnyCond
  BY DEF TypeOK, AnyCond
<1>2. pos \in 1 .. Len(cond.reads)
  BY <1>1, CondShape DEF TypeOK, Reading, Last
<1>3. Read \in Reads /\ Read.sym \in Sym /\ WellFormed(Read)
      /\ Len(Read.sym.path) <= Depth[Read.sym.in]
  BY <1>1, <1>2, CondShape DEF Read
<1>4. lvl \in 0 .. Len(Read.sym.path) /\ Live(binding, Up(Read.sym, lvl))
  BY DEF ReadInv
<1>5. ASSUME Arrived PROVE Live(binding, Read.sym)
  <2>1. CASE Read.how = "len"
    <3>1. Read.sym = Root(Read.sym.in) /\ Read.sym.in \in Inputs
      BY <1>3, <2>1 DEF WellFormed, Sym
    <3> QED
      BY <3>1, RootLive
  <2>2. CASE lvl = Len(Read.sym.path)
    BY <1>3, <1>4, <2>2, UpSelf
  <2> QED
    BY <1>5, <2>1, <2>2 DEF Arrived
<1> QED
  BY <1>2, <1>3, <1>4, <1>5

\* At the start of a read no index is followed: the input itself is there.
LEMMA ReadStart ==
  ASSUME NEW b, NEW r \in Reads
  PROVE  0 \in 0 .. Len(r.sym.path) /\ Live(b, Up(r.sym, 0))
<1>1. r.sym \in Sym /\ Len(r.sym.path) \in Nat
  BY DEF Reads, Sym
<1>2. Len(Up(r.sym, 0).path) = 0
  BY <1>1, UpType
<1> QED
  BY <1>1, <1>2 DEF Live

-----------------------------------------------------------------------------
\* What the invariant says of the values there are survives more of them.
LEMMA Grow ==
  ASSUME TypeOK, Extends(binding', binding),
         UNCHANGED <<cond, symbolic, model, goal>>
  PROVE  /\ Registered' = Registered
         /\ Solved => Solved'
         /\ \A S : FilledWith(S) => \A s \in S : s \in DOMAIN binding' /\ binding'[s] = Wrap(s, model[s])
<1>1. Registered' = Registered
  BY DEF Registered
<1>2. ASSUME Solved PROVE Solved'
  <2>1. TermVals(model)' = TermVals(model)
    BY <1>2 DEF TermVals, Solved, Extends
  <2>2. \A j \in (1 .. Len(cond.reads)) \ symbolic : cond.reads[j].sym \in DOMAIN binding'
    BY <1>2 DEF Solved, Extends
  <2> QED
    BY <1>1, <1>2, <2>1, <2>2 DEF Solved
<1>3. ASSUME NEW S, FilledWith(S), NEW s \in S
      PROVE  s \in DOMAIN binding' /\ binding'[s] = Wrap(s, model[s])
  BY <1>3 DEF FilledWith, Extends
<1> QED
  BY <1>1, <1>2, <1>3

LEMMA GrowSeen ==
  ASSUME Faithful, Extends(binding', binding), UNCHANGED seen
  PROVE  Faithful'
BY DEF Faithful, Extends

LEMMA InitInv == Init => IInv
<1> SUFFICES ASSUME Init PROVE IInv
  OBVIOUS
<1> USE DEF Init, NoQuery, NoBinding
<1>1. TypeOK
  <2>1. NoCond.reads = <<>> /\ Registered = {}
    BY DEF NoCond, Registered
  <2> QED
    BY <2>1 DEF TypeOK, IsBinding
<1>2. Closed(binding) /\ Faithful
  BY DEF Closed, Faithful
<1>3. ReadInv /\ GenInv /\ FillInv /\ EvalInv /\ QuietInv
  BY DEF ReadInv, GenInv, FillInv, EvalInv, QuietInv, Reading
<1> QED
  BY <1>1, <1>2, <1>3 DEF IInv

\* A read that has not begun, or none.
LEMMA StartReadInv ==
  ASSUME cond' \in AnyCond, pos' \in 1 .. Len(cond'.reads) + 1, lvl' = 0
  PROVE  ReadInv'
<1> SUFFICES ASSUME Reading'
             PROVE  0 \in 0 .. Len(Read'.sym.path) /\ Live(binding', Up(Read'.sym, 0))
  BY DEF ReadInv
<1>1. pos' \in 1 .. Len(cond'.reads)
  BY CondShape DEF Reading, Last
<1>2. Read' \in Reads
  BY <1>1, CondShape DEF Read
<1> QED
  BY <1>2, ReadStart

LEMMA AccessInv ==
  ASSUME IInv, NEW r \in Accesses, Access(r)
  PROVE  IInv'
<1> USE DEF Access, tree, query
<1>1. NoQuery /\ pos = 1 /\ lvl = 0 /\ dead = {}
  BY DEF IInv, QuietInv, ReadInv, Running, Reading
<1>2. cond' \in AnyCond /\ Len(cond'.reads) = 1
  BY DEF AnyCond, AsCond
<1>3. TypeOK'
  <2>1. Registered' = {}
    BY <1>1 DEF Registered, NoQuery
  <2> QED
    BY <1>1, <1>2, <2>1 DEF IInv, TypeOK, NoQuery, AnyCond
<1>4. ReadInv'
  BY <1>1, <1>2, StartReadInv
<1>5. Closed(binding)' /\ Faithful' /\ GenInv' /\ FillInv' /\ EvalInv' /\ QuietInv'
  BY <1>1 DEF IInv, Faithful, GenInv, FillInv, EvalInv, QuietInv, NoQuery
<1> QED
  BY <1>3, <1>4, <1>5 DEF IInv

LEMMA BranchInv ==
  ASSUME IInv, NEW c \in Conds, Branch(c)
  PROVE  IInv'
<1> USE DEF Branch, tree, query
<1>1. NoQuery /\ pos = 1 /\ lvl = 0 /\ dead = {}
  BY DEF IInv, QuietInv, ReadInv, Running, Reading
<1>2. cond' \in AnyCond /\ Len(cond'.reads) \in Nat
  BY CondShape DEF AnyCond
<1>3. TypeOK'
  <2>1. Registered' = {}
    BY <1>1 DEF Registered, NoQuery
  <2> QED
    BY <1>1, <1>2, <2>1 DEF IInv, TypeOK, NoQuery, AnyCond
<1>4. ReadInv'
  BY <1>1, <1>2, StartReadInv
<1>5. Closed(binding)' /\ Faithful' /\ GenInv' /\ FillInv' /\ EvalInv' /\ QuietInv'
  BY <1>1 DEF IInv, Faithful, GenInv, FillInv, EvalInv, QuietInv, NoQuery
<1> QED
  BY <1>3, <1>4, <1>5 DEF IInv

\* Every branch is LenSafe; an access has one read only.
LEMMA CondSafe ==
  ASSUME AllLenSafe, NEW c \in AnyCond
  PROVE  LenSafe(c)
<1>1. CASE c \in Conds
  BY <1>1 DEF AllLenSafe
<1>2. CASE c = NoCond \/ \E r \in Accesses : c = AsCond(r)
  <2>1. c.reads = <<>> \/ \E r \in Accesses : c.reads = <<r>>
    BY <1>2 DEF NoCond, AsCond
  <2>2. Len(c.reads) <= 1
    <3>1. \A r : Len(<<r>>) = 1
      OBVIOUS
    <3>2. CASE c.reads = <<>>
      BY <3>2
    <3>3. CASE \E r \in Accesses : c.reads = <<r>>
      BY <3>1, <3>3
    <3> QED
      BY <2>1, <3>2, <3>3
  <2> QED
    BY <2>2, CondShape DEF LenSafe
<1> QED
  BY <1>1, <1>2 DEF AnyCond

\* The size generated on the way to an element is of no registered array.
LEMMA DescendInv ==
  ASSUME AllLenSafe, IInv, Descend
  PROVE  IInv'
<1> DEFINE a == Up(Read.sym, lvl)
           idx == Read.sym.path[lvl + 1]
<1>1. TypeOK /\ ReadInv /\ Running /\ Reading /\ ~Arrived /\ pc \in {"gen", "eval"}
  BY DEF IInv, Descend, Running, Reading
<1>2. /\ pos \in 1 .. Len(cond.reads)
      /\ Read \in Reads /\ Read.sym \in Sym /\ Len(Read.sym.path) <= Depth[Read.sym.in]
      /\ lvl \in 0 .. Len(Read.sym.path) /\ Live(binding, a)
  BY <1>1, ReadShape
<1>3. Read.how = "val" /\ lvl \in 0 .. Len(Read.sym.path) - 1
  BY <1>1, <1>2 DEF Arrived, Reads, Sym
<1>4. a \in Sym /\ a.in = Read.sym.in /\ Len(a.path) = lvl /\ IsArray(a)
  <2>1. a \in Sym /\ a.in = Read.sym.in /\ Len(a.path) = lvl
    BY <1>2, UpType
  <2>2. Depth[Read.sym.in] \in Nat
    BY <1>2, TreeAssumption DEF Sym
  <2> QED
    BY <1>2, <1>3, <2>1, <2>2 DEF IsArray, Sym
<1>5. PICK n \in IF a \in DOMAIN binding THEN {binding[a]} ELSE RandLens :
        /\ binding' = IF a \in DOMAIN binding THEN binding ELSE Assign(binding, a, n)
        /\ pc' = IF idx >= n THEN "failed" ELSE IF idx < 0 THEN "undefined" ELSE pc
  BY DEF Descend
<1>6. /\ lvl' = lvl + 1
      /\ UNCHANGED <<seen, tests, cond, pos, symbolic, model, todo, dead, goal>>
  BY DEF Descend, query
<1>7. IsBinding(binding) /\ Closed(binding)
  BY DEF IInv, TypeOK
<1>8. /\ IsBinding(binding') /\ Closed(binding') /\ Extends(binding', binding)
      /\ DOMAIN binding' = DOMAIN binding \cup {a} /\ binding'[a] = n /\ n \in Int
  <2>1. CASE a \in DOMAIN binding
    BY <1>5, <1>7, <2>1 DEF Extends, IsBinding
  <2>2. CASE a \notin DOMAIN binding
    <3>0. n \in RandLens /\ RandLens \subseteq Int
      BY <1>5, <2>2, TreeAssumption
    <3>1. n \in Int /\ binding' = Assign(binding, a, n)
      BY <1>5, <2>2, <3>0
    <3>2. a \in Sym /\ Live(binding, a)
      BY <1>2, <1>4
    <3> HIDE DEF a
    <3> QED
      BY <1>7, <2>2, <3>1, <3>2, AssignNew
  <2> QED
    BY <2>1, <2>2
<1>9. Registered' = Registered /\ (Solved => Solved')
  BY <1>1, <1>6, <1>8, Grow
<1>10. Faithful'
  BY <1>6, <1>8, GrowSeen DEF IInv
<1>11. TypeOK'
  BY <1>1, <1>2, <1>5, <1>6, <1>8, <1>9 DEF TypeOK
<1>12. ReadInv'
  <2> SUFFICES ASSUME Running' PROVE Reading' /\ lvl' \in 0 .. Len(Read'.sym.path)
                                     /\ Live(binding', Up(Read'.sym, lvl'))
    BY DEF ReadInv
  <2>1. Read' = Read
    BY <1>6 DEF Read
  <2>2. idx < n /\ idx >= 0 /\ pc' = pc
    <3>1. idx \in Int
      BY <1>2, <1>3 DEF Sym
    <3> QED
      BY <1>5, <1>8, <3>1 DEF Running
  <2>3. Reading'
    BY <1>1, <1>6, <2>2 DEF Reading, Last
  <2>4. Live(binding', a)
    BY <1>2, <1>8, LiveExtends
  <2>5. idx \in 0 .. binding'[a] - 1
    BY <1>2, <1>3, <1>8, <2>2 DEF Sym
  <2>6. Live(binding', Up(Read.sym, lvl + 1))
    BY <1>2, <1>3, <1>8, <2>4, <2>5, UpNextLive
  <2> QED
    BY <1>3, <1>6, <2>1, <2>3, <2>6
<1>13. GenInv'
  <2> SUFFICES ASSUME pc' = "gen" PROVE GenInv'
    BY DEF GenInv
  <2>1. pc = "gen"
    BY <1>1, <1>5
  <2>2. GenInv
    BY DEF IInv
  <2>3. ASSUME NEW j \in symbolic
        PROVE  cond.reads[j].sym \notin DOMAIN binding' /\ Live(binding', cond.reads[j].sym)
    <3>1. j \in 1 .. Len(cond.reads) /\ j < pos /\ cond \in AnyCond
      BY <1>1, <1>2, <2>1, <2>2 DEF GenInv, TypeOK, AnyCond
    <3>2. cond.reads[j] \in Reads /\ WellFormed(cond.reads[j])
      BY <3>1, CondShape
    <3>3. CASE cond.reads[j].how = "val"
      BY <1>4, <1>8, <2>1, <2>2, <3>3, LiveExtends DEF GenInv
    <3>4. CASE cond.reads[j].how = "len"
      <4>1. cond.reads[j].sym.in # a.in
        BY <1>2, <1>3, <1>4, <3>1, <3>4, CondSafe DEF LenSafe, Read
      <4> QED
        BY <1>8, <2>1, <2>2, <4>1, LiveExtends DEF GenInv
    <3> QED
      BY <3>2, <3>3, <3>4 DEF Reads
  <2> QED
    BY <1>6, <1>8, <2>1, <2>2, <2>3 DEF GenInv
<1>14. FillInv'
  BY <1>1, <1>5 DEF FillInv
<1>15. EvalInv'
  <2> SUFFICES ASSUME pc' = "eval", goal' # "none" PROVE Solved' /\ FilledWith(Registered)'
    BY DEF EvalInv
  <2>1. Solved /\ FilledWith(Registered)
    BY <1>1, <1>5, <1>6 DEF IInv, EvalInv
  <2> QED
    BY <1>6, <1>8, <1>9, <2>1 DEF FilledWith, Extends
<1>16. QuietInv'
  BY <1>1, <1>5, <1>6 DEF IInv, QuietInv
<1> QED
  BY <1>8, <1>10, <1>11, <1>12, <1>13, <1>14, <1>15, <1>16 DEF IInv

\* A read turned into a term: the tree is not touched.
LEMMA GenReadInv ==
  ASSUME IInv, GenRead
  PROVE  IInv'
<1>1. /\ TypeOK /\ ReadInv /\ GenInv /\ Running /\ Reading /\ Arrived /\ pc = "gen"
      /\ UNCHANGED <<binding, seen, tests, cond, model, todo, dead, goal>>
  BY DEF IInv, GenRead, Running, tree
<1>2. /\ pos \in 1 .. Len(cond.reads) /\ Read \in Reads /\ Read.sym \in Sym
      /\ Live(binding, Read.sym) /\ WellFormed(Read) /\ cond \in AnyCond
  BY <1>1, ReadShape DEF TypeOK, AnyCond
<1>3. CASE Read.how = "val" /\ IsArray(Read.sym)
  <2>1. pc' = "failed" /\ UNCHANGED <<pos, lvl, symbolic>>
    BY <1>3 DEF GenRead
  <2> QED
    BY <1>1, <2>1 DEF IInv, TypeOK, Faithful, ReadInv, Running, GenInv, FillInv,
                      EvalInv, QuietInv, Registered
<1>4. CASE ~ (Read.how = "val" /\ IsArray(Read.sym))
  <2>1. /\ symbolic' = IF Read.sym \in DOMAIN binding THEN symbolic
                         ELSE symbolic \cup {pos}
        /\ pos' = pos + 1 /\ lvl' = 0 /\ pc' = "gen"
    BY <1>1, <1>4 DEF GenRead
  <2>2. Len(cond.reads) \in Nat
    BY <1>2, CondShape
  <2>3. ReadInv'
    BY <1>1, <1>2, <2>1, <2>2, StartReadInv
  <2>4. symbolic \subseteq 1 .. pos - 1 /\ goal = "none" /\ todo = {} /\ dead = {}
    BY <1>1 DEF IInv, GenInv, QuietInv
  <2>5. TypeOK'
    <3>1. symbolic' \subseteq 1 .. Len(cond.reads)
      BY <1>2, <2>1, <2>2, <2>4
    <3> QED
      BY <1>1, <1>2, <2>1, <2>2, <2>4, <3>1 DEF TypeOK
  <2>6. GenInv'
    <3>1. symbolic' \subseteq 1 .. pos' - 1
      <4>1. pos \in Nat /\ pos' = pos + 1 /\ symbolic' \subseteq symbolic \cup {pos}
        BY <1>2, <2>1, <2>2
      <4>2. 1 .. pos - 1 \subseteq 1 .. pos' - 1 /\ pos \in 1 .. pos' - 1
        BY <1>2, <4>1
      <4> QED
        BY <2>4, <4>1, <4>2
    <3>2. ASSUME NEW j \in symbolic'
          PROVE  /\ cond.reads[j].sym \notin DOMAIN binding
                 /\ Live(binding, cond.reads[j].sym)
                 /\ cond.reads[j].how = "val" => ~IsArray(cond.reads[j].sym)
      <4>1. CASE j \in symbolic
        BY <1>1, <4>1 DEF GenInv
      <4>2. CASE j = pos /\ Read.sym \notin DOMAIN binding
        BY <1>2, <1>4, <4>2 DEF Read
      <4> QED
        BY <2>1, <4>1, <4>2
    <3>3. ASSUME NEW j \in (1 .. pos' - 1) \ symbolic'
          PROVE  cond.reads[j].sym \in DOMAIN binding
      <4>1. CASE j = pos
        BY <2>1, <4>1 DEF Read
      <4>2. CASE j # pos
        <5>1. j \in (1 .. pos - 1) \ symbolic
          BY <1>2, <2>1, <2>2, <4>2
        <5> QED
          BY <1>1, <5>1 DEF GenInv
      <4> QED
        BY <4>1, <4>2
    <3> QED
      BY <1>1, <2>4, <3>1, <3>2, <3>3 DEF GenInv
  <2>7. Closed(binding)' /\ Faithful' /\ FillInv' /\ EvalInv' /\ QuietInv'
    BY <1>1, <2>1, <2>4 DEF IInv, Faithful, FillInv, EvalInv, QuietInv
  <2> QED
    BY <2>3, <2>5, <2>6, <2>7 DEF IInv
<1> QED
  BY <1>3, <1>4

\* Outside a read, no index is followed.
LEMMA NotReading ==
  ASSUME IInv, Running, ~Reading
  PROVE  lvl = 0 /\ TypeOK /\ cond \in AnyCond /\ Len(cond.reads) \in Nat
BY CondShape DEF IInv, ReadInv, TypeOK, AnyCond

\* All terms are there: what is not a constant of the solver has a value.
LEMMA SolverSatInv ==
  ASSUME IInv, SolverSat
  PROVE  IInv'
<1>1. /\ pc = "gen" /\ ~Reading /\ Running /\ TypeOK /\ GenInv
      /\ pc' = "fill" /\ todo' = Registered
      /\ UNCHANGED <<binding, seen, tests, cond, pos, lvl, symbolic, dead>>
  BY DEF IInv, SolverSat, Running, tree
<1>2. lvl = 0 /\ cond \in AnyCond /\ Len(cond.reads) \in Nat
  BY <1>1, NotReading
<1>3. PICK g \in Goals(cond.prob), m \in [Registered -> SolverInts \cup {0, 1}] :
        /\ Side(cond, TermVals(m)) = g /\ PreHolds(cond, TermVals(m))
        /\ model' = m /\ goal' = g
  BY DEF SolverSat
<1>4. g \in {"then", "else"} /\ m \in [Registered -> Int]
  <2>1. g \in {"then", "else"}
    BY DEF Goals
  <2>2. SolverInts \cup {0, 1} \subseteq Int
    BY ConcolicAssumption
  <2> QED
    BY <2>1, <2>2
<1>5. Registered' = Registered
  BY <1>1 DEF Registered
<1>6. pos = Len(cond.reads) + 1
  BY <1>1, <1>2 DEF Reading, Last, TypeOK
<1>7. Solved'
  <2>1. TermVals(model)' = TermVals(m)
    BY <1>1, <1>3 DEF TermVals
  <2>2. \A j \in (1 .. Len(cond.reads)) \ symbolic : cond.reads[j].sym \in DOMAIN binding
    BY <1>1, <1>2, <1>6 DEF GenInv
  <2> QED
    BY <1>1, <1>3, <1>4, <1>5, <2>1, <2>2 DEF Solved
<1>8. FillInv'
  <2>1. \A s \in Registered : s \notin DOMAIN binding /\ Live(binding, s)
    BY <1>1 DEF GenInv, Registered
  <2> QED
    BY <1>1, <1>5, <1>7, <2>1 DEF FillInv, FilledWith
<1>9. TypeOK'
  BY <1>1, <1>3, <1>4, <1>5 DEF TypeOK
<1>10. ReadInv'
  BY <1>1, <1>2, <1>6, StartReadInv
<1>11. Closed(binding)' /\ Faithful' /\ GenInv' /\ EvalInv' /\ QuietInv'
  BY <1>1 DEF IInv, Faithful, GenInv, EvalInv, QuietInv
<1> QED
  BY <1>7, <1>8, <1>9, <1>10, <1>11 DEF IInv

LEMMA SolverGivesUpInv ==
  ASSUME IInv, SolverGivesUp
  PROVE  IInv'
<1>1. /\ pc = "gen" /\ ~Reading /\ Running /\ pc' = "eval" /\ pos' = 1 /\ GenInv /\ goal = "none"
      /\ UNCHANGED <<binding, seen, tests, cond, lvl, symbolic, model, todo, dead, goal>>
  BY DEF IInv, SolverGivesUp, Running, tree, query, GenInv
<1>2. lvl = 0 /\ TypeOK /\ cond \in AnyCond /\ Len(cond.reads) \in Nat
  BY <1>1, NotReading
<1>3. ReadInv'
  BY <1>1, <1>2, StartReadInv
<1>4. TypeOK'
  BY <1>1, <1>2 DEF TypeOK, Registered
<1>5. Closed(binding)' /\ Faithful' /\ GenInv' /\ FillInv' /\ EvalInv' /\ QuietInv'
  BY <1>1 DEF IInv, Faithful, GenInv, FillInv, EvalInv, QuietInv
<1> QED
  BY <1>3, <1>4, <1>5 DEF IInv

\* A symbol of the solver's problem is filled once, and destroys no other.
LEMMA FillStepInv ==
  ASSUME IInv, NEW s \in todo, Fill(s)
  PROVE  IInv'
<1> DEFINE v == Wrap(s, model[s])
<1>1. /\ pc = "fill" /\ TypeOK /\ Running /\ dead = {} /\ FillInv /\ Solved /\ ~Reading
      /\ todo' = todo \ {s}
      /\ UNCHANGED <<seen, tests, cond, pos, lvl, symbolic, model, goal>>
  BY DEF IInv, Fill, Running, QuietInv, FillInv, Reading
<1>2. lvl = 0 /\ cond \in AnyCond
  BY <1>1, NotReading
<1>3. s \in Registered /\ s \in Sym /\ s \notin DOMAIN binding /\ Live(binding, s)
  <2>1. s \in Registered
    BY <1>1 DEF TypeOK
  <2>2. Registered \subseteq Sym
    BY <1>1, <1>2, CondShape DEF Registered, TypeOK
  <2> QED
    BY <1>1, <2>1, <2>2 DEF FillInv
<1>4. v \in Int
  <2>1. model[s] \in Int
    BY <1>1, <1>3 DEF Solved
  <2> QED
    BY <1>3, <2>1, WrapInt
<1>5. IsBinding(binding) /\ Closed(binding)
  BY DEF IInv, TypeOK
<1>6. dead' = {}
  <2>1. \A t \in Registered : t \in Sym /\ Live(binding, t)
    BY <1>1, <1>2, CondShape DEF Registered, TypeOK, FillInv
  <2>2. \A t \in Registered : ~Below(t, s)
    BY <1>3, <2>1, BelowUnbound
  <2> QED
    BY <1>1, <2>2 DEF Fill
<1>7. \/ pc' = "failed" /\ binding' = binding
      \/ pc' \in {"fill", "failed"} /\ binding' = Assign(binding, s, v)
  BY <1>1 DEF Fill
<1>8. /\ IsBinding(binding') /\ Closed(binding') /\ Extends(binding', binding)
      /\ pc' \in {"fill", "failed"}
      /\ pc' = "fill" => DOMAIN binding' = DOMAIN binding \cup {s} /\ binding'[s] = v
  <2>1. CASE pc' = "failed" /\ binding' = binding
    BY <1>5, <2>1 DEF Extends
  <2>2. CASE pc' \in {"fill", "failed"} /\ binding' = Assign(binding, s, v)
    <3> HIDE DEF v
    <3> QED
      BY <1>3, <1>4, <1>5, <2>2, AssignNew
  <2> QED
    BY <1>7, <2>1, <2>2
<1>9. Registered' = Registered /\ Solved'
  BY <1>1, <1>8, Grow
<1>10. Faithful'
  BY <1>1, <1>8, GrowSeen DEF IInv
<1>11. TypeOK'
  BY <1>1, <1>6, <1>8, <1>9 DEF TypeOK
<1>12. ReadInv'
  BY <1>1, <1>2, StartReadInv DEF TypeOK
<1>13. FillInv'
  <2> SUFFICES ASSUME pc' = "fill" PROVE FillInv'
    BY DEF FillInv
  <2>1. \A t \in Registered : Live(binding', t)
    BY <1>1, <1>8, LiveExtends DEF FillInv
  <2>2. \A t \in todo' : t \notin DOMAIN binding'
    BY <1>1, <1>8 DEF FillInv
  <2>3. ASSUME NEW t \in Registered \ todo'
        PROVE  t \in DOMAIN binding' /\ binding'[t] = Wrap(t, model[t])
    <3>1. CASE t = s
      BY <1>8, <3>1
    <3>2. CASE t # s
      BY <1>1, <1>8, <3>2 DEF FillInv, FilledWith, Extends
    <3> QED
      BY <3>1, <3>2
  <2> QED
    BY <1>1, <1>9, <2>1, <2>2, <2>3 DEF FillInv, FilledWith
<1>14. GenInv' /\ EvalInv' /\ QuietInv'
  BY <1>6, <1>8 DEF GenInv, EvalInv, QuietInv
<1> QED
  BY <1>8, <1>10, <1>11, <1>12, <1>13, <1>14 DEF IInv

LEMMA FillDoneInv ==
  ASSUME IInv, FillDone
  PROVE  IInv'
<1>1. /\ pc = "fill" /\ ~Reading /\ Running /\ todo = {} /\ pc' = "eval" /\ pos' = 1
      /\ FillInv /\ UNCHANGED <<binding, seen, tests, cond, lvl, symbolic, model, todo, dead, goal>>
  BY DEF IInv, FillDone, Running, Reading, tree, query
<1>2. lvl = 0 /\ TypeOK /\ cond \in AnyCond /\ Len(cond.reads) \in Nat
  BY <1>1, NotReading
<1>3. ReadInv'
  BY <1>1, <1>2, StartReadInv
<1>4. TypeOK' /\ Registered' = Registered
  BY <1>1, <1>2 DEF TypeOK, Registered
<1>5. EvalInv'
  <2>1. Solved'
    BY <1>1, <1>4 DEF FillInv, Solved, TermVals
  <2> QED
    BY <1>1, <1>4, <2>1 DEF FillInv, EvalInv, FilledWith
<1>6. Closed(binding)' /\ Faithful' /\ GenInv' /\ FillInv' /\ QuietInv'
  BY <1>1 DEF IInv, Faithful, GenInv, FillInv, QuietInv
<1> QED
  BY <1>3, <1>4, <1>5, <1>6 DEF IInv

\* A value generated at random: where control is does not matter.
LEMMA RandomStep ==
  ASSUME IInv, NEW s \in Sym, s \notin DOMAIN binding, Live(binding, s),
         NEW v \in RandOf(s), binding' = Assign(binding, s, v),
         UNCHANGED <<pc, seen, tests, cond, pos, lvl, query>>,
         pc \in {"eval", "gather"}
  PROVE  IInv' /\ Extends(binding', binding)
<1>1. IsBinding(binding) /\ Closed(binding) /\ TypeOK
  BY DEF IInv, TypeOK
<1>2. IsBinding(binding') /\ Closed(binding') /\ Extends(binding', binding)
  <2>1. v \in Int
    BY RandInt
  <2> QED
    BY <1>1, <2>1, AssignNew
<1>3. UNCHANGED <<symbolic, model, todo, dead, goal>>
  BY DEF query
<1>4. Registered' = Registered /\ (Solved => Solved')
  BY <1>1, <1>2, <1>3, Grow
<1>5. Faithful' /\ TypeOK'
  BY <1>1, <1>2, <1>3, <1>4, GrowSeen DEF IInv, TypeOK
<1>6. ReadInv'
  <2>1. Read' = Read /\ Reading' = Reading /\ Running
    BY <1>3 DEF Read, Reading, Last, Running
  <2> QED
    BY <1>2, <2>1, LiveExtends DEF IInv, ReadInv
<1>7. EvalInv'
  <2> SUFFICES ASSUME pc' = "eval", goal' # "none" PROVE Solved' /\ FilledWith(Registered)'
    BY DEF EvalInv
  <2>1. Solved /\ FilledWith(Registered)
    BY <1>3 DEF IInv, EvalInv
  <2> QED
    BY <1>2, <1>3, <1>4, <2>1 DEF FilledWith, Extends
<1>8. GenInv' /\ FillInv' /\ QuietInv'
  BY <1>3 DEF IInv, GenInv, FillInv, QuietInv, NoQuery
<1> QED
  BY <1>2, <1>5, <1>6, <1>7, <1>8 DEF IInv

LEMMA GenerateInv ==
  ASSUME IInv, Generate
  PROVE  IInv' /\ Extends(binding', binding)
<1>1. pc = "eval" /\ Reading /\ Arrived /\ TypeOK /\ ReadInv /\ Running
      /\ UNCHANGED <<pc, seen, tests, cond, pos, lvl, query>>
  BY DEF IInv, Generate, Running
<1>2. PICK s \in Needed(Read) : \E v \in RandOf(s) : binding' = Assign(binding, s, v)
  BY DEF Generate
<1>3. Read.sym \in Sym /\ Live(binding, Read.sym)
  BY <1>1, ReadShape
<1>4. s \in Sym /\ s \notin DOMAIN binding /\ Live(binding, s)
  BY <1>3, FrontierLive DEF Needed, IInv, TypeOK
<1> QED
  BY <1>1, <1>2, <1>4, RandomStep

LEMMA SerializeInv ==
  ASSUME IInv, Serialize
  PROVE  IInv' /\ Extends(binding', binding)
<1>1. pc = "gather" /\ UNCHANGED <<pc, seen, tests, cond, pos, lvl, query>>
  BY DEF Serialize
<1>2. PICK i \in Inputs : \E s \in Frontier(binding, Root(i)) : \E v \in RandOf(s) :
        binding' = Assign(binding, s, v)
  BY DEF Serialize
<1> PICK s \in Frontier(binding, Root(i)) : \E v \in RandOf(s) : binding' = Assign(binding, s, v)
  BY <1>2
<1>3. s \in Sym /\ s \notin DOMAIN binding /\ Live(binding, s)
  BY RootLive, FrontierLive DEF IInv, TypeOK
<1> QED
  BY <1>1, <1>2, <1>3, RandomStep

\* What the program is given is what the symbols hold.
LEMMA ObserveInv ==
  ASSUME IInv, Observe
  PROVE  IInv'
<1>1. /\ pc = "eval" /\ Reading /\ Running /\ TypeOK /\ ReadInv
      /\ seen' = seen \cup {<<s, binding[s]>> : s \in Given(Read)}
      /\ pos' = pos + 1 /\ lvl' = 0
      /\ UNCHANGED <<pc, binding, tests, cond, symbolic, model, todo, dead, goal>>
  BY DEF IInv, Observe, Running, query
<1>2. pos \in 1 .. Len(cond.reads) /\ cond \in AnyCond /\ Len(cond.reads) \in Nat
  BY <1>1, ReadShape, CondShape DEF TypeOK, AnyCond
<1>3. pos' \in 1 .. Len(cond.reads) + 1
  BY <1>1, <1>2
<1>4. Registered' = Registered /\ TermVals(model)' = TermVals(model)
  BY <1>1 DEF Registered, TermVals
<1>5. TypeOK'
  <2>1. seen' \subseteq Sym \X Int
    BY <1>1 DEF TypeOK, IsBinding, Given
  <2> QED
    BY <1>1, <1>3, <1>4, <2>1 DEF TypeOK
<1>6. Faithful'
  BY <1>1 DEF IInv, Faithful, Given
<1>7. ReadInv'
  BY <1>1, <1>2, <1>3, StartReadInv
<1>8. EvalInv'
  BY <1>1, <1>4 DEF IInv, EvalInv, Solved, FilledWith
<1>9. Closed(binding)' /\ GenInv' /\ FillInv' /\ QuietInv'
  BY <1>1 DEF IInv, GenInv, FillInv, QuietInv
<1> QED
  BY <1>5, <1>6, <1>7, <1>8, <1>9 DEF IInv

LEMMA ResumeInv ==
  ASSUME IInv, Resume
  PROVE  IInv'
<1>1. /\ pc = "eval" /\ ~Reading /\ Running /\ pc' = "run" /\ cond' = NoCond /\ pos' = 1
      /\ NoQuery' /\ UNCHANGED <<binding, seen, tests, lvl>>
  BY DEF Resume, Running, tree, NoQuery
<1>2. lvl = 0 /\ TypeOK
  BY <1>1, NotReading
<1>3. NoCond \in AnyCond /\ NoCond.reads = <<>> /\ Registered' = {}
  BY <1>1 DEF AnyCond, NoCond, Registered, NoQuery
<1>4. ReadInv'
  BY <1>1, <1>2, <1>3, StartReadInv
<1>5. TypeOK'
  BY <1>1, <1>2, <1>3 DEF TypeOK, NoQuery, NoBinding
<1>6. Closed(binding)' /\ Faithful' /\ GenInv' /\ FillInv' /\ EvalInv' /\ QuietInv'
  BY <1>1 DEF IInv, Faithful, GenInv, FillInv, EvalInv, QuietInv, NoQuery
<1> QED
  BY <1>4, <1>5, <1>6 DEF IInv

\* Between callbacks nothing of a query is left.
LEMMA QuietStep ==
  ASSUME IInv, UNCHANGED <<cond, pos, lvl, query>>,
         pc \in {"run", "gather", "reset"},
         pc' \in {"run", "gather", "reset", "done"},
         IsBinding(binding'), Closed(binding'), Faithful',
         seen' \subseteq Sym \X Int,
         tests' \in Seq({tests'[k] : k \in DOMAIN tests'}),
         \A k \in DOMAIN tests' : IsBinding(tests'[k])
  PROVE  IInv'
<1>1. lvl = 0 /\ TypeOK /\ cond \in AnyCond /\ NoQuery /\ dead = {} /\ pos = 1
  BY NotReading DEF Running, Reading, IInv, QuietInv
<1>2. Registered' = Registered /\ UNCHANGED <<symbolic, model, todo, dead, goal>>
  BY DEF Registered, query
<1>3. TypeOK'
  BY <1>1, <1>2 DEF TypeOK
<1>4. ReadInv'
  BY <1>1, <1>2, StartReadInv DEF TypeOK
<1>5. GenInv' /\ FillInv' /\ EvalInv' /\ QuietInv'
  BY <1>1, <1>2 DEF GenInv, FillInv, EvalInv, QuietInv, NoQuery
<1> QED
  BY <1>3, <1>4, <1>5 DEF IInv

LEMMA ReturnInv ==
  ASSUME IInv, Return
  PROVE  IInv'
BY QuietStep DEF IInv, TypeOK, Return, tree, Faithful

LEMMA EmitInv ==
  ASSUME IInv, Emit
  PROVE  IInv'
<1>1. /\ pc = "gather" /\ pc' = "reset" /\ tests' = Append(tests, binding)
      /\ UNCHANGED <<binding, seen, cond, pos, lvl, query>>
  BY DEF Emit
<1>2. IsBinding(binding) /\ TypeOK
  BY DEF IInv, TypeOK
<1> DEFINE S == {tests[k] : k \in DOMAIN tests}
<1>3. tests \in Seq(S) /\ \A e \in S : IsBinding(e)
  BY <1>2 DEF TypeOK
<1>4. tests' \in Seq(S \cup {binding}) /\ \A e \in S \cup {binding} : IsBinding(e)
  BY <1>1, <1>2, <1>3
<1> HIDE DEF S
<1>5. \A k \in DOMAIN tests' : IsBinding(tests'[k])
  BY <1>4
<1>6. tests' \in Seq({tests'[k] : k \in DOMAIN tests'})
  BY <1>4
<1> QED
  BY <1>1, <1>2, <1>5, <1>6, QuietStep DEF IInv, TypeOK, Faithful

LEMMA ResetInv ==
  ASSUME IInv, Reset
  PROVE  IInv'
<1>1. /\ pc = "reset" /\ pc' \in {"run", "done"} /\ binding' = NoBinding /\ seen' = {}
      /\ UNCHANGED <<tests, cond, pos, lvl, query>>
  BY DEF Reset
<1>2. IsBinding(NoBinding) /\ Closed(NoBinding)
  BY DEF IsBinding, Closed, NoBinding
<1> QED
  BY <1>1, <1>2, QuietStep DEF IInv, TypeOK, Faithful

LEMMA StutterInv ==
  ASSUME IInv, UNCHANGED vars
  PROVE  IInv'
<1>1. UNCHANGED <<pc, binding, seen, tests, cond, pos, lvl, symbolic, model, todo, dead, goal>>
  BY DEF vars, tree, query
<1>2. /\ Registered' = Registered /\ TermVals(model)' = TermVals(model)
      /\ Read' = Read /\ Reading' = Reading
  BY <1>1 DEF Registered, TermVals, Read, Reading, Last
<1>3. Solved' = Solved
  BY <1>1, <1>2 DEF Solved
<1>4. TypeOK' /\ Faithful' /\ ReadInv' /\ Closed(binding)'
  BY <1>1, <1>2 DEF IInv, TypeOK, Faithful, ReadInv, Running
<1>5. GenInv' /\ FillInv' /\ EvalInv' /\ QuietInv'
  BY <1>1, <1>2, <1>3 DEF IInv, GenInv, FillInv, EvalInv, QuietInv, NoQuery, FilledWith
<1> QED
  BY <1>4, <1>5 DEF IInv

LEMMA NextInv ==
  ASSUME AllLenSafe, IInv, [Next]_vars
  PROVE  IInv'
<1>1. CASE \E r \in Accesses : Access(r)
  BY <1>1, AccessInv
<1>2. CASE \E c \in Conds : Branch(c)
  BY <1>2, BranchInv
<1>3. CASE Callback
  BY <1>3, DescendInv, GenReadInv, SolverSatInv, SolverGivesUpInv, FillStepInv,
     FillDoneInv, GenerateInv, ObserveInv, ResumeInv DEF Callback
<1>4. CASE Return
  BY <1>4, ReturnInv
<1>5. CASE Finish
  BY <1>5, SerializeInv, EmitInv, ResetInv DEF Finish
<1>6. CASE UNCHANGED vars
  BY <1>6, StutterInv
<1> QED
  BY <1>1, <1>2, <1>3, <1>4, <1>5, <1>6 DEF Next, Stutter

-----------------------------------------------------------------------------
\* The inductive invariant holds of every program whose branches are LenSafe.
THEOREM Invariance ==
  ASSUME AllLenSafe
  PROVE  Spec => []IInv
BY InitInv, NextInv, PTL DEF Spec

\* The variables of the callbacks keep their types: the cleared
\* syms_to_expr_id, the current read, the values of the symbols.
THEOREM TypeCorrect ==
  ASSUME AllLenSafe
  PROVE  Spec => []TypeOK
<1>1. IInv => TypeOK
  BY DEF IInv
<1> QED
  BY <1>1, Invariance, PTL

\* No value is ever bound to an element that get_symbol_by_idxs would not reach.
THEOREM TreeClosed ==
  ASSUME AllLenSafe
  PROVE  Spec => []BoundInTree
<1>1. IInv => BoundInTree
  BY DEF IInv, BoundInTree
<1> QED
  BY <1>1, Invariance, PTL

\* The values the program was given are those that serialize writes.
THEOREM TestsFaithful ==
  ASSUME AllLenSafe
  PROVE  Spec => []Faithful
<1>1. IInv => Faithful
  BY DEF IInv
<1> QED
  BY <1>1, Invariance, PTL

\* The loop over syms_to_expr_id never meets a symbol that init_arr destroyed.
THEOREM NeverDangling ==
  ASSUME AllLenSafe
  PROVE  Spec => []NoDangling
<1>1. IInv => NoDangling
  BY DEF IInv, QuietInv, NoDangling
<1> QED
  BY <1>1, Invariance, PTL

\* A model whose values survive fill_val's narrowing sends the branch the way
\* the solver was asked for, with the precondition true.
THEOREM SolvedBranchHonoured ==
  ASSUME AllLenSafe
  PROVE  Spec => []BranchHonoured
<1>1. ASSUME IInv PROVE BranchHonoured
  <2> SUFFICES ASSUME pc = "eval", goal # "none", ModelFits
               PROVE  Side(cond, ReadVals) = goal /\ PreHolds(cond, ReadVals)
    BY DEF BranchHonoured
  <2>1. Solved /\ FilledWith(Registered)
    BY <1>1 DEF IInv, EvalInv
  <2>2. \A s \in Registered : binding[s] = model[s]
    BY <2>1 DEF FilledWith, ModelFits
  <2>3. TermVals(model) = ReadVals
    BY <2>2 DEF TermVals, ReadVals, Registered
  <2> QED
    BY <2>1, <2>3 DEF Solved
<1> QED
  BY <1>1, Invariance, PTL

-----------------------------------------------------------------------------
\* Descend is the only step to undefined behaviour, and it has just followed the
\* negative index: a symbol that is filled is never a destroyed one.
LEMMA UndefinedStep ==
  ASSUME IInv, UndefinedBelowZero, [Next]_vars
  PROVE  UndefinedBelowZero'
<1> SUFFICES ASSUME pc' = "undefined"
             PROVE  lvl' > 0 /\ Read'.sym.path[lvl'] < 0
  BY DEF UndefinedBelowZero
<1>1. lvl \in Nat
  BY DEF IInv, TypeOK
<1>2. CASE Descend
  <2>1. lvl' = lvl + 1 /\ Read' = Read
    BY <1>2 DEF Descend, Read
  <2>2. Read.sym.path[lvl + 1] < 0
    <3>1. PICK n : pc' = IF Read.sym.path[lvl + 1] >= n THEN "failed"
                         ELSE IF Read.sym.path[lvl + 1] < 0 THEN "undefined" ELSE pc
      BY <1>2 DEF Descend
    <3>2. pc # "undefined"
      BY <1>2 DEF Descend, Reading
    <3> QED
      BY <3>1, <3>2
  <2> QED
    BY <1>1, <2>1, <2>2
<1>3. ASSUME NEW s \in todo, Fill(s) PROVE FALSE
  <2>1. dead = {}
    BY DEF IInv, QuietInv
  <2> QED
    BY <1>3, <2>1 DEF Fill
<1>4. CASE UNCHANGED vars
  BY <1>4 DEF UndefinedBelowZero, Read, vars, tree, query
<1>5. (\E r \in Accesses : Access(r)) \/ (\E c \in Conds : Branch(c)) \/ Return => FALSE
  BY DEF Access, Branch, Return
<1>6. GenRead \/ SolverSat \/ SolverGivesUp \/ FillDone \/ Generate \/ Observe \/ Resume => FALSE
  BY DEF GenRead, SolverSat, SolverGivesUp, FillDone, Generate, Observe, Resume
<1>7. Finish => FALSE
  BY DEF Finish, Serialize, Emit, Reset
<1> QED
  BY <1>2, <1>3, <1>4, <1>5, <1>6, <1>7 DEF Next, Callback, Stutter

\* get_symbol_by_idxs with an index below zero is the only undefined behaviour.
THEOREM OnlyBelowZero ==
  ASSUME AllLenSafe
  PROVE  Spec => []UndefinedBelowZero
<1>1. Init => UndefinedBelowZero
  BY DEF Init, UndefinedBelowZero
<1> QED
  BY <1>1, UndefinedStep, Invariance, PTL DEF Spec

-----------------------------------------------------------------------------
\* One step within a test only adds values.
LEMMA StepExtends ==
  ASSUME AllLenSafe, IInv, [Next]_vars, pc # "reset"
  PROVE  Extends(binding', binding)
<1>1. CASE UNCHANGED binding
  BY <1>1 DEF Extends
<1>2. CASE Descend
  <2> DEFINE a == Up(Read.sym, lvl)
  <2>1. TypeOK /\ ReadInv /\ Running /\ Reading
    BY <1>2 DEF IInv, Descend, Running, Reading
  <2>2. Read.sym \in Sym /\ lvl \in 0 .. Len(Read.sym.path) /\ Live(binding, a)
    BY <2>1, ReadShape
  <2>3. a \in Sym
    BY <2>2, UpType
  <2>4. CASE a \in DOMAIN binding
    BY <1>1, <1>2, <2>4 DEF Descend
  <2>5. CASE a \notin DOMAIN binding
    <3>1. PICK n \in RandLens : binding' = Assign(binding, a, n)
      BY <1>2, <2>5 DEF Descend
    <3>2. n \in Int
      BY TreeAssumption
    <3> HIDE DEF a
    <3> QED
      BY <2>2, <2>3, <2>5, <3>1, <3>2, AssignNew DEF IInv, TypeOK
  <2> QED
    BY <2>4, <2>5
<1>3. ASSUME NEW s \in todo, Fill(s)
      PROVE  Extends(binding', binding)
  <2>1. s \in Registered /\ s \notin DOMAIN binding /\ Live(binding, s) /\ Solved
        /\ cond \in AnyCond
    BY <1>3 DEF Fill, IInv, FillInv, TypeOK, AnyCond
  <2>2. s \in Sym /\ model[s] \in Int
    BY <2>1, CondShape DEF Registered, Solved, IInv, TypeOK
  <2>3. Wrap(s, model[s]) \in Int
    BY <2>2, WrapInt
  <2>4. CASE binding' = binding
    BY <1>1, <2>4
  <2>5. CASE binding' = Assign(binding, s, Wrap(s, model[s]))
    BY <2>1, <2>2, <2>3, <2>5, AssignNew DEF IInv, TypeOK
  <2> QED
    BY <1>3, <2>4, <2>5 DEF Fill
<1>4. CASE Generate \/ Serialize
  BY <1>4, GenerateInv, SerializeInv
<1>5. CASE ~ (Descend \/ Generate \/ Serialize \/ \E s \in todo : Fill(s))
  <2>1. UNCHANGED binding
    BY <1>5 DEF Next, Callback, Finish, Access, Branch, GenRead, SolverSat, SolverGivesUp,
       FillDone, Observe, Resume, Return, Emit, Reset, Stutter, vars, tree
  <2> QED
    BY <1>1, <2>1
<1> QED
  BY <1>2, <1>3, <1>4, <1>5

\* A symbol is bound once per test: no callback changes or drops its value.
THEOREM BoundOnce ==
  ASSUME AllLenSafe
  PROVE  Spec => BindingsStick
<1>1. ASSUME IInv, [Next]_vars
      PROVE  [pc # "reset" => Extends(binding', binding)]_vars
  BY <1>1, StepExtends
<1> QED
  BY <1>1, Invariance, PTL DEF Spec, BindingsStick

\* The operators of the abstract specification are those of this one.
LEMMA OracleOps ==
  /\ \A b, c : Oracle!Extends(c, b) <=> Extends(c, b)
  /\ \A b : Oracle!Complete(b) <=> Complete(b)
  /\ Oracle!NoBinding = NoBinding
BY DEF Oracle!Extends, Extends, Oracle!Complete, Complete, Oracle!Frontier, Frontier,
       Oracle!Elements, Elements, Oracle!IsArray, IsArray, Oracle!Below, Below,
       Oracle!Up, Up, Oracle!Root, Root, Oracle!NoBinding, NoBinding

\* A step of a callback learns values, or nothing; Emit and Reset are themselves.
LEMMA OracleStep ==
  ASSUME AllLenSafe, IInv, [Next]_vars
  PROVE  [Oracle!Next]_Oracle!vars
<1> USE DEF Oracle!vars, Oracle!Next
<1>1. CASE Emit
  BY <1>1, OracleOps DEF Emit, Oracle!Emit
<1>2. CASE Reset
  <2>1. pc = "reset" /\ pc' # "reset" /\ binding' = NoBinding /\ tests' = tests
    BY <1>2 DEF Reset
  <2> QED
    BY <2>1, OracleOps DEF Oracle!Forget
<1>3. CASE UNCHANGED vars
  BY <1>3 DEF vars, tree
<1>4. CASE Next /\ ~Emit /\ ~Reset /\ ~UNCHANGED vars
  <2>1. pc # "reset" /\ pc' # "reset" /\ tests' = tests
    BY <1>4 DEF Next, Callback, Finish, Access, Branch, Descend, GenRead, SolverSat,
       SolverGivesUp, Fill, FillDone, Generate, Observe, Resume, Return, Serialize, Stutter,
       Reading, tree
  <2>2. Extends(binding', binding)
    BY <2>1, StepExtends
  <2> QED
    BY <2>1, <2>2, OracleOps DEF Oracle!Learn
<1> QED
  BY <1>1, <1>2, <1>3, <1>4

\* Whatever the program reads and whatever the solver answers, the tests are
\* those of an oracle that gives each value once, writes complete tests and
\* forgets everything between them.
THEOREM Refinement ==
  ASSUME AllLenSafe
  PROVE  Spec => RefinesOracle
<1>1. Init => Oracle!Init
  BY OracleOps DEF Init, Oracle!Init
<1> QED
  BY <1>1, OracleStep, Invariance, PTL DEF Spec, RefinesOracle, Oracle!Spec
=============================================================================
