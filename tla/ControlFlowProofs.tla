-------------------------- MODULE ControlFlowProofs --------------------------
(***************************************************************************)
(* Proofs about ControlFlow, for every program: the jumps that are left    *)
(* have their loops, no instruction follows one that ends its block, and   *)
(* the compiled function does what the source program does.                *)
(*                                                                         *)
(* The second argument is about the insertion point.  A block it is moved  *)
(* to was created empty and belongs to one pending call only; it is closed *)
(* by a jump, a jump that is not cut is the last statement of its body,    *)
(* and is_last_stmt_br is true of such a body, so that the call pending    *)
(* under it leaves the closed block alone.                                 *)
(*                                                                         *)
(* The third one labels every block with what the program does next in     *)
(* front of it, and shows that the instructions go from label to label.    *)
(* At the insertion point the program does what the calls in progress have *)
(* still to compile, and an open block that is gone to is one of theirs:   *)
(* the merge block of an if whose branches jump is left open, and nothing  *)
(* goes to it.                                                             *)
(***************************************************************************)
EXTENDS ControlFlow, SequenceTheorems, Induction, TLAPS

-----------------------------------------------------------------------------
(* The jumps and their loops.                                              *)

LoopJumps == {"break", "continue"}

LinkInv ==
  /\ pc \in {"connect", "eliminate"} => ast = prog
  /\ pc = "eliminate" =>
       \A p \in DOMAIN ast :
         ast[p].op \in LoopJumps /\ ~After(p, LoopJumps) => p \in DOMAIN link /\ link[p] = Innermost(p)
  /\ Connected

\* What comes after a break or continue comes after a jump.
LEMMA AfterJump ==
  ASSUME NEW p, After(p, LoopJumps)
  PROVE  After(p, Jumps)
BY DEF After, LoopJumps, Jumps

LEMMA LinkStep ==
  ASSUME LinkInv, [Next]_vars
  PROVE  LinkInv'
<1>1. CASE ConnectLoops
  <2> DEFINE visited == {p \in DOMAIN ast : ast[p].op \in LoopJumps /\ ~After(p, LoopJumps)}
  <2>1. /\ pc = "connect" /\ UNCHANGED <<prog, ast>> /\ ast = prog
        /\ \/ pc' = "error"
           \/ pc' = "eliminate" /\ link' = [p \in visited |-> Innermost(p)]
    BY <1>1 DEF ConnectLoops, LinkInv, LoopJumps
  <2>2. \A p : Innermost(p)' = Innermost(p) /\ After(p, LoopJumps)' = After(p, LoopJumps)
    BY <2>1 DEF Innermost, Loops, After
  <2> QED
    BY <2>1, <2>2 DEF LinkInv, Connected
<1>2. CASE Eliminate
  <2>1. /\ pc = "eliminate" /\ pc' = "codegen" /\ UNCHANGED <<prog, link>>
        /\ ast' = [p \in {q \in DOMAIN ast : ~After(q, Jumps)} |-> ast[p]]
    BY <1>2 DEF Eliminate, Restrict, passes
  <2>2. \A p : Innermost(p)' = Innermost(p)
    BY <2>1 DEF Innermost, Loops
  <2>3. ASSUME NEW p \in DOMAIN ast', ast'[p].op \in LoopJumps
        PROVE  p \in DOMAIN link /\ link[p] = Innermost(p)
    <3>1. p \in DOMAIN ast /\ ast[p].op \in LoopJumps /\ ~After(p, LoopJumps)
      BY <2>1, <2>3, AfterJump
    <3> QED
      BY <2>1, <3>1 DEF LinkInv
  <2> QED
    BY <2>1, <2>2, <2>3 DEF LinkInv, Connected, LoopJumps
<1>3. ASSUME UNCHANGED passes, pc' # "connect", pc' # "eliminate",
             pc' = "codegen" => pc = "codegen"
      PROVE  LinkInv'
  <2>1. \A p : Innermost(p)' = Innermost(p)
    BY <1>3 DEF Innermost, Loops, passes
  <2> QED
    BY <1>3, <2>1 DEF LinkInv, Connected, passes
<1>4. CASE Codegen
  <2>1. pc = "codegen" /\ UNCHANGED passes /\ pc' \in {"codegen", "undefined"}
    BY <1>4 DEF Codegen, GenSimple, GenJump, GenIf, EndThen, EndElse, GenFor, EndLoop, EndBody,
       Generating
  <2> QED
    BY <1>3, <2>1
<1>5. CASE CallFunction \/ TakeBr \/ Execute \/ Finish
  BY <1>3, <1>5 DEF CallFunction, TakeBr, Execute, Finish
<1>6. CASE UNCHANGED vars
  <2>1. \A p : Innermost(p)' = Innermost(p) /\ After(p, LoopJumps)' = After(p, LoopJumps)
    BY <1>6 DEF Innermost, Loops, After, vars, passes
  <2> QED
    BY <1>6, <2>1 DEF LinkInv, Connected, vars, passes
<1> QED
  BY <1>1, <1>2, <1>4, <1>5, <1>6 DEF Next, Stutter

\* Whatever the program, the code of a break or continue goes to the loop that
\* it stands in: no uninitialized loop is used.
THEOREM JumpsConnected == Spec => []Connected
<1>1. Init => LinkInv
  BY DEF Init, LinkInv, Connected
<1>2. LinkInv => Connected
  BY DEF LinkInv
<1> QED
  BY <1>1, <1>2, LinkStep, PTL DEF Spec

-----------------------------------------------------------------------------
(* Sequences of anything.                                                  *)

IsSeq(s) == s \in Seq({s[i] : i \in DOMAIN s})

LEMMA SeqFacts ==
  ASSUME NEW s, IsSeq(s)
  PROVE  Len(s) \in Nat /\ DOMAIN s = 1 .. Len(s)
BY DEF IsSeq

LEMMA IsSeqOf ==
  ASSUME NEW S, NEW s \in Seq(S)
  PROVE  IsSeq(s)
<1>1. \A i \in 1 .. Len(s) : s[i] \in {s[j] : j \in DOMAIN s}
  OBVIOUS
<1> QED
  BY <1>1 DEF IsSeq

LEMMA AppendFacts ==
  ASSUME NEW s, IsSeq(s), NEW x
  PROVE  /\ IsSeq(Append(s, x)) /\ Len(Append(s, x)) = Len(s) + 1
         /\ \A i \in 1 .. Len(s) : Append(s, x)[i] = s[i]
         /\ Append(s, x)[Len(s) + 1] = x
<1> DEFINE S == {s[i] : i \in DOMAIN s} \cup {x}
<1>1. s \in Seq(S) /\ x \in S
  <2>1. \A i \in 1 .. Len(s) : s[i] \in S
    BY SeqFacts
  <2> QED
    BY <2>1 DEF IsSeq
<1> HIDE DEF S
<1>2. Append(s, x) \in Seq(S)
  BY <1>1
<1>3. IsSeq(Append(s, x))
  BY <1>2, IsSeqOf
<1> QED
  BY <1>1, <1>3

LEMMA ConcatFacts ==
  ASSUME NEW s, NEW t, IsSeq(s), IsSeq(t)
  PROVE  /\ IsSeq(s \o t) /\ Len(s \o t) = Len(s) + Len(t)
         /\ \A i \in 1 .. Len(s) : (s \o t)[i] = s[i]
         /\ \A i \in 1 .. Len(t) : (s \o t)[Len(s) + i] = t[i]
<1> DEFINE S == {s[i] : i \in DOMAIN s} \cup {t[i] : i \in DOMAIN t}
<1>1. s \in Seq(S) /\ t \in Seq(S)
  <2>1. (\A i \in 1 .. Len(s) : s[i] \in S) /\ (\A i \in 1 .. Len(t) : t[i] \in S)
    BY SeqFacts
  <2> QED
    BY <2>1 DEF IsSeq
<1> HIDE DEF S
<1>2. s \o t \in Seq(S) /\ Len(s \o t) = Len(s) + Len(t)
  BY <1>1
<1>3. IsSeq(s \o t)
  BY <1>2, IsSeqOf
<1>4. \A i \in 1 .. Len(s) + Len(t) : (s \o t)[i] = IF i <= Len(s) THEN s[i] ELSE t[i - Len(s)]
  BY <1>1, ConcatProperties
<1>5. Len(s) \in Nat /\ Len(t) \in Nat
  BY <1>1
<1> QED
  BY <1>2, <1>3, <1>4, <1>5

-----------------------------------------------------------------------------
(* Blocks.                                                                 *)

Ends == {"br", "cond", "return"}
Open(s) == \A i \in DOMAIN s : s[i].ev \notin Ends
WellEnded(s) == \A i \in DOMAIN s : s[i].ev \in Ends => i = Len(s)

BlocksOK(bl) ==
  IsSeq(bl) /\ \A b \in DOMAIN bl : IsSeq(bl[b]) /\ WellEnded(bl[b])

LEMMA EmptyBlock == IsSeq(<<>>) /\ Open(<<>>) /\ WellEnded(<<>>)
BY DEF IsSeq, Open, WellEnded

LEMMA AppendOpen ==
  ASSUME NEW s, IsSeq(s), Open(s), NEW x
  PROVE  /\ IsSeq(Append(s, x)) /\ WellEnded(Append(s, x))
         /\ x.ev \notin Ends => Open(Append(s, x))
<1>1. DOMAIN s = 1 .. Len(s) /\ Len(s) \in Nat
  BY SeqFacts
<1>2. /\ IsSeq(Append(s, x)) /\ Len(Append(s, x)) = Len(s) + 1
      /\ \A i \in 1 .. Len(s) : Append(s, x)[i] = s[i]
      /\ Append(s, x)[Len(s) + 1] = x
  BY AppendFacts
<1>3. DOMAIN Append(s, x) = 1 .. Len(s) + 1
  BY <1>2, SeqFacts
<1>4. \A i \in 1 .. Len(s) + 1 : i \in 1 .. Len(s) \/ i = Len(s) + 1
  BY <1>1
<1> QED
  BY <1>1, <1>2, <1>3, <1>4 DEF Open, WellEnded

\* One block in place of another.
LEMMA ReplaceFacts ==
  ASSUME NEW bl, BlocksOK(bl), NEW c \in DOMAIN bl, NEW t, IsSeq(t), WellEnded(t)
  PROVE  LET e == [bl EXCEPT ![c] = t]
         IN  /\ BlocksOK(e) /\ DOMAIN e = DOMAIN bl /\ Len(e) = Len(bl) /\ e[c] = t
             /\ \A b \in DOMAIN bl : b # c => e[b] = bl[b]
<1> DEFINE e == [bl EXCEPT ![c] = t]
           S == {bl[i] : i \in DOMAIN bl} \cup {t}
<1>1. DOMAIN bl = 1 .. Len(bl) /\ Len(bl) \in Nat
  BY SeqFacts DEF BlocksOK
<1>2. bl \in Seq(S) /\ t \in S
  <2>1. \A i \in 1 .. Len(bl) : bl[i] \in S
    BY <1>1
  <2> QED
    BY <2>1 DEF BlocksOK, IsSeq
<1> HIDE DEF S
<1>3. e \in Seq(S) /\ Len(e) = Len(bl) /\ \A i \in 1 .. Len(bl) : e[i] = IF i = c THEN t ELSE bl[i]
  BY <1>1, <1>2, ExceptSeq
<1> HIDE DEF e
<1>4. IsSeq(e) /\ DOMAIN e = DOMAIN bl
  BY <1>1, <1>3, IsSeqOf, SeqFacts
<1>5. e[c] = t /\ \A b \in DOMAIN bl : b # c => e[b] = bl[b]
  BY <1>1, <1>3
<1>6. BlocksOK(e)
  BY <1>4, <1>5 DEF BlocksOK
<1> QED
  BY <1>3, <1>4, <1>5, <1>6 DEF e

\* Emitting an instruction changes one block, which must be open.
LEMMA EmitFacts ==
  ASSUME BlocksOK(blocks), NEW c \in DOMAIN blocks, Open(blocks[c]), NEW ins
  PROVE  /\ BlocksOK(Emit(c, ins)) /\ DOMAIN Emit(c, ins) = DOMAIN blocks
         /\ Len(Emit(c, ins)) = Len(blocks)
         /\ \A b \in DOMAIN blocks : b # c => Emit(c, ins)[b] = blocks[b]
         /\ ins.ev \notin Ends => Open(Emit(c, ins)[c])
<1> DEFINE t == Append(blocks[c], ins)
<1>1. IsSeq(t) /\ WellEnded(t) /\ (ins.ev \notin Ends => Open(t))
  BY AppendOpen DEF BlocksOK
<1>2. Emit(c, ins) = [blocks EXCEPT ![c] = t]
  BY DEF Emit
<1> HIDE DEF t
<1>3. /\ BlocksOK(Emit(c, ins)) /\ DOMAIN Emit(c, ins) = DOMAIN blocks
      /\ Len(Emit(c, ins)) = Len(blocks) /\ Emit(c, ins)[c] = t
      /\ \A b \in DOMAIN blocks : b # c => Emit(c, ins)[b] = blocks[b]
  <2> DEFINE e == [blocks EXCEPT ![c] = t]
  <2>1. /\ BlocksOK(e) /\ DOMAIN e = DOMAIN blocks /\ Len(e) = Len(blocks) /\ e[c] = t
        /\ \A b \in DOMAIN blocks : b # c => e[b] = blocks[b]
    BY <1>1, ReplaceFacts, Zenon
  <2> QED
    BY <1>2, <2>1, Zenon
<1> QED
  BY <1>1, <1>3

\* New blocks behind the others.
LEMMA NewBlocks ==
  ASSUME NEW bl, NEW new, BlocksOK(bl), BlocksOK(new)
  PROVE  /\ BlocksOK(bl \o new) /\ Len(bl \o new) = Len(bl) + Len(new)
         /\ Len(bl) \in Nat /\ DOMAIN bl = 1 .. Len(bl) /\ DOMAIN bl \subseteq DOMAIN (bl \o new)
         /\ \A b \in DOMAIN bl : (bl \o new)[b] = bl[b]
         /\ \A i \in 1 .. Len(new) : Len(bl) + i \in DOMAIN (bl \o new) /\ (bl \o new)[Len(bl) + i] = new[i]
<1> DEFINE e == bl \o new
<1>1. /\ IsSeq(e) /\ Len(e) = Len(bl) + Len(new)
      /\ \A i \in 1 .. Len(bl) : e[i] = bl[i]
      /\ \A i \in 1 .. Len(new) : e[Len(bl) + i] = new[i]
  BY ConcatFacts DEF BlocksOK
<1>2. /\ DOMAIN bl = 1 .. Len(bl) /\ DOMAIN new = 1 .. Len(new) /\ DOMAIN e = 1 .. Len(e)
      /\ Len(bl) \in Nat /\ Len(new) \in Nat
  BY <1>1, SeqFacts DEF BlocksOK
<1> HIDE DEF e
<1>3. ASSUME NEW b \in DOMAIN e PROVE IsSeq(e[b]) /\ WellEnded(e[b])
  <2>1. CASE b \in 1 .. Len(bl)
    BY <1>1, <1>2, <2>1 DEF BlocksOK
  <2>2. CASE b \notin 1 .. Len(bl)
    <3>1. b - Len(bl) \in 1 .. Len(new) /\ b = Len(bl) + (b - Len(bl))
      BY <1>1, <1>2, <2>2
    <3>2. e[b] = new[b - Len(bl)]
      BY <1>1, <3>1
    <3> QED
      BY <1>2, <3>1, <3>2 DEF BlocksOK
  <2> QED
    BY <2>1, <2>2
<1>4. BlocksOK(e)
  BY <1>1, <1>3 DEF BlocksOK
<1>5. /\ DOMAIN bl \subseteq DOMAIN e
      /\ \A i \in 1 .. Len(new) : Len(bl) + i \in DOMAIN e
  BY <1>1, <1>2
<1> QED
  BY <1>1, <1>2, <1>4, <1>5 DEF e

-----------------------------------------------------------------------------
(* The calls in progress.                                                  *)

Paths == Seq(Nat)
Frame == [do : {"body", "then", "else", "loop"}, at : Paths, n : Nat]

\* A body is that of the statement whose call is under it.
Under(fr, top) ==
  \/ fr.do \in {"then", "loop"} /\ top.at = fr.at \o <<1>>
  \/ fr.do = "else" /\ top.at = fr.at \o <<2>>

FrameOK(fr, first) ==
  IF fr.do = "body" THEN Len(fr.at) % 2 = 0 /\ fr.n >= 1
  ELSE Len(fr.at) % 2 = 1 /\ fr.at \in DOMAIN first /\ first[fr.at] \in Nat

StackOK(w, first) ==
  /\ w \in Seq(Frame)
  /\ \A i \in 1 .. Len(w) : FrameOK(w[i], first)
  /\ \A i, j \in 1 .. Len(w) : i <= j => Len(w[i].at) <= Len(w[j].at)
  /\ \A i \in 2 .. Len(w) : w[i].do = "body" => Under(w[i - 1], w[i])

\* The blocks that the call fr will move the insertion point to.
Pending(fr, first) ==
  CASE fr.do = "then" -> {first[fr.at] + 1, first[fr.at] + 2}
    [] fr.do \in {"else", "loop"} -> {first[fr.at] + 2}
    [] OTHER -> {}

LEMMA Parity ==
  ASSUME NEW k \in Nat
  PROVE  (k % 2 = 0 => (k + 1) % 2 = 1) /\ (k % 2 = 1 => (k + 1) % 2 = 0)
OBVIOUS

LEMMA PathFacts ==
  ASSUME NEW q \in Paths, NEW n \in Nat
  PROVE  q \o <<n>> \in Paths /\ Len(q \o <<n>>) = Len(q) + 1 /\ Len(q) \in Nat
BY DEF Paths

\* The stack without its last call, and with others in its place.
LEMMA ReturnedFacts ==
  ASSUME NEW first, StackOK(work, first), work # <<>>
  PROVE  /\ StackOK(Returned, first) /\ Len(Returned) = Len(work) - 1
         /\ \A i \in 1 .. Len(work) - 1 : Returned[i] = work[i]
         /\ Len(work) \in Nat /\ Len(work) >= 1 /\ Call \in Frame
<1>1. work \in Seq(Frame) /\ Len(work) \in Nat /\ Len(work) >= 1
  BY EmptySeq DEF StackOK
<1>2. /\ Returned \in Seq(Frame) /\ Len(Returned) = Len(work) - 1
      /\ \A i \in 1 .. Len(work) - 1 : Returned[i] = work[i]
  BY <1>1 DEF Returned
<1>3. Call \in Frame
  BY <1>1 DEF Call
<1>4. StackOK(Returned, first)
  <2>1. \A i \in 1 .. Len(Returned) : i \in 1 .. Len(work) /\ Returned[i] = work[i]
    BY <1>1, <1>2
  <2>2. \A i \in 2 .. Len(Returned) :
          /\ i \in 2 .. Len(work) /\ Returned[i] = work[i]
          /\ Returned[i - 1] = work[i - 1]
    BY <1>1, <1>2
  <2>3. \A i \in 1 .. Len(Returned) : FrameOK(Returned[i], first)
    BY <2>1 DEF StackOK
  <2>4. \A i, j \in 1 .. Len(Returned) : i <= j => Len(Returned[i].at) <= Len(Returned[j].at)
    BY <2>1 DEF StackOK
  <2>5. \A i \in 2 .. Len(Returned) :
          Returned[i].do = "body" => Under(Returned[i - 1], Returned[i])
    BY <2>2 DEF StackOK
  <2> QED
    BY <1>2, <2>3, <2>4, <2>5 DEF StackOK
<1> QED
  BY <1>1, <1>2, <1>3, <1>4

LEMMA PushedFacts ==
  ASSUME NEW first, NEW w, StackOK(w, first), NEW f \in Frame, NEW g \in Frame,
         FrameOK(f, first), FrameOK(g, first), f.do # "body", g.do = "body", Under(f, g),
         \A i \in 1 .. Len(w) : Len(w[i].at) <= Len(f.at), Len(g.at) = Len(f.at) + 1,
         NEW v \in Seq(Frame), Len(v) = Len(w) + 2, \A i \in 1 .. Len(w) : v[i] = w[i],
         v[Len(w) + 1] = f, v[Len(w) + 2] = g
  PROVE  StackOK(v, first)
<1>1. w \in Seq(Frame) /\ Len(w) \in Nat
  BY DEF StackOK
<1>2. /\ v \in Seq(Frame) /\ Len(v) = Len(w) + 2
      /\ \A i \in 1 .. Len(w) : v[i] = w[i]
      /\ v[Len(w) + 1] = f /\ v[Len(w) + 2] = g
  BY <1>1
<1>3. Len(f.at) \in Nat /\ \A i \in 1 .. Len(w) : Len(w[i].at) \in Nat
  <2>1. \A x \in Frame : Len(x.at) \in Nat
    BY DEF Frame, Paths
  <2>2. \A i \in 1 .. Len(w) : w[i] \in Frame
    BY <1>1
  <2>3. Len(f.at) \in Nat
    BY <2>1
  <2>4. \A i \in 1 .. Len(w) : Len(w[i].at) \in Nat
    BY <2>1, <2>2
  <2> QED
    BY <2>3, <2>4
<1>4. \A i \in 1 .. Len(w) + 2 : i \in 1 .. Len(w) \/ i = Len(w) + 1 \/ i = Len(w) + 2
  BY <1>1
<1>5. \A i \in 1 .. Len(v) : FrameOK(v[i], first)
  BY <1>1, <1>2, <1>4 DEF StackOK
<1>6. \A i, j \in 1 .. Len(v) : i <= j => Len(v[i].at) <= Len(v[j].at)
  <2> TAKE i, j \in 1 .. Len(v)
  <2> HAVE i <= j
  <2>1. CASE j \in 1 .. Len(w)
    <3>1. i \in 1 .. Len(w) /\ i <= j /\ v[i] = w[i] /\ v[j] = w[j]
      BY <1>1, <1>2, <2>1
    <3>2. \A k, l \in 1 .. Len(w) : k <= l => Len(w[k].at) <= Len(w[l].at)
      BY DEF StackOK
    <3> QED
      BY <2>1, <3>1, <3>2
  <2>2. ASSUME j \in {Len(w) + 1, Len(w) + 2}
        PROVE  Len(v[i].at) <= Len(v[j].at)
    <3>1. Len(v[j].at) \in Nat /\ Len(v[j].at) >= Len(f.at)
      BY <1>1, <1>2, <1>3, <2>2
    <3>2. CASE i \in 1 .. Len(w)
      <4>1. v[i] = w[i] /\ Len(w[i].at) <= Len(f.at) /\ Len(w[i].at) \in Nat
        BY <1>2, <1>3, <3>2
      <4> QED
        BY <1>3, <3>1, <4>1
    <3>3. CASE i = Len(w) + 1
      BY <1>2, <1>3, <3>1, <3>3
    <3>4. CASE i = Len(w) + 2
      BY <1>1, <1>2, <2>2, <3>1, <3>4
    <3> QED
      BY <1>2, <1>4, <3>2, <3>3, <3>4
  <2> QED
    BY <1>2, <1>4, <2>1, <2>2
<1>7. \A i \in 2 .. Len(v) : v[i].do = "body" => Under(v[i - 1], v[i])
  <2> TAKE i \in 2 .. Len(v)
  <2> HAVE v[i].do = "body"
  <2>1. CASE i \in 1 .. Len(w)
    <3>1. i \in 2 .. Len(w) /\ i - 1 \in 1 .. Len(w)
      BY <1>1, <2>1
    <3> QED
      BY <1>2, <3>1 DEF StackOK
  <2>2. CASE i = Len(w) + 1
    BY <1>2, <2>2
  <2>3. CASE i = Len(w) + 2
    BY <1>1, <1>2, <2>3
  <2> QED
    BY <1>2, <1>4, <2>1, <2>2, <2>3
<1> QED
  BY <1>1, <1>2, <1>5, <1>6, <1>7 DEF StackOK

\* The body on top goes on to its next statement.
LEMMA AdvancedFacts ==
  ASSUME NEW first, StackOK(work, first), work # <<>>, Call.do = "body"
  PROVE  /\ StackOK(Advanced, first) /\ Len(Advanced) = Len(work) /\ Len(work) >= 1
         /\ \A i \in 1 .. Len(work) : /\ Advanced[i].do = work[i].do
                                      /\ Advanced[i].at = work[i].at
                                      /\ Pending(Advanced[i], first) = Pending(work[i], first)
         /\ Advanced[Len(work)] = [Call EXCEPT !.n = @ + 1]
         /\ Stmt \in Paths /\ Len(Stmt) % 2 = 1
         /\ \A i \in 1 .. Len(work) : Len(work[i].at) < Len(Stmt)
<1>1. work \in Seq(Frame) /\ Len(work) \in Nat /\ Len(work) >= 1
  BY EmptySeq DEF StackOK
<1>2. Call \in Frame /\ Call = work[Len(work)]
  BY <1>1 DEF Call
<1>3. [Call EXCEPT !.n = @ + 1] \in Frame
  BY <1>2 DEF Frame
<1>4. /\ Advanced \in Seq(Frame) /\ Len(Advanced) = Len(work)
      /\ \A i \in 1 .. Len(work) :
           Advanced[i] = IF i = Len(work) THEN [Call EXCEPT !.n = @ + 1] ELSE work[i]
  <2>1. Advanced = [work EXCEPT ![Len(work)] = [Call EXCEPT !.n = @ + 1]]
    BY DEF Advanced, Call
  <2> QED
    BY <1>1, <1>3, <2>1, ExceptSeq
<1>5. /\ [Call EXCEPT !.n = @ + 1].do = Call.do /\ [Call EXCEPT !.n = @ + 1].at = Call.at
      /\ [Call EXCEPT !.n = @ + 1].n = Call.n + 1
  BY <1>2 DEF Frame
<1>6. \A i \in 1 .. Len(work) : Advanced[i].do = work[i].do /\ Advanced[i].at = work[i].at
  BY <1>2, <1>4, <1>5
<1>7. \A i \in 1 .. Len(work) : FrameOK(Advanced[i], first)
  <2> TAKE i \in 1 .. Len(work)
  <2>1. FrameOK(work[i], first)
    BY DEF StackOK
  <2>2. CASE i # Len(work)
    BY <1>4, <2>1, <2>2
  <2>3. CASE i = Len(work)
    <3>1. work[i].n \in Nat
      BY <1>2, <2>3 DEF Frame
    <3>2. /\ Advanced[i].do = "body" /\ Advanced[i].at = work[i].at
          /\ Advanced[i].n = work[i].n + 1
      BY <1>2, <1>4, <1>5, <2>3
    <3>3. Len(work[i].at) % 2 = 0 /\ work[i].n >= 1
      BY <1>2, <2>1, <2>3 DEF FrameOK
    <3>4. Advanced[i].n >= 1
      BY <3>1, <3>2, <3>3
    <3>5. Len(Advanced[i].at) % 2 = 0
      BY <3>2, <3>3, Zenon
    <3> QED
      BY <3>2, <3>4, <3>5, Zenon DEF FrameOK
  <2> QED
    BY <2>2, <2>3
<1>8. StackOK(Advanced, first)
  <2>1. \A i, j \in 1 .. Len(work) : i <= j => Len(Advanced[i].at) <= Len(Advanced[j].at)
    BY <1>6 DEF StackOK
  <2>2. \A i \in 2 .. Len(work) : Advanced[i].do = "body" => Under(Advanced[i - 1], Advanced[i])
    <3> TAKE i \in 2 .. Len(work)
    <3>1. i \in 1 .. Len(work) /\ i - 1 \in 1 .. Len(work)
      BY <1>1
    <3> QED
      BY <1>6, <3>1 DEF StackOK, Under
  <2> QED
    BY <1>4, <1>7, <2>1, <2>2 DEF StackOK
<1>9. \A i \in 1 .. Len(work) : Pending(Advanced[i], first) = Pending(work[i], first)
  BY <1>6 DEF Pending
<1>10. Stmt \in Paths /\ Len(Stmt) = Len(Call.at) + 1 /\ Len(Call.at) \in Nat /\ Len(Call.at) % 2 = 0
  <2>1. Call.at \in Paths /\ Call.n \in Nat
    BY <1>2 DEF Frame
  <2>2. FrameOK(Call, first)
    BY <1>1, <1>2 DEF StackOK
  <2> QED
    BY <2>1, <2>2, PathFacts DEF Stmt, FrameOK
<1>11. \A i \in 1 .. Len(work) : Len(work[i].at) < Len(Stmt)
  <2> TAKE i \in 1 .. Len(work)
  <2>1. Len(work[i].at) <= Len(Call.at)
    BY <1>1, <1>2 DEF StackOK
  <2>2. Len(work[i].at) \in Nat
    BY <1>1 DEF Frame, Paths
  <2> QED
    BY <1>10, <2>1, <2>2
<1>12. Len(Stmt) % 2 = 1
  BY <1>10, Parity
<1>13. Advanced[Len(work)] = [Call EXCEPT !.n = @ + 1]
  BY <1>1, <1>4
<1> QED
  BY <1>1, <1>4, <1>6, <1>8, <1>9, <1>10, <1>11, <1>12, <1>13

\* Creating the blocks of a statement that the call is not about.
LEMMA NewFirst ==
  ASSUME NEW fr, NEW first, FrameOK(fr, first), NEW next,
         fr.at \in DOMAIN first => fr.at \in DOMAIN next /\ next[fr.at] = first[fr.at]
  PROVE  FrameOK(fr, next) /\ Pending(fr, next) = Pending(fr, first)
BY DEF FrameOK, Pending

-----------------------------------------------------------------------------
(* The insertion point.                                                    *)

\* The blocks that calls wait for are empty, and each is for one of them.
BlankOK(w, first, bl, c) ==
  /\ \A i \in 1 .. Len(w) : \A b \in Pending(w[i], first) :
       b \in DOMAIN bl /\ bl[b] = <<>> /\ b # c
  /\ \A i, j \in 1 .. Len(w) : i < j => Pending(w[i], first) \cap Pending(w[j], first) = {}

\* A jump is the last statement of its body.
CutInv ==
  \A q \in Paths, m \in Nat \ {0} :
    /\ Len(q) % 2 = 0 /\ q \o <<m>> \in DOMAIN ast /\ ast[q \o <<m>>].op \in Jumps
    => q \o <<m + 1>> \notin DOMAIN ast

\* What the call on top is about when the current block is closed.
Closed(fr) ==
  CASE fr.do = "body" ->
         \E m \in Nat \ {0} : /\ fr.n = m + 1 /\ fr.at \o <<m>> \in DOMAIN ast
                              /\ ast[fr.at \o <<m>>].op \in Jumps
    [] fr.do \in {"then", "loop"} -> EndsInJump(fr.at \o <<1>>)
    [] OTHER -> EndsInJump(fr.at \o <<2>>)

CodegenInv ==
  /\ StackOK(work, bb) /\ cur \in DOMAIN blocks /\ BlankOK(work, bb, blocks, cur) /\ CutInv
  /\ work # <<>> /\ ~Open(blocks[cur]) => Closed(Call)

IInv ==
  /\ BlocksOK(blocks)
  /\ pc \in {"connect", "eliminate"} => ast = prog
  /\ pc = "codegen" => CodegenInv

\* is_last_stmt_br sees that a body ends in a jump.
LEMMA JumpEnds ==
  ASSUME NEW q \in Paths, NEW m \in Nat, q \o <<m>> \in DOMAIN ast,
         ast[q \o <<m>>].op \in Jumps, q \o <<m + 1>> \notin DOMAIN ast
  PROVE  EndsInJump(q)
<1> DEFINE p == q \o <<m>>
<1>1. Len(p) = Len(q) + 1 /\ p[Len(p)] = m /\ Body(p) = q
  BY DEF Paths, Body
<1>2. \A ends : LastStmtBr(q, ends)
  BY <1>1 DEF LastStmtBr
<1> QED
  BY <1>2 DEF EndsInJump

\* While there are statements left in a body, the current block is open.
LEMMA OpenForStmt ==
  ASSUME CodegenInv, NEW op, Generating(op)
  PROVE  /\ Open(blocks[cur]) /\ work # <<>> /\ Call.do = "body" /\ Stmt = Call.at \o <<Call.n>>
         /\ Stmt \in DOMAIN ast /\ ast[Stmt].op = op /\ Call \in Frame
<1>1. /\ work # <<>> /\ Call.do = "body" /\ Stmt = Call.at \o <<Call.n>>
      /\ Stmt \in DOMAIN ast /\ ast[Stmt].op = op
  BY DEF Generating, Stmt
<1>2. StackOK(work, bb)
  BY DEF CodegenInv
<1>3. Call \in Frame
  BY <1>1, <1>2, ReturnedFacts
<1>4. ASSUME ~Open(blocks[cur]) PROVE FALSE
  <2>1. PICK m \in Nat \ {0} : /\ Call.n = m + 1 /\ Call.at \o <<m>> \in DOMAIN ast
                               /\ ast[Call.at \o <<m>>].op \in Jumps
    BY <1>1, <1>4 DEF CodegenInv, Closed
  <2>2. FrameOK(Call, bb)
    BY <1>1, <1>2, EmptySeq DEF StackOK, Call
  <2>3. Len(Call.at) % 2 = 0 /\ Call.at \in Paths
    BY <1>1, <1>3, <2>2 DEF FrameOK, Frame
  <2>4. Call.at \o <<m + 1>> \notin DOMAIN ast
    BY <2>1, <2>3 DEF CodegenInv, CutInv
  <2> QED
    BY <1>1, <2>1, <2>4
<1> QED
  BY <1>1, <1>3, <1>4

\* Nothing that waits is disturbed by a change of another block.
LEMMA BlankKept ==
  ASSUME NEW w, NEW first, NEW bl, NEW c, BlankOK(w, first, bl, c),
         NEW new, DOMAIN bl \subseteq DOMAIN new, \A b \in DOMAIN bl : b # c => new[b] = bl[b]
  PROVE  BlankOK(w, first, new, c)
BY DEF BlankOK

\* A statement that is one instruction.
LEMMA EmitStep ==
  ASSUME BlocksOK(blocks), CodegenInv, NEW op, Generating(op), NEW ins,
         ins.ev \in Ends => op \in Jumps,
         blocks' = Emit(cur, ins), work' = Advanced, UNCHANGED <<ast, bb, cur>>
  PROVE  BlocksOK(blocks') /\ CodegenInv'
<1>1. /\ Open(blocks[cur]) /\ work # <<>> /\ Call.do = "body" /\ Stmt = Call.at \o <<Call.n>>
      /\ Stmt \in DOMAIN ast /\ ast[Stmt].op = op /\ Call \in Frame
  BY OpenForStmt
<1>2. StackOK(work, bb) /\ cur \in DOMAIN blocks /\ BlankOK(work, bb, blocks, cur) /\ CutInv
  BY DEF CodegenInv
<1>3. /\ BlocksOK(blocks') /\ DOMAIN blocks' = DOMAIN blocks
      /\ \A b \in DOMAIN blocks : b # cur => blocks'[b] = blocks[b]
      /\ ins.ev \notin Ends => Open(blocks'[cur])
  BY <1>1, <1>2, EmitFacts
<1>4. /\ StackOK(work', bb) /\ Len(work') = Len(work) /\ Len(work) >= 1
      /\ \A i \in 1 .. Len(work) : Pending(work'[i], bb) = Pending(work[i], bb)
      /\ work'[Len(work)] = [Call EXCEPT !.n = @ + 1]
  BY <1>1, <1>2, AdvancedFacts
<1>5. BlankOK(work, bb, blocks', cur)
  BY <1>2, <1>3, BlankKept
<1>6. BlankOK(work', bb, blocks', cur)
  BY <1>4, <1>5 DEF BlankOK
<1>7. ASSUME ~Open(blocks'[cur]) PROVE Closed(Call)'
  <2>1. ast[Stmt].op \in Jumps
    BY <1>1, <1>3, <1>7
  <2>2. Call' = [Call EXCEPT !.n = @ + 1]
    BY <1>4 DEF Call
  <2>3. Call'.do = "body" /\ Call'.at = Call.at /\ Call'.n = Call.n + 1 /\ Call.n \in Nat \ {0}
    <3>1. FrameOK(Call, bb)
      BY <1>1, <1>2, EmptySeq DEF StackOK, Call
    <3>2. Call.n >= 1
      BY <1>1, <3>1 DEF FrameOK
    <3> QED
      BY <1>1, <2>2, <3>2 DEF Frame
  <2> QED
    BY <1>1, <2>1, <2>3 DEF Closed
<1>8. CutInv'
  BY <1>2 DEF CutInv
<1> QED
  BY <1>2, <1>3, <1>4, <1>6, <1>7, <1>8 DEF CodegenInv

\* An if or a loop creates blocks behind the others.
Grown(ins, new) == Emit(cur, ins) \o new

LEMMA PushedBlocks ==
  ASSUME BlocksOK(blocks), cur \in DOMAIN blocks, Open(blocks[cur]), NEW ins,
         NEW new, BlocksOK(new)
  PROVE  LET bl == Grown(ins, new)
         IN  /\ BlocksOK(bl) /\ Len(blocks) \in Nat /\ DOMAIN blocks = 1 .. Len(blocks)
             /\ \A b \in DOMAIN blocks : b \in DOMAIN bl /\ (b # cur => bl[b] = blocks[b])
             /\ \A i \in 1 .. Len(new) : Len(blocks) + i \in DOMAIN bl /\ bl[Len(blocks) + i] = new[i]
<1> DEFINE e == Emit(cur, ins)
<1>1. /\ BlocksOK(e) /\ DOMAIN e = DOMAIN blocks /\ Len(e) = Len(blocks)
      /\ \A b \in DOMAIN blocks : b # cur => e[b] = blocks[b]
  BY EmitFacts
<1> HIDE DEF e
<1>3. /\ BlocksOK(e \o new) /\ Len(e) \in Nat /\ DOMAIN e = 1 .. Len(e)
      /\ DOMAIN e \subseteq DOMAIN (e \o new)
      /\ \A b \in DOMAIN e : (e \o new)[b] = e[b]
      /\ \A i \in 1 .. Len(new) : Len(e) + i \in DOMAIN (e \o new) /\ (e \o new)[Len(e) + i] = new[i]
  BY <1>1, NewBlocks
<1> QED
  BY <1>1, <1>3 DEF e, Grown

\* Its call and that of its first body are put on the stack.
LEMMA PushedStack ==
  ASSUME StackOK(work, bb), work # <<>>, Call.do = "body",
         NEW nb, Stmt \in DOMAIN nb, nb[Stmt] \in Nat,
         \A q \in DOMAIN bb : q # Stmt => q \in DOMAIN nb /\ nb[q] = bb[q],
         NEW w \in Seq(Frame), Len(w) = Len(work) + 2, \A i \in 1 .. Len(work) : w[i] = Advanced[i],
         w[Len(work) + 1].do \in {"then", "loop"}, w[Len(work) + 1].at = Stmt,
         w[Len(work) + 2].do = "body", w[Len(work) + 2].at = Stmt \o << 1 >>, w[Len(work) + 2].n = 1
  PROVE  /\ StackOK(w, nb) /\ Len(work) \in Nat
         /\ \A i \in 1 .. Len(work) : Pending(w[i], nb) = Pending(work[i], bb)
         /\ Pending(w[Len(work) + 1], nb) =
              IF w[Len(work) + 1].do = "then" THEN {nb[Stmt] + 1, nb[Stmt] + 2} ELSE {nb[Stmt] + 2}
         /\ Pending(w[Len(work) + 2], nb) = {}
<1> DEFINE L == Len(work)
           A == Advanced
           f == w[L + 1]
           g == w[L + 2]
<1>1. /\ StackOK(A, bb) /\ Len(A) = L /\ L \in Nat
      /\ \A i \in 1 .. L : A[i].at = work[i].at /\ Pending(A[i], bb) = Pending(work[i], bb)
      /\ Stmt \in Paths /\ Len(Stmt) % 2 = 1
      /\ \A i \in 1 .. L : Len(work[i].at) < Len(Stmt)
  BY AdvancedFacts, ReturnedFacts
<1>2. /\ f \in Frame /\ f.do \in {"then", "loop"} /\ f.at = Stmt
      /\ g \in Frame /\ g.do = "body" /\ g.at = Stmt \o <<1>> /\ g.n = 1
  BY <1>1
<1>3. /\ w \in Seq(Frame) /\ Len(w) = Len(A) + 2
      /\ \A i \in 1 .. Len(A) : w[i] = A[i]
      /\ w[Len(A) + 1] = f /\ w[Len(A) + 2] = g
  BY <1>1 DEF L, f, g
<1>4. Len(g.at) = Len(f.at) + 1 /\ Len(f.at) \in Nat
  BY <1>1, <1>2, PathFacts
<1> HIDE DEF A, L, f, g
<1>5. \A i \in 1 .. L : Len(A[i].at) < Len(Stmt) /\ Len(A[i].at) \in Nat
  <2> TAKE i \in 1 .. L
  <2>1. A[i] \in Frame
    BY <1>1 DEF StackOK
  <2>2. A[i].at \in Seq(Nat) /\ Len(A[i].at) < Len(Stmt)
    BY <1>1, <2>1 DEF Frame, Paths
  <2> QED
    BY <2>2
<1>6. /\ StackOK(A, nb)
      /\ \A i \in 1 .. L : Pending(A[i], nb) = Pending(work[i], bb)
  <2>1. ASSUME NEW i \in 1 .. L
        PROVE  FrameOK(A[i], nb) /\ Pending(A[i], nb) = Pending(A[i], bb)
    <3>1. A[i].at # Stmt
      BY <1>1, <1>5 DEF Paths
    <3>2. FrameOK(A[i], bb)
      BY <1>1 DEF StackOK
    <3> QED
      BY <3>1, <3>2, NewFirst
  <2>2. StackOK(A, nb)
    BY <1>1, <2>1 DEF StackOK
  <2> QED
    BY <1>1, <2>1, <2>2
<1>7. FrameOK(f, nb) /\ FrameOK(g, nb) /\ Under(f, g)
  <2>1. FrameOK(f, nb)
    BY <1>1, <1>2, <1>4 DEF FrameOK
  <2>2. Len(g.at) % 2 = 0
    BY <1>1, <1>2, <1>4, Parity
  <2>3. g.n >= 1
    BY <1>2
  <2>4. FrameOK(g, nb)
    BY <1>2, <2>2, <2>3, Zenon DEF FrameOK
  <2>5. Under(f, g)
    BY <1>2 DEF Under
  <2> QED
    BY <2>1, <2>4, <2>5
<1>8. \A i \in 1 .. Len(A) : Len(A[i].at) <= Len(f.at)
  BY <1>1, <1>2, <1>4, <1>5
<1>9. StackOK(w, nb)
  BY <1>2, <1>3, <1>4, <1>6, <1>7, <1>8, PushedFacts, ZenonT(60)
<1>10. Pending(f, nb) = IF f.do = "then" THEN {nb[Stmt] + 1, nb[Stmt] + 2} ELSE {nb[Stmt] + 2}
  BY <1>2 DEF Pending
<1>11. Pending(g, nb) = {}
  BY <1>2 DEF Pending
<1> QED
  BY <1>1, <1>3, <1>6, <1>9, <1>10, <1>11 DEF L, f, g

\* What the call waits for are new blocks, and empty.
LEMMA PushedBlank ==
  ASSUME BlankOK(work, bb, blocks, cur), NEW L \in Nat, Len(work) = L,
         NEW M \in Nat, DOMAIN blocks = 1 .. M,
         NEW bl, \A b \in DOMAIN blocks : b \in DOMAIN bl /\ (b # cur => bl[b] = blocks[b]),
         NEW nb, NEW w, Len(w) = L + 2,
         \A i \in 1 .. L : Pending(w[i], nb) = Pending(work[i], bb),
         Pending(w[L + 2], nb) = {}, NEW c, c \notin DOMAIN blocks,
         \A b \in Pending(w[L + 1], nb) :
           b \notin DOMAIN blocks /\ b \in DOMAIN bl /\ bl[b] = <<>> /\ b # c
  PROVE  BlankOK(w, nb, bl, c)
<1>1. \A i \in 1 .. L + 2 : i \in 1 .. L \/ i = L + 1 \/ i = L + 2
  OBVIOUS
<1>2. ASSUME NEW i \in 1 .. L, NEW b \in Pending(w[i], nb)
      PROVE  b \in DOMAIN blocks /\ b \in DOMAIN bl /\ bl[b] = <<>> /\ b # c
  <2>1. b \in Pending(work[i], bb)
    BY <1>2
  <2>2. b \in DOMAIN blocks /\ blocks[b] = <<>> /\ b # cur
    BY <2>1 DEF BlankOK
  <2> QED
    BY <2>2
<1>3. \A i \in 1 .. Len(w) : \A b \in Pending(w[i], nb) : b \in DOMAIN bl /\ bl[b] = <<>> /\ b # c
  BY <1>1, <1>2
<1>4. ASSUME NEW i \in 1 .. Len(w), NEW j \in 1 .. Len(w), i < j
      PROVE  Pending(w[i], nb) \cap Pending(w[j], nb) = {}
  <2>1. CASE j \in 1 .. L
    <3>1. i \in 1 .. L
      BY <1>4, <2>1
    <3> QED
      BY <1>4, <2>1, <3>1 DEF BlankOK
  <2>2. CASE j = L + 1
    <3>1. i \in 1 .. L
      BY <1>4, <2>2
    <3> QED
      BY <1>2, <2>2, <3>1
  <2>3. CASE j = L + 2
    BY <2>3
  <2> QED
    BY <1>1, <2>1, <2>2, <2>3
<1> QED
  BY <1>3, <1>4 DEF BlankOK

LEMMA NewEmpty == BlocksOK(<< <<>>, <<>>, <<>> >>)
<1> DEFINE new == << <<>>, <<>>, <<>> >>
<1>1. new \in Seq({<<>>}) /\ DOMAIN new = 1 .. 3 /\ \A b \in 1 .. 3 : new[b] = <<>>
  OBVIOUS
<1> HIDE DEF new
<1>2. IsSeq(new)
  BY <1>1, IsSeqOf
<1>3. BlocksOK(new)
  BY <1>1, <1>2, EmptyBlock DEF BlocksOK
<1> QED
  BY <1>3 DEF new

\* The stack with the call of the statement and that of its body.
LEMMA PushedWork ==
  ASSUME StackOK(work, bb), work # <<>>, Call.do = "body", NEW f \in Frame, NEW g \in Frame
  PROVE  LET w == Advanced \o <<f, g>>
         IN  /\ w \in Seq(Frame) /\ Len(w) = Len(work) + 2
             /\ \A i \in 1 .. Len(work) : w[i] = Advanced[i]
             /\ w[Len(work) + 1] = f /\ w[Len(work) + 2] = g
<1> DEFINE A == Advanced
<1>1. A \in Seq(Frame) /\ Len(A) = Len(work)
  BY AdvancedFacts DEF StackOK
<1> HIDE DEF A
<1>2. /\ A \o <<f, g>> \in Seq(Frame) /\ Len(A \o <<f, g>>) = Len(A) + 2
      /\ \A i \in 1 .. Len(A) : (A \o <<f, g>>)[i] = A[i]
      /\ (A \o <<f, g>>)[Len(A) + 1] = f /\ (A \o <<f, g>>)[Len(A) + 2] = g
  BY <1>1
<1> QED
  BY <1>1, <1>2 DEF A

LEMMA StmtFrames ==
  ASSUME Stmt \in Paths, NEW do \in {"then", "loop"}
  PROVE  /\ [do |-> do, at |-> Stmt, n |-> 0] \in Frame
         /\ [do |-> "body", at |-> Stmt \o <<1>>, n |-> 1] \in Frame
BY PathFacts DEF Frame

LEMMA GenIfStep ==
  ASSUME BlocksOK(blocks), CodegenInv, GenIf
  PROVE  BlocksOK(blocks') /\ CodegenInv'
<1> DEFINE new == << <<>>, <<>>, <<>> >>
           then == Len(blocks) + 1
           ins == Ins("cond", Stmt, <<then, then + 1>>)
           f == [do |-> "then", at |-> Stmt, n |-> 0]
           g == [do |-> "body", at |-> Stmt \o <<1>>, n |-> 1]
           L == Len(work)
<1>1. Generating("if")
  BY DEF GenIf
<1>2. Open(blocks[cur]) /\ work # <<>> /\ Call.do = "body"
  BY <1>1, OpenForStmt
<1>3. StackOK(work, bb) /\ cur \in DOMAIN blocks /\ BlankOK(work, bb, blocks, cur) /\ CutInv
  BY DEF CodegenInv
<1>4. Stmt \in Paths
  BY <1>2, <1>3, AdvancedFacts
<1>5. /\ cur' = then /\ UNCHANGED ast
      /\ bb' = [p \in DOMAIN bb \cup {Stmt} |-> IF p = Stmt THEN then ELSE bb[p]]
  BY DEF GenIf, passes
<1>6. blocks' = Grown(ins, new)
  BY DEF GenIf, Grown
<1>7. work' = Advanced \o <<f, g>>
  BY DEF GenIf
<1>8. /\ f \in Frame /\ f.do = "then" /\ f.at = Stmt
      /\ g \in Frame /\ g.do = "body" /\ g.at = Stmt \o <<1>> /\ g.n = 1
  BY <1>4, StmtFrames
<1>9. BlocksOK(new) /\ Len(new) = 3 /\ \A i \in 1 .. 3 : new[i] = <<>>
  BY NewEmpty
<1>10. /\ Stmt \in DOMAIN bb' /\ bb'[Stmt] = then
       /\ \A q \in DOMAIN bb : q # Stmt => q \in DOMAIN bb' /\ bb'[q] = bb[q]
  BY <1>5
<1> HIDE DEF new, ins, f, g, L
<1>11. /\ BlocksOK(blocks') /\ Len(blocks) \in Nat /\ DOMAIN blocks = 1 .. Len(blocks)
       /\ \A b \in DOMAIN blocks : b \in DOMAIN blocks' /\ (b # cur => blocks'[b] = blocks[b])
       /\ \A i \in 1 .. 3 : Len(blocks) + i \in DOMAIN blocks' /\ blocks'[Len(blocks) + i] = <<>>
  <2> DEFINE bl == Grown(ins, new)
  <2>1. /\ BlocksOK(bl) /\ Len(blocks) \in Nat /\ DOMAIN blocks = 1 .. Len(blocks)
        /\ \A b \in DOMAIN blocks : b \in DOMAIN bl /\ (b # cur => bl[b] = blocks[b])
        /\ \A i \in 1 .. Len(new) : Len(blocks) + i \in DOMAIN bl /\ bl[Len(blocks) + i] = new[i]
    BY <1>2, <1>3, <1>9, PushedBlocks, SMT
  <2> HIDE DEF bl
  <2>2. blocks' = bl
    BY <1>6 DEF bl
  <2> QED
    BY <1>9, <2>1, <2>2
<1>12. /\ work' \in Seq(Frame) /\ Len(work') = L + 2
       /\ \A i \in 1 .. L : work'[i] = Advanced[i]
       /\ work'[L + 1] = f /\ work'[L + 2] = g
  BY <1>2, <1>3, <1>7, <1>8, PushedWork DEF L
<1>13. then \in Nat
  BY <1>11
<1>14. /\ StackOK(work', bb') /\ L \in Nat
       /\ \A i \in 1 .. L : Pending(work'[i], bb') = Pending(work[i], bb)
       /\ Pending(work'[L + 1], bb') = {then + 1, then + 2}
       /\ Pending(work'[L + 2], bb') = {}
  <2>1. /\ StackOK(work', bb') /\ L \in Nat
        /\ \A i \in 1 .. L : Pending(work'[i], bb') = Pending(work[i], bb)
        /\ Pending(work'[L + 1], bb') =
             IF work'[L + 1].do = "then" THEN {bb'[Stmt] + 1, bb'[Stmt] + 2} ELSE {bb'[Stmt] + 2}
        /\ Pending(work'[L + 2], bb') = {}
    BY <1>2, <1>3, <1>8, <1>10, <1>12, <1>13, PushedStack DEF L
  <2> QED
    BY <1>8, <1>10, <1>12, <2>1
<1>15. then \notin DOMAIN blocks /\ then \in DOMAIN blocks' /\ blocks'[then] = <<>>
  BY <1>11
<1>16. \A b \in {then + 1, then + 2} :
         b \notin DOMAIN blocks /\ b \in DOMAIN blocks' /\ blocks'[b] = <<>> /\ b # then
  BY <1>11
<1> HIDE DEF then
<1>17. BlankOK(work', bb', blocks', then)
  BY <1>3, <1>11, <1>12, <1>14, <1>15, <1>16, PushedBlank, ZenonT(60) DEF L
<1>18. CutInv' /\ Open(blocks'[then])
  BY <1>3, <1>5, <1>15, EmptyBlock DEF CutInv
<1> QED
  BY <1>5, <1>11, <1>14, <1>15, <1>17, <1>18 DEF CodegenInv

LEMMA NewLoop ==
  ASSUME NEW x
  PROVE  LET new == << <<x>>, <<>>, <<>> >>
         IN  BlocksOK(new) /\ Len(new) = 3 /\ new[2] = <<>> /\ new[3] = <<>>
<1> DEFINE new == << <<x>>, <<>>, <<>> >>
<1>1. <<x>> = Append(<<>>, x)
  OBVIOUS
<1>2. IsSeq(<<x>>) /\ WellEnded(<<x>>)
  BY <1>1, EmptyBlock, AppendOpen
<1>3. /\ new \in Seq({<<>>, <<x>>}) /\ DOMAIN new = 1 .. 3 /\ Len(new) = 3
      /\ new[1] = <<x>> /\ new[2] = <<>> /\ new[3] = <<>>
  OBVIOUS
<1> HIDE DEF new
<1>4. IsSeq(new)
  BY <1>3, IsSeqOf
<1>5. \A b \in 1 .. 3 : new[b] \in {<<>>, <<x>>}
  BY <1>3
<1>6. BlocksOK(new)
  BY <1>2, <1>3, <1>4, <1>5, EmptyBlock DEF BlocksOK
<1> QED
  BY <1>3, <1>6 DEF new

LEMMA GenForStep ==
  ASSUME BlocksOK(blocks), CodegenInv, GenFor
  PROVE  BlocksOK(blocks') /\ CodegenInv'
<1> DEFINE first == Len(blocks) + 1
           new == << <<Ins("cond", Stmt, <<first + 1, first + 2>>)>>, <<>>, <<>> >>
           ins == Br(first)
           f == [do |-> "loop", at |-> Stmt, n |-> 0]
           g == [do |-> "body", at |-> Stmt \o <<1>>, n |-> 1]
           L == Len(work)
<1>1. Generating("for")
  BY DEF GenFor
<1>2. Open(blocks[cur]) /\ work # <<>> /\ Call.do = "body"
  BY <1>1, OpenForStmt
<1>3. StackOK(work, bb) /\ cur \in DOMAIN blocks /\ BlankOK(work, bb, blocks, cur) /\ CutInv
  BY DEF CodegenInv
<1>4. Stmt \in Paths
  BY <1>2, <1>3, AdvancedFacts
<1>5. /\ cur' = first + 1 /\ UNCHANGED ast
      /\ bb' = [p \in DOMAIN bb \cup {Stmt} |-> IF p = Stmt THEN first ELSE bb[p]]
  BY DEF GenFor, passes
<1>6. blocks' = Grown(ins, new)
  BY DEF GenFor, Grown
<1>7. work' = Advanced \o <<f, g>>
  BY DEF GenFor
<1>8. /\ f \in Frame /\ f.do = "loop" /\ f.at = Stmt
      /\ g \in Frame /\ g.do = "body" /\ g.at = Stmt \o <<1>> /\ g.n = 1
  BY <1>4, StmtFrames
<1>9. BlocksOK(new) /\ Len(new) = 3 /\ new[2] = <<>> /\ new[3] = <<>>
  BY NewLoop
<1>10. /\ Stmt \in DOMAIN bb' /\ bb'[Stmt] = first
       /\ \A q \in DOMAIN bb : q # Stmt => q \in DOMAIN bb' /\ bb'[q] = bb[q]
  BY <1>5
<1> HIDE DEF new, ins, f, g, L
<1>11. /\ BlocksOK(blocks') /\ Len(blocks) \in Nat /\ DOMAIN blocks = 1 .. Len(blocks)
       /\ \A b \in DOMAIN blocks : b \in DOMAIN blocks' /\ (b # cur => blocks'[b] = blocks[b])
       /\ \A i \in 2 .. 3 : Len(blocks) + i \in DOMAIN blocks' /\ blocks'[Len(blocks) + i] = <<>>
  <2> DEFINE bl == Grown(ins, new)
  <2>1. /\ BlocksOK(bl) /\ Len(blocks) \in Nat /\ DOMAIN blocks = 1 .. Len(blocks)
        /\ \A b \in DOMAIN blocks : b \in DOMAIN bl /\ (b # cur => bl[b] = blocks[b])
        /\ \A i \in 1 .. Len(new) : Len(blocks) + i \in DOMAIN bl /\ bl[Len(blocks) + i] = new[i]
    <3>1. BlocksOK(new)
      BY <1>9
    <3> QED
      BY <1>2, <1>3, <3>1, PushedBlocks, SMT
  <2> HIDE DEF bl
  <2>2. blocks' = bl
    BY <1>6 DEF bl
  <2> QED
    BY <1>9, <2>1, <2>2
<1>12. /\ work' \in Seq(Frame) /\ Len(work') = L + 2
       /\ \A i \in 1 .. L : work'[i] = Advanced[i]
       /\ work'[L + 1] = f /\ work'[L + 2] = g
  BY <1>2, <1>3, <1>7, <1>8, PushedWork DEF L
<1>13. first \in Nat
  BY <1>11
<1>14. /\ StackOK(work', bb') /\ L \in Nat
       /\ \A i \in 1 .. L : Pending(work'[i], bb') = Pending(work[i], bb)
       /\ Pending(work'[L + 1], bb') = {first + 2}
       /\ Pending(work'[L + 2], bb') = {}
  <2>1. /\ StackOK(work', bb') /\ L \in Nat
        /\ \A i \in 1 .. L : Pending(work'[i], bb') = Pending(work[i], bb)
        /\ Pending(work'[L + 1], bb') =
             IF work'[L + 1].do = "then" THEN {bb'[Stmt] + 1, bb'[Stmt] + 2} ELSE {bb'[Stmt] + 2}
        /\ Pending(work'[L + 2], bb') = {}
    BY <1>2, <1>3, <1>8, <1>10, <1>12, <1>13, PushedStack DEF L
  <2> QED
    BY <1>8, <1>10, <1>12, <2>1
<1>15. cur' \notin DOMAIN blocks /\ cur' \in DOMAIN blocks' /\ blocks'[cur'] = <<>>
  BY <1>5, <1>11
<1>16. \A b \in {first + 2} :
         b \notin DOMAIN blocks /\ b \in DOMAIN blocks' /\ blocks'[b] = <<>> /\ b # cur'
  BY <1>5, <1>11
<1> HIDE DEF first
<1>17. BlankOK(work', bb', blocks', cur')
  BY <1>3, <1>11, <1>12, <1>14, <1>15, <1>16, PushedBlank DEF L
<1>18. CutInv' /\ Open(blocks'[cur'])
  BY <1>3, <1>5, <1>15, EmptyBlock DEF CutInv
<1> QED
  BY <1>11, <1>14, <1>15, <1>17, <1>18 DEF CodegenInv

-----------------------------------------------------------------------------
(* The end of a body.                                                      *)

\* The insertion point moves to a block that the call on top waits for.
LEMMA MovedOn ==
  ASSUME CodegenInv, work # <<>>, NEW c \in Pending(Call, bb),
         NEW bl, \A b \in DOMAIN blocks : b \in DOMAIN bl /\ (b # cur => bl[b] = blocks[b])
  PROVE  /\ StackOK(Returned, bb) /\ c \in DOMAIN bl /\ Open(bl[c])
         /\ BlankOK(Returned, bb, bl, c)
<1>1. StackOK(work, bb) /\ BlankOK(work, bb, blocks, cur)
  BY DEF CodegenInv
<1>2. /\ StackOK(Returned, bb) /\ Len(Returned) = Len(work) - 1
      /\ \A i \in 1 .. Len(work) - 1 : Returned[i] = work[i]
      /\ Len(work) \in Nat /\ Len(work) >= 1
  BY <1>1, ReturnedFacts
<1>3. c \in Pending(work[Len(work)], bb)
  BY DEF Call
<1>4. c \in DOMAIN blocks /\ blocks[c] = <<>> /\ c # cur
  BY <1>1, <1>2, <1>3 DEF BlankOK
<1>5. ASSUME NEW i \in 1 .. Len(Returned)
      PROVE  /\ Pending(Returned[i], bb) = Pending(work[i], bb)
             /\ c \notin Pending(work[i], bb) /\ i \in 1 .. Len(work)
  <2>1. i \in 1 .. Len(work) /\ i < Len(work) /\ Returned[i] = work[i]
    BY <1>2
  <2>2. ASSUME NEW j \in 1 .. Len(work), i < j
        PROVE  Pending(work[i], bb) \cap Pending(work[j], bb) = {}
    BY <1>1, <2>1, <2>2 DEF BlankOK
  <2>3. Len(work) \in 1 .. Len(work)
    BY <1>2
  <2> QED
    BY <1>3, <2>1, <2>2, <2>3
<1>6. \A i \in 1 .. Len(Returned) : \A b \in Pending(Returned[i], bb) :
        b \in DOMAIN bl /\ bl[b] = <<>> /\ b # c
  BY <1>1, <1>5 DEF BlankOK
<1>7. \A i, j \in 1 .. Len(Returned) :
        i < j => Pending(Returned[i], bb) \cap Pending(Returned[j], bb) = {}
  BY <1>1, <1>5 DEF BlankOK
<1> QED
  BY <1>2, <1>4, <1>6, <1>7, EmptyBlock DEF BlankOK

\* The block is left as it is when its body has ended in a jump, and is open
\* otherwise.
LEMMA EndFacts ==
  ASSUME BlocksOK(blocks), CodegenInv, work # <<>>, NEW ins,
         NEW bl, bl = IF Closed(Call) THEN blocks ELSE Emit(cur, ins)
  PROVE  /\ BlocksOK(bl)
         /\ \A b \in DOMAIN blocks : b \in DOMAIN bl /\ (b # cur => bl[b] = blocks[b])
<1>1. CASE Closed(Call)
  BY <1>1
<1>2. CASE ~Closed(Call)
  <2>1. cur \in DOMAIN blocks /\ Open(blocks[cur])
    BY <1>2 DEF CodegenInv
  <2>2. /\ BlocksOK(Emit(cur, ins)) /\ DOMAIN Emit(cur, ins) = DOMAIN blocks
        /\ \A b \in DOMAIN blocks : b # cur => Emit(cur, ins)[b] = blocks[b]
    BY <2>1, EmitFacts
  <2> QED
    BY <1>2, <2>2
<1> QED
  BY <1>1, <1>2

LEMMA EndElseStep ==
  ASSUME BlocksOK(blocks), CodegenInv, EndElse
  PROVE  BlocksOK(blocks') /\ CodegenInv'
<1> DEFINE ins == Br(bb[Call.at] + 2)
<1>1. /\ work # <<>> /\ Call.do = "else" /\ UNCHANGED <<ast, bb>> /\ cur' = bb[Call.at] + 2
      /\ work' = Returned /\ blocks' = IF Closed(Call) THEN blocks ELSE Emit(cur, ins)
  BY DEF EndElse, passes, Closed
<1> HIDE DEF ins
<1>2. cur' \in Pending(Call, bb)
  BY <1>1 DEF Pending
<1>3. /\ BlocksOK(blocks')
      /\ \A b \in DOMAIN blocks : b \in DOMAIN blocks' /\ (b # cur => blocks'[b] = blocks[b])
  BY <1>1, EndFacts
<1>4. /\ StackOK(Returned, bb) /\ cur' \in DOMAIN blocks' /\ Open(blocks'[cur'])
      /\ BlankOK(Returned, bb, blocks', cur')
  BY <1>1, <1>2, <1>3, MovedOn
<1>5. CutInv'
  BY <1>1 DEF CodegenInv, CutInv
<1> QED
  BY <1>1, <1>3, <1>4, <1>5 DEF CodegenInv

LEMMA EndLoopStep ==
  ASSUME BlocksOK(blocks), CodegenInv, EndLoop
  PROVE  BlocksOK(blocks') /\ CodegenInv'
<1> DEFINE p == Call.at
           inc == IF ast[p].inc THEN <<Ins("inc", p, <<>>)>> ELSE <<>>
           t == blocks[cur] \o inc \o <<Br(bb[p])>>
<1>1. /\ work # <<>> /\ Call.do = "loop" /\ UNCHANGED <<ast, bb>> /\ cur' = bb[p] + 2
      /\ work' = Returned
      /\ blocks' = IF Closed(Call) THEN blocks ELSE [blocks EXCEPT ![cur] = t]
  BY DEF EndLoop, passes, Closed
<1>2. cur' \in Pending(Call, bb)
  BY <1>1 DEF Pending
<1>3. ASSUME ~Closed(Call)
      PROVE  IsSeq(t) /\ WellEnded(t) /\ cur \in DOMAIN blocks
  <2>1. cur \in DOMAIN blocks /\ IsSeq(blocks[cur]) /\ Open(blocks[cur])
    BY <1>1, <1>3 DEF CodegenInv, BlocksOK
  <2> DEFINE s == blocks[cur]
             x == Ins("inc", p, <<>>)
             y == Br(bb[p])
  <2>2. x.ev \notin Ends
    BY DEF Ins, Ends
  <2> HIDE DEF s, x, y
  <2>3. IsSeq(Append(s, x)) /\ Open(Append(s, x)) /\ IsSeq(s) /\ Open(s)
    BY <2>1, <2>2, AppendOpen DEF s
  <2>4. t = Append(s, y) \/ t = Append(Append(s, x), y)
    <3>1. \A u, z : IsSeq(u) => u \o <<z>> = Append(u, z) /\ u \o <<>> = u
      BY DEF IsSeq
    <3>2. t = s \o <<>> \o <<y>> \/ t = s \o <<x>> \o <<y>>
      BY DEF s, x, y
    <3> HIDE DEF t
    <3> QED
      BY <2>3, <3>1, <3>2
  <2>5. \A u : IsSeq(u) /\ Open(u) => IsSeq(Append(u, y)) /\ WellEnded(Append(u, y))
    BY AppendOpen
  <2> HIDE DEF t
  <2> QED
    BY <2>1, <2>3, <2>4, <2>5
<1> HIDE DEF t, p
<1>4. /\ BlocksOK(blocks')
      /\ \A b \in DOMAIN blocks : b \in DOMAIN blocks' /\ (b # cur => blocks'[b] = blocks[b])
  <2>1. CASE Closed(Call)
    BY <1>1, <2>1
  <2>2. CASE ~Closed(Call)
    <3>1. LET e == [blocks EXCEPT ![cur] = t]
          IN  BlocksOK(e) /\ DOMAIN e = DOMAIN blocks /\ \A b \in DOMAIN blocks : b # cur => e[b] = blocks[b]
      BY <1>3, <2>2, ReplaceFacts, Zenon
    <3> QED
      BY <1>1, <2>2, <3>1
  <2> QED
    BY <2>1, <2>2
<1>5. /\ StackOK(Returned, bb) /\ cur' \in DOMAIN blocks' /\ Open(blocks'[cur'])
      /\ BlankOK(Returned, bb, blocks', cur')
  BY <1>1, <1>2, <1>4, MovedOn
<1>6. CutInv'
  BY <1>1 DEF CodegenInv, CutInv
<1> QED
  BY <1>1, <1>4, <1>5, <1>6 DEF CodegenInv

LEMMA EndBodyStep ==
  ASSUME BlocksOK(blocks), CodegenInv, EndBody
  PROVE  BlocksOK(blocks') /\ CodegenInv'
<1>1. /\ work # <<>> /\ Call.do = "body" /\ Stmt \notin DOMAIN ast
      /\ UNCHANGED <<ast, blocks, bb, cur>> /\ work' = Returned
  BY DEF EndBody, passes
<1>2. StackOK(work, bb) /\ cur \in DOMAIN blocks /\ BlankOK(work, bb, blocks, cur) /\ CutInv
  BY DEF CodegenInv
<1>3. /\ StackOK(Returned, bb) /\ Len(Returned) = Len(work) - 1
      /\ \A i \in 1 .. Len(work) - 1 : Returned[i] = work[i]
      /\ Len(work) \in Nat /\ Len(work) >= 1 /\ Call \in Frame
  BY <1>1, <1>2, ReturnedFacts
<1>4. BlankOK(Returned, bb, blocks, cur)
  <2>1. \A i \in 1 .. Len(Returned) : i \in 1 .. Len(work) /\ Returned[i] = work[i]
    BY <1>3
  <2> QED
    BY <1>2, <2>1 DEF BlankOK
<1>5. ASSUME Returned # <<>>, ~Open(blocks[cur])
      PROVE  Closed(Returned[Len(Returned)])
  <2>1. PICK m \in Nat \ {0} : /\ Call.n = m + 1 /\ Call.at \o <<m>> \in DOMAIN ast
                               /\ ast[Call.at \o <<m>>].op \in Jumps
    BY <1>1, <1>5 DEF CodegenInv, Closed
  <2>2. EndsInJump(Call.at)
    <3>1. Call.at \in Paths
      BY <1>3 DEF Frame
    <3>2. Call.at \o <<m + 1>> \notin DOMAIN ast
      BY <1>1, <2>1 DEF Stmt
    <3> QED
      BY <2>1, <3>1, <3>2, JumpEnds
  <2>3. Len(Returned) >= 1
    BY <1>3, <1>5, EmptySeq DEF StackOK
  <2>4. /\ Len(work) \in 2 .. Len(work) /\ Len(work) - 1 \in 1 .. Len(work)
        /\ Returned[Len(Returned)] = work[Len(work) - 1]
    BY <1>3, <2>3
  <2> DEFINE fr == work[Len(work) - 1]
  <2>5. Under(fr, Call)
    BY <1>1, <1>2, <2>4 DEF StackOK, Call
  <2>6. Closed(fr)
    <3> HIDE DEF fr
    <3> QED
      BY <2>2, <2>5 DEF Under, Closed
  <2> QED
    BY <2>4, <2>6
<1>7. CutInv'
  BY <1>1, <1>2 DEF CutInv
<1>8. (work # <<>> /\ ~Open(blocks[cur]) => Closed(Call))'
  <2>1. Call' = Returned[Len(Returned)]
    BY <1>1 DEF Call
  <2>2. Closed(Call)' = Closed(Returned[Len(Returned)])
    BY <1>1, <2>1 DEF Closed, EndsInJump, LastStmtBr
  <2> QED
    BY <1>1, <1>5, <2>2
<1> QED
  BY <1>1, <1>2, <1>3, <1>4, <1>7, <1>8 DEF CodegenInv

LEMMA EndThenStep ==
  ASSUME BlocksOK(blocks), CodegenInv, EndThen
  PROVE  BlocksOK(blocks') /\ CodegenInv'
<1> DEFINE ins == Br(bb[Call.at] + 2)
           f == [do |-> "else", at |-> Call.at, n |-> 0]
           g == [do |-> "body", at |-> Call.at \o <<2>>, n |-> 1]
           w == Returned \o <<f, g>>
           R == Returned
<1>1. /\ work # <<>> /\ Call.do = "then" /\ UNCHANGED <<ast, bb>> /\ cur' = bb[Call.at] + 1
      /\ blocks' = IF Closed(Call) THEN blocks ELSE Emit(cur, ins)
  BY DEF EndThen, passes, Closed
<1>2. work' = w
  BY DEF EndThen
<1>3. StackOK(work, bb) /\ BlankOK(work, bb, blocks, cur) /\ CutInv
  BY DEF CodegenInv
<1>4. /\ StackOK(R, bb) /\ Len(R) = Len(work) - 1
      /\ \A i \in 1 .. Len(R) : R[i] = work[i] /\ i \in 1 .. Len(work) /\ i < Len(work)
      /\ Len(work) \in Nat /\ Len(work) >= 1 /\ Call \in Frame /\ Len(R) \in Nat
  BY <1>1, <1>3, ReturnedFacts
<1>5. /\ Len(work) \in 1 .. Len(work) /\ Call = work[Len(work)] /\ FrameOK(Call, bb)
  BY <1>3, <1>4 DEF Call, StackOK
<1>6. /\ f \in Frame /\ f.do = "else" /\ f.at = Call.at
      /\ g \in Frame /\ g.do = "body" /\ g.at = Call.at \o <<2>> /\ g.n = 1
      /\ Len(g.at) = Len(f.at) + 1 /\ Len(f.at) \in Nat
  BY <1>4, PathFacts DEF Frame
<1> HIDE DEF ins, f, g
<1>7. /\ w \in Seq(Frame) /\ Len(w) = Len(R) + 2
      /\ \A i \in 1 .. Len(R) : w[i] = R[i]
      /\ w[Len(R) + 1] = f /\ w[Len(R) + 2] = g
  <2>1. R \in Seq(Frame)
    BY <1>4 DEF StackOK
  <2> HIDE DEF R
  <2>2. /\ R \o <<f, g>> \in Seq(Frame) /\ Len(R \o <<f, g>>) = Len(R) + 2
        /\ \A i \in 1 .. Len(R) : (R \o <<f, g>>)[i] = R[i]
        /\ (R \o <<f, g>>)[Len(R) + 1] = f /\ (R \o <<f, g>>)[Len(R) + 2] = g
    BY <1>6, <2>1
  <2> QED
    BY <2>2 DEF R
<1> HIDE DEF w, R
<1>8. FrameOK(f, bb) /\ FrameOK(g, bb) /\ Under(f, g)
  <2>1. Len(f.at) % 2 = 1 /\ f.at \in DOMAIN bb /\ bb[f.at] \in Nat
    BY <1>1, <1>5, <1>6 DEF FrameOK
  <2>2. Len(g.at) % 2 = 0
    BY <1>6, <2>1, Parity
  <2>3. g.n >= 1
    BY <1>6
  <2>4. FrameOK(g, bb)
    BY <1>6, <2>2, <2>3, Zenon DEF FrameOK
  <2>5. FrameOK(f, bb)
    BY <1>6, <2>1, Zenon DEF FrameOK
  <2>6. Under(f, g)
    BY <1>6 DEF Under
  <2> QED
    BY <2>4, <2>5, <2>6
<1>9. \A i \in 1 .. Len(R) : Len(R[i].at) <= Len(f.at)
  <2> TAKE i \in 1 .. Len(R)
  <2>1. Len(work[i].at) <= Len(work[Len(work)].at)
    BY <1>3, <1>4, <1>5 DEF StackOK
  <2> QED
    BY <1>4, <1>5, <1>6, <2>1
<1>10. StackOK(w, bb)
  BY <1>4, <1>6, <1>7, <1>8, <1>9, PushedFacts
<1>11. /\ BlocksOK(blocks')
       /\ \A b \in DOMAIN blocks : b \in DOMAIN blocks' /\ (b # cur => blocks'[b] = blocks[b])
  BY <1>1, EndFacts
<1>12. Pending(Call, bb) = {bb[Call.at] + 1, bb[Call.at] + 2}
  BY <1>1 DEF Pending
<1>13. /\ cur' \in DOMAIN blocks' /\ Open(blocks'[cur'])
       /\ BlankOK(R, bb, blocks', cur')
  BY <1>1, <1>11, <1>12, MovedOn DEF R
<1>14. Pending(f, bb) = {bb[Call.at] + 2} /\ Pending(g, bb) = {}
  BY <1>6 DEF Pending
<1>15. \A b \in Pending(f, bb) : b \in DOMAIN blocks' /\ blocks'[b] = <<>> /\ b # cur'
  <2>1. ASSUME NEW b \in Pending(Call, bb)
        PROVE  b \in DOMAIN blocks /\ blocks[b] = <<>> /\ b # cur
    BY <1>3, <1>5, <2>1 DEF BlankOK
  <2>2. bb[Call.at] \in Nat
    BY <1>1, <1>5 DEF FrameOK
  <2> QED
    BY <1>1, <1>11, <1>12, <1>14, <2>1, <2>2
<1>16. \A i \in 1 .. Len(R) : Pending(R[i], bb) \cap Pending(f, bb) = {}
  <2> TAKE i \in 1 .. Len(R)
  <2>1. ASSUME NEW j \in 1 .. Len(work), i < j
        PROVE  Pending(work[i], bb) \cap Pending(work[j], bb) = {}
    BY <1>3, <1>4, <2>1 DEF BlankOK
  <2>2. Pending(R[i], bb) \cap Pending(Call, bb) = {}
    BY <1>4, <1>5, <2>1
  <2> QED
    BY <1>12, <1>14, <2>2
<1>17. BlankOK(w, bb, blocks', cur')
  <2>1. \A i \in 1 .. Len(w) : i \in 1 .. Len(R) \/ i = Len(R) + 1 \/ i = Len(R) + 2
    BY <1>4, <1>7
  <2>2. \A i \in 1 .. Len(w) : \A b \in Pending(w[i], bb) :
          b \in DOMAIN blocks' /\ blocks'[b] = <<>> /\ b # cur'
    BY <1>7, <1>13, <1>14, <1>15, <2>1 DEF BlankOK
  <2>3. ASSUME NEW i \in 1 .. Len(w), NEW j \in 1 .. Len(w), i < j
        PROVE  Pending(w[i], bb) \cap Pending(w[j], bb) = {}
    <3>1. CASE j \in 1 .. Len(R)
      <4>1. i \in 1 .. Len(R)
        BY <1>4, <2>3, <3>1
      <4> QED
        BY <1>7, <1>13, <2>3, <3>1, <4>1 DEF BlankOK
    <3>2. CASE j = Len(R) + 1
      <4>1. i \in 1 .. Len(R)
        BY <1>4, <2>3, <3>2
      <4> QED
        BY <1>7, <1>16, <3>2, <4>1
    <3>3. CASE j = Len(R) + 2
      BY <1>7, <1>14, <3>3
    <3> QED
      BY <2>1, <3>1, <3>2, <3>3
  <2> QED
    BY <2>2, <2>3 DEF BlankOK
<1>18. CutInv'
  BY <1>1, <1>3 DEF CutInv
<1> QED
  BY <1>1, <1>2, <1>10, <1>11, <1>13, <1>17, <1>18 DEF CodegenInv

-----------------------------------------------------------------------------
(* The whole function.                                                     *)

\* eliminate_unreachable_code leaves no statement behind a jump.
LEMMA EliminateStep ==
  ASSUME ast = prog, Eliminate
  PROVE  BlocksOK(blocks') /\ CodegenInv'
<1> DEFINE fr == [do |-> "body", at |-> <<>>, n |-> 1]
<1>1. /\ work' = <<fr>> /\ blocks' = << <<>> >> /\ cur' = 1 /\ UNCHANGED prog
      /\ ast' = [p \in {q \in DOMAIN ast : ~After(q, Jumps)} |-> ast[p]]
  BY DEF Eliminate, Restrict
<1>2. BlocksOK(blocks') /\ cur' \in DOMAIN blocks' /\ Open(blocks'[cur'])
  <2>1. << <<>> >> \in Seq({<<>>}) /\ DOMAIN << <<>> >> = {1} /\ << <<>> >>[1] = <<>>
    OBVIOUS
  <2>2. IsSeq(<< <<>> >>)
    BY <2>1, IsSeqOf
  <2>3. BlocksOK(<< <<>> >>)
    BY <2>1, <2>2, EmptyBlock DEF BlocksOK
  <2> QED
    BY <1>1, <2>1, <2>3, EmptyBlock
<1>3. StackOK(work', bb') /\ BlankOK(work', bb', blocks', cur')
  <2>1. fr \in Frame /\ fr.do = "body" /\ fr.at = <<>> /\ fr.n = 1
    BY DEF Frame, Paths
  <2> HIDE DEF fr
  <2>2. <<fr>> \in Seq(Frame) /\ Len(<<fr>>) = 1 /\ <<fr>>[1] = fr
    BY <2>1
  <2>3. FrameOK(fr, bb')
    BY <2>1 DEF FrameOK
  <2>4. StackOK(<<fr>>, bb')
    BY <2>2, <2>3 DEF StackOK
  <2>5. Pending(fr, bb') = {}
    BY <2>1 DEF Pending
  <2>6. BlankOK(<<fr>>, bb', blocks', cur')
    BY <2>2, <2>5 DEF BlankOK
  <2> QED
    BY <1>1, <2>4, <2>6
<1>4. ASSUME NEW q \in Paths, NEW m \in Nat \ {0}, q \o <<m>> \in DOMAIN ast',
             ast'[q \o <<m>>].op \in Jumps, q \o <<m + 1>> \in DOMAIN ast', Len(q) % 2 = 0
      PROVE  FALSE
  <2> DEFINE p == q \o <<m + 1>>
             b == q \o <<m>>
  <2>1. p \in Paths /\ Len(p) = Len(q) + 1 /\ Len(q) \in Nat /\ p[Len(p)] = m + 1 /\ Body(p) = q
    BY DEF Paths, Body
  <2>2. p \in Path(p)
    <3>1. Len(p) % 2 = 1
      BY <1>4, <2>1, Parity
    <3>2. (Len(p) + 1) \div 2 \in 1 .. (Len(p) + 1) \div 2 /\ 2 * ((Len(p) + 1) \div 2) - 1 = Len(p)
      BY <2>1, <3>1
    <3>3. SubSeq(p, 1, Len(p)) = p
      BY <2>1 DEF Paths
    <3> HIDE DEF p
    <3> QED
      BY <3>2, <3>3 DEF Path
  <2>3. b \in Before(p)
    BY <2>1 DEF Before
  <2>4. prog[b].op \in Jumps /\ ~After(p, Jumps)
    BY <1>1, <1>4
  <2> QED
    BY <2>2, <2>3, <2>4 DEF After
<1> QED
  BY <1>1, <1>2, <1>3, <1>4 DEF CodegenInv, CutInv

LEMMA EmitsOne ==
  ASSUME BlocksOK(blocks), CodegenInv, GenSimple \/ GenJump
  PROVE  BlocksOK(blocks') /\ (pc' = "codegen" => CodegenInv')
<1>1. CASE GenSimple
  <2>1. PICK op \in {"act", "return"} : Generating(op) /\ blocks' = Emit(cur, Ins(op, Stmt, <<>>))
    BY <1>1 DEF GenSimple
  <2>2. Ins(op, Stmt, <<>>).ev \in Ends => op \in Jumps
    BY <2>1 DEF Ins, Ends, Jumps
  <2>3. work' = Advanced /\ UNCHANGED <<ast, bb, cur>>
    BY <1>1 DEF GenSimple, passes
  <2> QED
    BY <2>1, <2>2, <2>3, EmitStep
<1>2. CASE GenJump
  <2>1. PICK op \in {"break", "continue"} :
          /\ Generating(op)
          /\ \/ \E to : blocks' = Emit(cur, Br(to))
             \/ pc' = "undefined" /\ UNCHANGED blocks
    BY <1>2 DEF GenJump
  <2>2. work' = Advanced /\ UNCHANGED <<ast, bb, cur>>
    BY <1>2 DEF GenJump, passes
  <2>3. CASE pc' = "undefined" /\ UNCHANGED blocks
    BY <2>3
  <2>4. CASE \E to : blocks' = Emit(cur, Br(to))
    <3>1. PICK to : blocks' = Emit(cur, Br(to))
      BY <2>4
    <3>2. Br(to).ev \in Ends => op \in Jumps
      BY DEF Jumps
    <3> QED
      BY <2>1, <2>2, <3>1, <3>2, EmitStep
  <2> QED
    BY <2>1, <2>3, <2>4
<1> QED
  BY <1>1, <1>2

LEMMA IStep ==
  ASSUME IInv, [Next]_vars
  PROVE  IInv'
<1>1. CASE ConnectLoops
  BY <1>1 DEF ConnectLoops, IInv, code
<1>2. CASE Eliminate
  <2>1. ast = prog /\ pc' = "codegen"
    BY <1>2 DEF Eliminate, IInv
  <2> QED
    BY <1>2, <2>1, EliminateStep DEF IInv
<1>3. CASE Codegen
  <2>1. pc = "codegen" /\ BlocksOK(blocks) /\ CodegenInv
    BY <1>3 DEF Codegen, GenSimple, GenJump, GenIf, EndThen, EndElse, GenFor, EndLoop, EndBody,
       Generating, IInv
  <2>2. pc' \in {"codegen", "undefined"}
    BY <1>3, <2>1 DEF Codegen, GenSimple, GenJump, GenIf, EndThen, EndElse, GenFor, EndLoop, EndBody
  <2>3. BlocksOK(blocks') /\ (pc' = "codegen" => CodegenInv')
    BY <1>3, <2>1, EmitsOne, GenIfStep, GenForStep, EndThenStep, EndElseStep, EndLoopStep, EndBodyStep
       DEF Codegen
  <2> QED
    BY <2>2, <2>3 DEF IInv
<1>4. CASE CallFunction \/ TakeBr \/ Execute \/ Finish
  <2>1. UNCHANGED <<passes, blocks>> /\ pc' \in {"run", "done", "undefined"}
    BY <1>4 DEF CallFunction, TakeBr, Execute, Finish, code
  <2> QED
    BY <2>1 DEF IInv
<1>5. CASE UNCHANGED vars
  <2>1. CodegenInv => CodegenInv'
    <3>1. UNCHANGED <<work, bb, blocks, cur, ast>>
      BY <1>5 DEF vars, passes, code
    <3>2. CutInv => CutInv'
      BY <3>1 DEF CutInv
    <3>3. Call' = Call
      BY <3>1 DEF Call
    <3>4. Closed(Call)' = Closed(Call)
      BY <3>1, <3>3 DEF Closed, EndsInJump, LastStmtBr
    <3> QED
      BY <3>1, <3>2, <3>4 DEF CodegenInv
  <2> QED
    BY <1>5, <2>1 DEF IInv, vars, passes, code
<1> QED
  BY <1>1, <1>2, <1>3, <1>4, <1>5 DEF Next, Stutter

\* Whatever the program, no instruction is emitted behind one that ends its
\* block: is_last_stmt_br keeps code_gen from closing a block twice, and the
\* insertion point is never moved back to a closed one.
THEOREM BlocksWellEnded == Spec => []OneTerminator
<1>1. Init => IInv
  <2>1. BlocksOK(<<>>)
    BY EmptyBlock DEF BlocksOK
  <2> QED
    BY <2>1 DEF Init, IInv
<1>2. IInv => OneTerminator
  BY DEF IInv, BlocksOK, WellEnded, OneTerminator, Ends
<1> QED
  BY <1>1, <1>2, IStep, PTL DEF Spec

-----------------------------------------------------------------------------
(* Paths.                                                                  *)

\* A statement of the body q.
LEMMA InBody ==
  ASSUME NEW q \in Paths, NEW n \in Nat
  PROVE  LET s == q \o <<n>>
         IN  /\ s \in Paths /\ Len(s) = Len(q) + 1 /\ Len(q) \in Nat /\ s[Len(s)] = n
             /\ Body(s) = q /\ [s EXCEPT ![Len(s)] = @ + 1] = q \o <<n + 1>>
             /\ Before(s) = {q \o <<i>> : i \in 1 .. n - 1}
<1> DEFINE s == q \o <<n>>
<1>1. /\ s \in Paths /\ Len(s) = Len(q) + 1 /\ Len(q) \in Nat /\ s[Len(s)] = n
      /\ SubSeq(s, 1, Len(s) - 1) = q /\ \A i \in 1 .. Len(q) : s[i] = q[i]
  BY DEF Paths
<1>2. [s EXCEPT ![Len(s)] = @ + 1] = q \o <<n + 1>>
  <2> DEFINE t == q \o <<n + 1>>
             e == [s EXCEPT ![Len(s)] = s[Len(s)] + 1]
  <2>1. /\ t \in Paths /\ Len(t) = Len(q) + 1 /\ t[Len(t)] = n + 1
        /\ \A i \in 1 .. Len(q) : t[i] = q[i]
    BY DEF Paths
  <2>2. /\ e \in Seq(Nat) /\ Len(e) = Len(s)
        /\ \A i \in 1 .. Len(s) : e[i] = IF i = Len(s) THEN s[Len(s)] + 1 ELSE s[i]
    <3>1. s \in Seq(Nat) /\ s[Len(s)] + 1 \in Nat /\ Len(s) \in 1 .. Len(s)
      BY <1>1 DEF Paths
    <3> HIDE DEF s
    <3> QED
      BY <3>1, ExceptSeq
  <2> HIDE DEF e, t
  <2>4. e = t
    <3> HIDE DEF s
    <3>1. \A i \in 1 .. Len(t) : e[i] = t[i]
      BY <1>1, <2>1, <2>2
    <3> QED
      BY <1>1, <2>1, <2>2, <3>1, SeqEqual DEF Paths
  <2> QED
    BY <2>4 DEF e, t
<1>3. Body(s) = q
  BY <1>1 DEF Body
<1>4. Before(s) = {q \o <<i>> : i \in 1 .. n - 1}
  BY <1>1, <1>3 DEF Before
<1> QED
  BY <1>1, <1>2, <1>3, <1>4

\* Prefixes.
LEMMA SubSub ==
  ASSUME NEW s \in Paths, NEW m \in 0 .. Len(s), NEW k \in 0 .. m
  PROVE  /\ SubSeq(s, 1, m) \in Paths /\ Len(SubSeq(s, 1, m)) = m
         /\ \A i \in 1 .. m : SubSeq(s, 1, m)[i] = s[i]
         /\ SubSeq(SubSeq(s, 1, m), 1, k) = SubSeq(s, 1, k)
<1>1. Len(s) \in Nat /\ s \in Seq(Nat)
  BY DEF Paths
<1> DEFINE t == SubSeq(s, 1, m)
<1>2. t \in Seq(Nat) /\ Len(t) = m /\ \A i \in 1 .. m : t[i] = s[i]
  BY <1>1
<1> HIDE DEF t
<1>3. /\ SubSeq(t, 1, k) \in Seq(Nat) /\ Len(SubSeq(t, 1, k)) = k
      /\ \A i \in 1 .. k : SubSeq(t, 1, k)[i] = t[i]
  BY <1>2
<1>4. /\ SubSeq(s, 1, k) \in Seq(Nat) /\ Len(SubSeq(s, 1, k)) = k
      /\ \A i \in 1 .. k : SubSeq(s, 1, k)[i] = s[i]
  BY <1>1
<1>5. \A i \in 1 .. k : SubSeq(t, 1, k)[i] = SubSeq(s, 1, k)[i]
  BY <1>2, <1>3, <1>4
<1>6. SubSeq(t, 1, k) = SubSeq(s, 1, k)
  BY <1>3, <1>4, <1>5, SeqEqual
<1> QED
  BY <1>2, <1>6 DEF t, Paths

\* Every path that is not empty is that of a statement of a body.
LEMMA BodyAndLast ==
  ASSUME NEW s \in Paths, s # <<>>
  PROVE  /\ Body(s) \in Paths /\ s[Len(s)] \in Nat /\ s = Body(s) \o <<s[Len(s)]>>
         /\ Len(s) = Len(Body(s)) + 1
<1>1. Len(s) \in Nat /\ Len(s) >= 1
  BY EmptySeq DEF Paths
<1>2. Body(s) \in Paths /\ Len(Body(s)) = Len(s) - 1 /\ \A i \in 1 .. Len(s) - 1 : Body(s)[i] = s[i]
  <2> DEFINE m == Len(s) - 1
  <2>1. m \in 0 .. Len(s) /\ 0 \in 0 .. m
    BY <1>1
  <2> HIDE DEF m
  <2>2. SubSeq(s, 1, m) \in Paths /\ Len(SubSeq(s, 1, m)) = m /\ \A i \in 1 .. m : SubSeq(s, 1, m)[i] = s[i]
    BY <2>1, SubSub
  <2> QED
    BY <2>2 DEF Body, m
<1>3. s[Len(s)] \in Nat
  BY <1>1 DEF Paths
<1> DEFINE q == Body(s)
           n == s[Len(s)]
<1>4. q \o <<n>> \in Seq(Nat) /\ Len(q \o <<n>>) = Len(s) /\ \A i \in 1 .. Len(s) : (q \o <<n>>)[i] = s[i]
  <2> HIDE DEF q, n
  <2>1. q \in Seq(Nat) /\ n \in Nat /\ Len(q) = Len(s) - 1 /\ \A i \in 1 .. Len(s) - 1 : q[i] = s[i]
    BY <1>2, <1>3 DEF q, n, Paths
  <2>2. n = s[Len(s)]
    BY DEF n
  <2> QED
    BY <1>1, <2>1, <2>2
<1>5. q \o <<n>> = s
  BY <1>4, SeqEqual DEF Paths
<1> QED
  BY <1>1, <1>2, <1>3, <1>5

\* What the path of a statement leads through.
LEMMA PathOf ==
  ASSUME NEW s \in Paths, NEW a \in Path(s)
  PROVE  /\ a \in Paths /\ Len(a) \in Nat /\ Len(a) <= Len(s) /\ Len(s) \in Nat
         /\ a # s => Len(a) < Len(s)
<1>1. PICK k \in 1 .. (Len(s) + 1) \div 2 : a = SubSeq(s, 1, 2 * k - 1)
  BY DEF Path
<1>2. Len(s) \in Nat
  BY DEF Paths
<1>3. 2 * k - 1 \in 0 .. Len(s)
  BY <1>2
<1>4. a \in Paths /\ Len(a) = 2 * k - 1
  BY <1>1, <1>3, SubSub
<1>5. SubSeq(s, 1, Len(s)) = s
  BY DEF Paths
<1>6. CASE 2 * k - 1 = Len(s)
  BY <1>1, <1>2, <1>4, <1>5, <1>6
<1>7. CASE 2 * k - 1 # Len(s)
  BY <1>2, <1>3, <1>4, <1>7
<1> QED
  BY <1>6, <1>7

\* The path of a statement of a body of p leads through p.
LEMMA PathInside ==
  ASSUME NEW p \in Paths, Len(p) % 2 = 1, NEW b \in Nat, NEW n \in Nat
  PROVE  LET s == p \o <<b>> \o <<n>>
         IN  Path(s) = Path(p) \cup {s} /\ s \notin Path(p) /\ p \in Path(p)
<1> DEFINE s == p \o <<b>> \o <<n>>
           L == Len(p)
<1>1. s \in Paths /\ Len(s) = L + 2 /\ L \in Nat
  <2>1. p \o <<b>> \in Paths /\ Len(p \o <<b>>) = L + 1 /\ L \in Nat
    BY InBody
  <2> HIDE DEF L
  <2>2. s \in Paths /\ Len(s) = Len(p \o <<b>>) + 1
    BY <2>1, InBody
  <2> QED
    BY <2>1, <2>2
<1>2. SubSeq(s, 1, L) = p
  <2>1. p \o <<b>> \in Paths /\ Len(p \o <<b>>) = L + 1 /\ Body(p \o <<b>>) = p
    BY InBody
  <2>2. Body(s) = p \o <<b>>
    BY <2>1, InBody
  <2> QED
    BY <1>1, <2>1, <2>2, SubSub DEF Body
<1>3. SubSeq(s, 1, L + 2) = s
  BY <1>1 DEF Paths
<1> HIDE DEF s
<1>4. PICK h \in Nat : L = 2 * h + 1
  BY <1>1
<1>5. (L + 1) \div 2 = h + 1 /\ (L + 3) \div 2 = h + 2 /\ (Len(s) + 1) \div 2 = h + 2
  BY <1>1, <1>4
<1> HIDE DEF L
<1>6. \A k \in 1 .. h + 1 : SubSeq(s, 1, 2 * k - 1) = SubSeq(p, 1, 2 * k - 1)
  <2> TAKE k \in 1 .. h + 1
  <2>1. 2 * k - 1 \in 0 .. L /\ L \in 0 .. Len(s)
    BY <1>1, <1>4
  <2> QED
    BY <1>1, <1>2, <2>1, SubSub
<1>7. Path(s) = {SubSeq(s, 1, 2 * k - 1) : k \in 1 .. h + 2} /\ Path(p) = {SubSeq(p, 1, 2 * k - 1) : k \in 1 .. h + 1}
  BY <1>1, <1>5 DEF Path, L
<1>8. \A k : k \in 1 .. h + 2 <=> (k \in 1 .. h + 1 \/ k = h + 2)
  BY <1>4
<1>9. SubSeq(s, 1, 2 * (h + 2) - 1) = s
  BY <1>1, <1>3, <1>4
<1>10. Path(s) = Path(p) \cup {s}
  BY <1>6, <1>7, <1>8, <1>9
<1>11. s \notin Path(p)
  BY <1>1, PathOf DEF L
<1>12. p \in Path(p)
  <2>1. SubSeq(p, 1, 2 * (h + 1) - 1) = p /\ h + 1 \in 1 .. h + 1
    BY <1>1, <1>4 DEF L, Paths
  <2> QED
    BY <1>7, <2>1
<1> QED
  BY <1>10, <1>11, <1>12 DEF s

\* The path of a statement of the function is that statement only.
LEMMA PathOutside ==
  ASSUME NEW q \in Paths, Len(q) = 0, NEW n \in Nat
  PROVE  Path(q \o <<n>>) = {q \o <<n>>}
<1> DEFINE s == q \o <<n>>
<1>1. s \in Paths /\ Len(s) = 1 /\ SubSeq(s, 1, 1) = s
  <2>1. s \in Paths /\ Len(s) = Len(q) + 1
    BY InBody, Zenon
  <2> HIDE DEF s
  <2> QED
    BY <2>1 DEF Paths
<1> HIDE DEF s
<1>2. 1 .. (Len(s) + 1) \div 2 = {1}
  BY <1>1
<1>3. Path(s) = {SubSeq(s, 1, 2 * k - 1) : k \in {1}}
  BY <1>2 DEF Path
<1> QED
  BY <1>1, <1>3 DEF s

\* The loops that the statements of a body stand in.
LEMMA LoopsInside ==
  ASSUME NEW p \in Paths, Len(p) % 2 = 1, NEW b \in Nat, NEW n \in Nat
  PROVE  Loops(p \o <<b>> \o <<n>>) = Loops(p) \cup (IF prog[p].op = "for" THEN {p} ELSE {})
<1> DEFINE s == p \o <<b>> \o <<n>>
<1>1. Path(s) = Path(p) \cup {s} /\ s \notin Path(p) /\ p \in Path(p)
  BY PathInside
<1> HIDE DEF s
<1>2. Loops(s) = Loops(p) \cup (IF prog[p].op = "for" THEN {p} ELSE {})
  BY <1>1 DEF Loops
<1> QED
  BY <1>2 DEF s

LEMMA LoopsOutside ==
  ASSUME NEW q \in Paths, Len(q) = 0, NEW n \in Nat
  PROVE  Loops(q \o <<n>>) = {}
BY PathOutside DEF Loops

LEMMA LoopsOfBody ==
  ASSUME NEW q \in Paths, Len(q) % 2 = 0, NEW m \in Nat, NEW n \in Nat
  PROVE  Loops(q \o <<m>>) = Loops(q \o <<n>>)
<1>1. CASE Len(q) = 0
  BY <1>1, LoopsOutside
<1>2. CASE Len(q) # 0
  <2> DEFINE p == Body(q)
             b == q[Len(q)]
  <2>1. p \in Paths /\ b \in Nat /\ q = p \o <<b>> /\ Len(q) = Len(p) + 1 /\ Len(p) \in Nat
    <3>1. q # <<>> /\ \A x \in Paths : Len(x) \in Nat
      BY <1>2 DEF Paths
    <3> QED
      BY <3>1, BodyAndLast
  <2> HIDE DEF p, b
  <2>2. Len(p) % 2 = 1
    BY <2>1
  <2>3. Loops(p \o <<b>> \o <<m>>) = Loops(p \o <<b>> \o <<n>>)
    <3> DEFINE U == Loops(p) \cup (IF prog[p].op = "for" THEN {p} ELSE {})
    <3>1. Loops(p \o <<b>> \o <<m>>) = U
      BY <2>1, <2>2, LoopsInside
    <3>2. Loops(p \o <<b>> \o <<n>>) = U
      BY <2>1, <2>2, LoopsInside
    <3> QED
      BY <3>1, <3>2
  <2> QED
    BY <2>1, <2>3, Zenon
<1> QED
  BY <1>1, <1>2

\* A statement in a loop has an innermost one.
LEMMA InnermostLoop ==
  ASSUME NEW s \in Paths, Loops(s) # {}
  PROVE  Innermost(s) \in Loops(s)
<1> DEFINE T == {Len(s) - Len(a) : a \in Loops(s)}
<1>1. \A a \in Loops(s) : Len(a) \in Nat /\ Len(a) <= Len(s) /\ Len(s) \in Nat
  BY PathOf DEF Loops
<1>2. T \subseteq Nat /\ T # {}
  BY <1>1
<1>3. PICK x \in T : \A y \in T : x <= y
  <2> HIDE DEF T
  <2> QED
    BY <1>2, LeastNat
<1>4. PICK a \in Loops(s) : x = Len(s) - Len(a)
  BY <1>3
<1>5. \A b \in Loops(s) : Len(b) <= Len(a)
  <2> TAKE b \in Loops(s)
  <2>1. x <= Len(s) - Len(b)
    BY <1>3
  <2> QED
    BY <1>1, <1>4, <2>1
<1> QED
  BY <1>4, <1>5 DEF Innermost

-----------------------------------------------------------------------------
(* The source program.                                                     *)

LEMMA Statement ==
  ASSUME WellFormed(prog), NEW s \in DOMAIN prog
  PROVE  /\ s \in Paths /\ s # <<>> /\ Len(s) \in Nat /\ Len(s) % 2 = 1 /\ Path(s) \subseteq DOMAIN prog
         /\ Body(s) \in Paths /\ s[Len(s)] \in Nat \ {0} /\ s = Body(s) \o <<s[Len(s)]>>
         /\ Len(Body(s)) % 2 = 0 /\ Len(s) = Len(Body(s)) + 1 /\ Len(Body(s)) \in Nat
<1>1. s \in Seq(Nat \ {0}) /\ Len(s) % 2 = 1 /\ Path(s) \subseteq DOMAIN prog
  BY DEF WellFormed
<1>2. s \in Paths /\ s # <<>> /\ Len(s) \in Nat /\ s[Len(s)] \in Nat \ {0}
  BY <1>1 DEF Paths
<1>3. Body(s) \in Paths /\ s = Body(s) \o <<s[Len(s)]>> /\ Len(s) = Len(Body(s)) + 1
  BY <1>2, BodyAndLast
<1>4. Len(Body(s)) \in Nat
  BY <1>3 DEF Paths
<1>5. Len(Body(s)) % 2 = 0
  BY <1>1, <1>3, <1>4
<1> QED
  BY <1>1, <1>2, <1>3, <1>4, <1>5

\* What the program does when it comes to the end of the body q, and when it
\* comes to place n of it.
Out(q, finished) ==
  IF q = <<>> THEN End
  ELSE IF prog[Body(q)].op = "for" THEN Again(Body(q)) ELSE finished[Body(q)]
ComeWith(q, n, finished) ==
  IF q \o <<n>> \in DOMAIN prog THEN Comes(q \o <<n>>, finished) ELSE Out(q, finished)
Come(q, n) == ComeWith(q, n, Finished)

NextOf(p, finished) == ComeWith(Body(p), p[Len(p)] + 1, finished)

LEMMA FinishedIs ==
  ASSUME WellFormed(prog)
  PROVE  Finished = CHOOSE f : f = [p \in DOMAIN prog |-> NextOf(p, f)]
<1> DEFINE G(p, f) ==
             LET next == [p EXCEPT ![Len(p)] = @ + 1]
             IN  IF next \in DOMAIN prog THEN Comes(next, f)
                 ELSE IF Len(p) = 1 THEN End
                 ELSE IF prog[Parent(p)].op = "for" THEN Again(Parent(p)) ELSE f[Parent(p)]
<1>1. ASSUME NEW p \in DOMAIN prog, NEW f
      PROVE  G(p, f) = NextOf(p, f)
  <2> DEFINE next == [p EXCEPT ![Len(p)] = @ + 1]
  <2>1. /\ p \in Paths /\ Body(p) \in Paths /\ p[Len(p)] \in Nat /\ p = Body(p) \o <<p[Len(p)]>>
        /\ Len(p) = Len(Body(p)) + 1 /\ Len(Body(p)) \in Nat
    BY Statement
  <2>2. next = Body(p) \o <<p[Len(p)] + 1>>
    <3> DEFINE m == p[Len(p)]
               q == Body(p)
    <3>1. q \in Paths /\ m \in Nat /\ p = q \o <<m>>
      BY <2>1
    <3> HIDE DEF m, q
    <3>2. [(q \o <<m>>) EXCEPT ![Len(q \o <<m>>)] = @ + 1] = q \o <<m + 1>>
      BY <3>1, InBody
    <3> QED
      BY <3>1, <3>2, Zenon DEF m, q
  <2>3. Len(p) = 1 <=> Body(p) = <<>>
    BY <2>1, EmptySeq DEF Paths
  <2>4. Len(p) # 1 => Parent(p) = Body(Body(p))
    <3> SUFFICES ASSUME Len(p) # 1 PROVE Parent(p) = Body(Body(p))
      OBVIOUS
    <3>1. Len(p) - 1 \in 0 .. Len(p) /\ Len(p) - 2 \in 0 .. Len(p) - 1 /\ Len(Body(p)) = Len(p) - 1
      BY <2>1
    <3>2. SubSeq(SubSeq(p, 1, Len(p) - 1), 1, Len(p) - 2) = SubSeq(p, 1, Len(p) - 2)
      BY <2>1, <3>1, SubSub
    <3>3. Len(Body(p)) - 1 = Len(p) - 2
      BY <2>1
    <3> QED
      BY <3>2, <3>3 DEF Body, Parent
  <2> HIDE DEF next
  <2> QED
    BY <2>2, <2>3, <2>4 DEF NextOf, ComeWith, Out, next
<1>2. Finished = CHOOSE f : f = [p \in DOMAIN prog |-> G(p, f)]
  BY Zenon DEF Finished
<1> HIDE DEF G
<1>3. \A f : [p \in DOMAIN prog |-> G(p, f)] = [p \in DOMAIN prog |-> NextOf(p, f)]
  BY <1>1
<1> QED
  BY <1>2, <1>3

LEMMA ParityBefore ==
  ASSUME NEW k \in Nat
  PROVE  (k + 1) % 2 = 0 => k % 2 = 1
OBVIOUS

\* The statement that a body is part of.
LEMMA Outer ==
  ASSUME WellFormed(prog), NEW s \in DOMAIN prog, Body(s) # <<>>
  PROVE  LET q == Body(s)
         IN  /\ Body(q) \in DOMAIN prog /\ q[Len(q)] \in Nat /\ q = Body(q) \o <<q[Len(q)]>>
             /\ Len(q) = Len(Body(q)) + 1 /\ Body(q) \in Path(s) /\ Body(q) # s
<1> DEFINE q == Body(s)
           p == Body(q)
           b == q[Len(q)]
           n == s[Len(s)]
<1>1. /\ s \in Paths /\ q \in Paths /\ n \in Nat /\ s = q \o <<n>> /\ Len(s) = Len(q) + 1
      /\ Path(s) \subseteq DOMAIN prog /\ Len(q) % 2 = 0
  BY Statement
<1>2. p \in Paths /\ b \in Nat /\ q = p \o <<b>> /\ Len(q) = Len(p) + 1
  BY <1>1, BodyAndLast
<1> HIDE DEF n, b, p, q
<1>3. Len(p) \in Nat
  BY <1>2 DEF Paths
<1>4. Len(p) % 2 = 1
  <2>1. (Len(p) + 1) % 2 = 0
    BY <1>1, <1>2
  <2> QED
    BY <1>3, <2>1, ParityBefore
<1>5. s = p \o <<b>> \o <<n>>
  BY <1>1, <1>2
<1>6. Path(s) = Path(p) \cup {s} /\ s \notin Path(p) /\ p \in Path(p)
  <2>1. LET t == p \o <<b>> \o <<n>>
        IN  Path(t) = Path(p) \cup {t} /\ t \notin Path(p) /\ p \in Path(p)
    BY <1>1, <1>2, <1>4, PathInside
  <2> QED
    BY <1>5, <2>1, Zenon
<1> QED
  BY <1>1, <1>2, <1>6 DEF p, b, q

\* What comes after p is what comes after a statement that stands less deep, if
\* it is another statement's to say.
LEMMA NextOfOuter ==
  ASSUME WellFormed(prog), NEW p \in DOMAIN prog, NEW f, NEW g,
         \A a \in DOMAIN prog : Len(a) < Len(p) => f[a] = g[a]
  PROVE  NextOf(p, f) = NextOf(p, g)
<1> DEFINE q == Body(p)
           n == p[Len(p)] + 1
           s == q \o <<n>>
<1>1. /\ p \in Paths /\ q \in Paths /\ n \in Nat /\ Len(p) = Len(q) + 1 /\ Len(q) \in Nat
      /\ Len(q) % 2 = 0
  <2>1. /\ p \in Paths /\ q \in Paths /\ p[Len(p)] \in Nat \ {0} /\ Len(p) = Len(q) + 1
        /\ Len(q) \in Nat /\ Len(q) % 2 = 0
    BY Statement, Zenon
  <2> QED
    BY <2>1
<1>2. CASE s \in DOMAIN prog
  <2>1. s \in Paths /\ Len(s) = Len(p) /\ Path(s) \subseteq DOMAIN prog
    <3>1. Len(s) = Len(q) + 1
      BY <1>1, InBody
    <3> QED
      BY <1>1, <1>2, <3>1, Statement
  <2> HIDE DEF s
  <2>2. Loops(s) # {} => f[Innermost(s)] = g[Innermost(s)]
    <3> SUFFICES ASSUME Loops(s) # {} PROVE f[Innermost(s)] = g[Innermost(s)]
      OBVIOUS
    <3>1. Innermost(s) \in Path(s) /\ Innermost(s) # s
      BY <2>1, InnermostLoop DEF Loops
    <3>2. Len(Innermost(s)) < Len(p)
      BY <2>1, <3>1, PathOf
    <3> QED
      BY <2>1, <3>1, <3>2
  <2>3. Comes(s, f) = Comes(s, g)
    BY <2>2, Zenon DEF Comes
  <2> QED
    BY <1>2, <2>3 DEF NextOf, ComeWith, s
<1>3. CASE s \notin DOMAIN prog
  <2>1. CASE q = <<>>
    BY <1>3, <2>1 DEF NextOf, ComeWith, Out
  <2>2. CASE q # <<>>
    <3>1. Body(q) \in DOMAIN prog /\ Len(Body(q)) < Len(p)
      <4>1. Body(q) \in DOMAIN prog /\ Body(q) \in Path(p) /\ Body(q) # p
        BY <2>2, Outer
      <4> QED
        BY <1>1, <4>1, PathOf
    <3> HIDE DEF q, n, s
    <3> QED
      BY <1>3, <2>2, <3>1 DEF NextOf, ComeWith, Out, q, n, s
  <2> QED
    BY <2>1, <2>2
<1> QED
  BY <1>2, <1>3
\* The recursion of Finished has a solution: it goes to statements that stand
\* less deep.
LEMMA FinishedEquation ==
  ASSUME WellFormed(prog)
  PROVE  Finished = [p \in DOMAIN prog |-> NextOf(p, Finished)]
<1> DEFINE Upto(f, n) == /\ f = [p \in DOMAIN prog |-> f[p]]
                        /\ \A p \in DOMAIN prog : Len(p) <= n => f[p] = NextOf(p, f)
           S == {n \in Nat : \E f : Upto(f, n)}
<1>1. \A p \in DOMAIN prog : Len(p) \in Nat /\ Len(p) >= 1
  <2>1. \A p \in DOMAIN prog : Len(p) = Len(Body(p)) + 1 /\ Len(Body(p)) \in Nat
    BY Statement, Zenon
  <2> QED
    BY <2>1
<1>2. 0 \in S
  <2>1. Upto([p \in DOMAIN prog |-> 0], 0)
    BY <1>1
  <2> QED
    BY <2>1
<1>3. ASSUME NEW n \in Nat, n \in S
      PROVE  n + 1 \in S
  <2>1. PICK f : Upto(f, n)
    BY <1>3
  <2> DEFINE g == [p \in DOMAIN prog |-> IF Len(p) <= n THEN f[p] ELSE NextOf(p, f)]
  <2>2. ASSUME NEW p \in DOMAIN prog, Len(p) <= n + 1
        PROVE  g[p] = NextOf(p, g)
    <3>1. \A a \in DOMAIN prog : Len(a) < Len(p) => f[a] = g[a]
      BY <1>1, <2>2
    <3>2. g[p] = NextOf(p, f)
      BY <2>1
    <3> HIDE DEF g
    <3> QED
      BY <3>1, <3>2, NextOfOuter
  <2>3. g = [p \in DOMAIN prog |-> g[p]]
    OBVIOUS
  <2> HIDE DEF g
  <2>4. Upto(g, n + 1)
    BY <2>2, <2>3
  <2> QED
    BY <2>4
<1>4. PICK d \in Nat : \A p \in DOMAIN prog : Len(p) <= d
  <2>1. PICK d \in {Len(p) : p \in DOMAIN prog} \cup {0} : \A p \in DOMAIN prog : Len(p) <= d
    BY DEF WellFormed
  <2> QED
    BY <1>1, <2>1
<1>5. d \in S
  <2> HIDE DEF S
  <2> QED
    BY <1>2, <1>3, Induction
<1>6. PICK f : Upto(f, d)
  BY <1>5
<1>7. f = [p \in DOMAIN prog |-> NextOf(p, f)]
  BY <1>4, <1>6
<1> QED
  BY <1>7, FinishedIs, Zenon

-----------------------------------------------------------------------------
(* What eliminate_unreachable_code leaves.                                 *)

AstOK ==
  /\ \A s : s \in DOMAIN ast <=> s \in DOMAIN prog /\ ~After(s, Jumps)
  /\ \A s \in DOMAIN ast : ast[s] = prog[s]

LEMMA AfterInBody ==
  ASSUME NEW q \in Paths, Len(q) % 2 = 0, NEW n \in Nat, NEW ops
  PROVE  After(q \o <<n>>, ops) <=>
           \/ q # <<>> /\ After(Body(q), ops)
           \/ \E i \in 1 .. n - 1 : prog[q \o <<i>>].op \in ops
<1> DEFINE s == q \o <<n>>
<1>1. Before(s) = {q \o <<i>> : i \in 1 .. n - 1}
  BY InBody
<1>2. (\E b \in Before(s) : prog[b].op \in ops) <=> \E i \in 1 .. n - 1 : prog[q \o <<i>>].op \in ops
  <2> HIDE DEF s
  <2> QED
    BY <1>1
<1>3. CASE q = <<>>
  <2>1. Len(q) = 0
    BY <1>3
  <2>2. Path(s) = {s}
    BY <2>1, PathOutside
  <2> HIDE DEF s
  <2>3. After(s, ops) <=> \E b \in Before(s) : prog[b].op \in ops
    BY <2>2 DEF After
  <2> QED
    BY <1>2, <1>3, <2>3 DEF s
<1>4. CASE q # <<>>
  <2> DEFINE p == Body(q)
             b == q[Len(q)]
  <2>1. p \in Paths /\ b \in Nat /\ q = p \o <<b>> /\ Len(q) = Len(p) + 1
    BY <1>4, BodyAndLast
  <2> HIDE DEF p, b
  <2>2. Len(p) % 2 = 1
    <3>1. Len(p) \in Nat /\ (Len(p) + 1) % 2 = 0
      BY <2>1 DEF Paths
    <3> QED
      BY <3>1, ParityBefore
  <2>3. Path(s) = Path(p) \cup {s}
    <3>1. LET t == p \o <<b>> \o <<n>>
          IN  Path(t) = Path(p) \cup {t} /\ t \notin Path(p) /\ p \in Path(p)
      BY <2>1, <2>2, PathInside
    <3> QED
      BY <2>1, <3>1, Zenon DEF s
  <2> HIDE DEF s
  <2>4. After(s, ops) <=> After(p, ops) \/ \E c \in Before(s) : prog[c].op \in ops
    BY <2>3 DEF After
  <2> QED
    BY <1>2, <1>4, <2>4 DEF s, p
<1> QED
  BY <1>3, <1>4

\* What is left of a body are its first statements.
LEMMA AstContiguous ==
  ASSUME WellFormed(prog), AstOK, NEW q \in Paths, Len(q) % 2 = 0, NEW m \in Nat \ {0},
         q \o <<m>> \in DOMAIN ast, NEW k \in 1 .. m
  PROVE  q \o <<k>> \in DOMAIN ast
<1>1. CASE k = m
  BY <1>1
<1>2. CASE k # m
  <2>1. k \in 1 .. m - 1 /\ k \in Nat
    BY <1>2
  <2>2. Before(q \o <<m>>) = {q \o <<i>> : i \in 1 .. m - 1}
    BY InBody
  <2>3. q \o <<m>> \in DOMAIN prog /\ ~After(q \o <<m>>, Jumps)
    BY DEF AstOK
  <2>4. q \o <<k>> \in DOMAIN prog
    BY <2>1, <2>2, <2>3 DEF WellFormed
  <2>5. ~After(q \o <<k>>, Jumps)
    <3>1. \A i \in 1 .. k - 1 : i \in 1 .. m - 1
      BY <2>1
    <3> QED
      BY <2>1, <2>3, <3>1, AfterInBody
  <2> QED
    BY <2>4, <2>5 DEF AstOK
<1> QED
  BY <1>1, <1>2

\* A statement that was cut, in a body that was not, comes after a jump.
LEMMA CutAfterJump ==
  ASSUME WellFormed(prog), AstOK, NEW q \in Paths, Len(q) % 2 = 0, NEW n \in Nat \ {0},
         q # <<>> => Body(q) \in DOMAIN ast, n = 1 \/ q \o <<n - 1>> \in DOMAIN ast,
         q \o <<n>> \in DOMAIN prog, q \o <<n>> \notin DOMAIN ast
  PROVE  n > 1 /\ ast[q \o <<n - 1>>].op \in Jumps
<1>1. After(q \o <<n>>, Jumps)
  BY DEF AstOK
<1>2. q # <<>> => ~After(Body(q), Jumps)
  BY DEF AstOK
<1>3. PICK i \in 1 .. n - 1 : prog[q \o <<i>>].op \in Jumps
  BY <1>1, <1>2, AfterInBody
<1>4. n > 1 /\ n - 1 \in Nat /\ q \o <<n - 1>> \in DOMAIN ast
  BY <1>3
<1>5. i = n - 1
  <2> SUFFICES ASSUME i # n - 1 PROVE FALSE
    OBVIOUS
  <2>1. i \in 1 .. (n - 1) - 1
    BY <1>3
  <2>2. After(q \o <<n - 1>>, Jumps)
    BY <1>3, <1>4, <2>1, AfterInBody
  <2> QED
    BY <1>4, <2>2 DEF AstOK
<1> QED
  BY <1>3, <1>4, <1>5 DEF AstOK

-----------------------------------------------------------------------------
(* is_last_stmt_br.                                                        *)

Inner == {p \o <<b>> : p \in DOMAIN ast, b \in 1 .. 2}

LEMMA LastStmtOfInner ==
  ASSUME WellFormed(prog), AstOK, NEW q, NEW e, NEW f,
         \A p \in DOMAIN ast : Body(p) = q => e[p \o << 1 >>] = f[p \o << 1 >>] /\ e[p \o << 2 >>] = f[p \o << 2 >>]
  PROVE  LastStmtBr(q, e) = LastStmtBr(q, f)
BY Zenon DEF LastStmtBr

LEMMA EndsEquation ==
  ASSUME WellFormed(prog), AstOK
  PROVE  \E e : /\ e = [r \in Inner |-> LastStmtBr(r, e)]
                /\ \A q : EndsInJump(q) = LastStmtBr(q, e)
<1> DEFINE Downto(f, n) == /\ f = [r \in Inner |-> f[r]]
                          /\ \A r \in Inner : Len(r) >= n => f[r] = LastStmtBr(r, f)
           Chosen == CHOOSE e : e = [r \in Inner |-> LastStmtBr(r, e)]
<1>1. PICK d \in Nat : \A p \in DOMAIN prog : Len(p) <= d
  <2>1. \A p \in DOMAIN prog : Len(p) \in Nat
    BY Statement
  <2>2. PICK d \in {Len(p) : p \in DOMAIN prog} \cup {0} : \A p \in DOMAIN prog : Len(p) <= d
    BY DEF WellFormed
  <2> QED
    BY <2>1, <2>2
<1>2. ASSUME NEW p \in DOMAIN ast, NEW b \in 1 .. 2
      PROVE  /\ p \o <<b>> \in Inner /\ Len(p \o <<b>>) = Len(Body(p)) + 2 /\ Len(Body(p)) \in Nat
             /\ Len(p \o <<b>>) <= d + 1
  <2>1. p \in DOMAIN prog
    BY DEF AstOK
  <2>2. p \in Paths /\ Len(p) = Len(Body(p)) + 1 /\ Len(Body(p)) \in Nat /\ Len(p) <= d
    BY <1>1, <2>1, Statement
  <2>3. Len(p \o <<b>>) = Len(p) + 1
    BY <2>2, InBody
  <2> QED
    BY <2>2, <2>3 DEF Inner
<1> DEFINE S == {k \in Nat : \E f : Downto(f, d + 2 - k)}
<1>3. 0 \in S
  <2>1. \A r \in Inner : ~ (Len(r) >= d + 2 - 0)
    <3> TAKE r \in Inner
    <3>1. PICK p \in DOMAIN ast, b \in 1 .. 2 : r = p \o <<b>>
      BY DEF Inner
    <3>2. Len(r) <= d + 1 /\ Len(r) \in Nat
      BY <1>2, <3>1
    <3> QED
      BY <3>2
  <2>2. Downto([r \in Inner |-> FALSE], d + 2 - 0)
    BY <2>1
  <2> QED
    BY <2>2
<1>4. ASSUME NEW k \in Nat, k \in S
      PROVE  k + 1 \in S
  <2>1. PICK f : Downto(f, d + 2 - k)
    BY <1>4
  <2> DEFINE n == d + 2 - k
             g == [r \in Inner |-> IF Len(r) >= n THEN f[r] ELSE LastStmtBr(r, f)]
  <2>2. ASSUME NEW r \in Inner, Len(r) >= n - 1
        PROVE  g[r] = LastStmtBr(r, g)
    <3>1. \A p \in DOMAIN ast : Body(p) = r => g[p \o <<1>>] = f[p \o <<1>>] /\ g[p \o <<2>>] = f[p \o <<2>>]
      <4> SUFFICES ASSUME NEW p \in DOMAIN ast, Body(p) = r, NEW b \in 1 .. 2
                   PROVE  g[p \o <<b>>] = f[p \o <<b>>]
        BY 1 \in 1 .. 2, 2 \in 1 .. 2
      <4>1. p \o <<b>> \in Inner /\ Len(p \o <<b>>) = Len(r) + 2 /\ Len(r) \in Nat
        BY <1>2
      <4>2. Len(p \o <<b>>) >= n
        BY <2>2, <4>1
      <4> HIDE DEF n
      <4> QED
        BY <4>1, <4>2
    <3>2. LastStmtBr(r, g) = LastStmtBr(r, f)
      <4> HIDE DEF g
      <4> QED
        BY <3>1, LastStmtOfInner
    <3>3. g[r] = LastStmtBr(r, f)
      BY <2>1
    <3> QED
      BY <3>2, <3>3
  <2>3. g = [r \in Inner |-> g[r]]
    OBVIOUS
  <2>4. n - 1 = d + 2 - (k + 1)
    OBVIOUS
  <2> HIDE DEF g, n
  <2>5. Downto(g, d + 2 - (k + 1))
    BY <2>2, <2>3, <2>4
  <2> QED
    BY <2>5
<1>5. d + 2 \in S
  <2> HIDE DEF S
  <2>1. d + 2 \in Nat
    OBVIOUS
  <2> QED
    BY <1>3, <1>4, <2>1, Induction
<1>6. PICK f : Downto(f, 0)
  <2>1. d + 2 - (d + 2) = 0
    OBVIOUS
  <2>2. \E f : Downto(f, d + 2 - (d + 2))
    BY <1>5
  <2> HIDE DEF Downto
  <2> QED
    BY <2>1, <2>2
<1>7. \A r \in Inner : Len(r) >= 0
  <2> TAKE r \in Inner
  <2>1. PICK p \in DOMAIN ast, b \in 1 .. 2 : r = p \o <<b>>
    BY DEF Inner
  <2>2. Len(r) = Len(Body(p)) + 2 /\ Len(Body(p)) \in Nat
    BY <1>2, <2>1
  <2> QED
    BY <2>2
<1>8. f = [r \in Inner |-> LastStmtBr(r, f)]
  BY <1>6, <1>7
<1>9. Chosen = [r \in Inner |-> LastStmtBr(r, Chosen)]
  BY <1>8, Zenon
<1>10. \A q : EndsInJump(q) = LastStmtBr(q, Chosen)
  BY DEF EndsInJump, Inner
<1> QED
  BY <1>9, <1>10, Zenon

BothEnd(p) == ast[p].op = "if" /\ EndsInJump(p \o <<1>>) /\ EndsInJump(p \o <<2>>)

LEMMA EndsInJumpIs ==
  ASSUME WellFormed(prog), AstOK, NEW q, EndsInJump(q)
  PROVE  \E p \in DOMAIN ast : /\ Body(p) = q /\ q \o <<p[Len(p)] + 1>> \notin DOMAIN ast
                               /\ ast[p].op \in Jumps \/ BothEnd(p)
<1>1. PICK e : /\ e = [r \in Inner |-> LastStmtBr(r, e)]
               /\ \A r : EndsInJump(r) = LastStmtBr(r, e)
  BY EndsEquation, Zenon
<1>2. PICK p \in DOMAIN ast :
        /\ Body(p) = q /\ q \o <<p[Len(p)] + 1>> \notin DOMAIN ast
        /\ \/ ast[p].op \in Jumps
           \/ ast[p].op = "if" /\ e[p \o <<1>>] /\ e[p \o <<2>>]
  <2>1. LastStmtBr(q, e)
    BY <1>1
  <2> QED
    BY <2>1 DEF LastStmtBr
<1>3. \A r \in Inner : e[r] = EndsInJump(r)
  BY <1>1
<1>4. p \o <<1>> \in Inner /\ p \o <<2>> \in Inner
  BY 1 \in 1 .. 2, 2 \in 1 .. 2 DEF Inner
<1> QED
  BY <1>2, <1>3, <1>4 DEF BothEnd

\* is_last_stmt_br of a body is about the last of its statements.
LEMMA EndsBody ==
  ASSUME WellFormed(prog), AstOK, NEW q \in Paths, Len(q) % 2 = 0, NEW n \in Nat \ {0},
         n = 1 \/ q \o <<n - 1>> \in DOMAIN ast, q \o <<n>> \notin DOMAIN ast, EndsInJump(q)
  PROVE  n > 1 /\ (ast[q \o <<n - 1>>].op \in Jumps \/ BothEnd(q \o <<n - 1>>))
<1>1. PICK p \in DOMAIN ast : /\ Body(p) = q /\ q \o <<p[Len(p)] + 1>> \notin DOMAIN ast
                              /\ ast[p].op \in Jumps \/ BothEnd(p)
  BY EndsInJumpIs
<1> DEFINE k == p[Len(p)]
<1>2. k \in Nat \ {0} /\ p = q \o <<k>>
  <2>1. p \in DOMAIN prog
    BY DEF AstOK
  <2> QED
    BY <1>1, <2>1, Statement
<1> HIDE DEF k
<1>3. ~ (k >= n)
  <2> SUFFICES ASSUME k >= n PROVE FALSE
    OBVIOUS
  <2>1. n \in 1 .. k /\ q \o <<k>> \in DOMAIN ast
    BY <1>2
  <2> QED
    BY <1>2, <2>1, AstContiguous
<1>4. n > 1 /\ q \o <<n - 1>> \in DOMAIN ast /\ n - 1 \in Nat \ {0}
  BY <1>2, <1>3
<1>5. ~ (k < n - 1)
  <2> SUFFICES ASSUME k < n - 1 PROVE FALSE
    OBVIOUS
  <2>1. k + 1 \in 1 .. n - 1
    BY <1>2
  <2>2. q \o <<k + 1>> \in DOMAIN ast
    BY <1>4, <2>1, AstContiguous
  <2> QED
    BY <1>1, <2>2 DEF k
<1>6. k = n - 1
  BY <1>2, <1>3, <1>5
<1> QED
  BY <1>1, <1>2, <1>4, <1>6

-----------------------------------------------------------------------------
(* What the blocks do.                                                     *)

LEMMA FinishedCome ==
  ASSUME WellFormed(prog), NEW q \in Paths, NEW n \in Nat, q \o <<n>> \in DOMAIN prog
  PROVE  Finished[q \o <<n>>] = Come(q, n + 1)
<1> DEFINE s == q \o <<n>>
<1>1. Body(s) = q /\ s[Len(s)] = n
  BY InBody
<1>2. Finished[s] = NextOf(s, Finished)
  <2> HIDE DEF s
  <2>1. s \in DOMAIN prog
    BY DEF s
  <2>2. Finished = [p \in DOMAIN prog |-> NextOf(p, Finished)]
    BY FinishedEquation
  <2> QED
    BY <2>1, <2>2
<1> HIDE DEF s
<1>3. NextOf(s, Finished) = Come(q, n + 1)
  BY <1>1 DEF NextOf, Come
<1> QED
  BY <1>2, <1>3 DEF s

\* At the end of a body the program goes on with the statement it is part of.
LEMMA OutOf ==
  ASSUME NEW p \in Paths, NEW b \in Nat
  PROVE  Out(p \o <<b>>, Finished) = IF prog[p].op = "for" THEN Again(p) ELSE Finished[p]
<1>1. Body(p \o <<b>>) = p /\ Len(p \o <<b>>) = Len(p) + 1 /\ Len(p) \in Nat
  BY InBody
<1>2. p \o <<b>> # <<>>
  BY <1>1
<1> QED
  BY <1>1, <1>2 DEF Out

LEMMA CondNext ==
  ASSUME NEW p \in Paths, NEW c, c = What("cond", p)
  PROVE  /\ prog[p].op = "if" => /\ SourceNext(c, TRUE) = Come(p \o <<1>>, 1)
                                 /\ SourceNext(c, FALSE) = Come(p \o <<2>>, 1)
         /\ prog[p].op = "for" => /\ SourceNext(c, TRUE) = Come(p \o <<1>>, 1)
                                  /\ SourceNext(c, FALSE) = Finished[p]
<1>1. c.ev = "cond" /\ c.at = p
  BY DEF What
<1>2. \A b \in Nat : Out(p \o <<b>>, Finished) = IF prog[p].op = "for" THEN Again(p) ELSE Finished[p]
  BY OutOf
<1>3. CASE prog[p].op = "if"
  <2>1. /\ SourceNext(c, TRUE) = Entered(p \o <<1>>, Finished[p])
        /\ SourceNext(c, FALSE) = Entered(p \o <<2>>, Finished[p])
    BY <1>1, <1>3 DEF SourceNext
  <2>2. Out(p \o <<1>>, Finished) = Finished[p] /\ Out(p \o <<2>>, Finished) = Finished[p]
    BY <1>2, <1>3
  <2> QED
    BY <1>3, <2>1, <2>2 DEF Entered, Come, ComeWith
<1>4. CASE prog[p].op = "for"
  <2>1. /\ SourceNext(c, TRUE) = Entered(p \o <<1>>, Again(p))
        /\ SourceNext(c, FALSE) = Finished[p]
    BY <1>1, <1>4 DEF SourceNext
  <2>2. Out(p \o <<1>>, Finished) = Again(p)
    BY <1>2, <1>4
  <2> QED
    BY <1>4, <2>1, <2>2 DEF Entered, Come, ComeWith
<1> QED
  BY <1>3, <1>4

LEMMA Begin == Entered(<<>>, End) = Come(<<>>, 1)
BY DEF Entered, Come, ComeWith, Out

LEMMA StepNext ==
  ASSUME NEW p, NEW outcome \in BOOLEAN
  PROVE  /\ SourceNext(What("act", p), outcome) = Finished[p]
         /\ SourceNext(What("inc", p), outcome) = What("cond", p)
BY DEF SourceNext, What

\* The blocks that an instruction goes to.
Targets(ins) ==
  CASE ins.ev = "br" -> {ins.to[1]}
    [] ins.ev = "cond" -> {ins.to[1], ins.to[2]}
    [] OTHER -> {}
Into(b, s) == \E i \in DOMAIN s : b \in Targets(s[i])
Targeted(b, bl) == b = 1 \/ \E c \in DOMAIN bl : Into(b, bl[c])

\* What the program does next in front of instruction i of a block, e being
\* what it does in front of the first one.
Follow(e, s, i) == IF i = 1 THEN e ELSE SourceNext(What(s[i - 1].ev, s[i - 1].at), FALSE)
AtEnd(e, s) == Follow(e, s, Len(s) + 1)

\* The instruction does e; lab[b] is what the program does next in front of
\* block b.
InsOK(lab, ins, e) ==
  CASE ins.ev = "br" -> lab[ins.to[1]] = e
    [] ins.ev = "cond" -> /\ e = What("cond", ins.at)
                          /\ lab[ins.to[1]] = SourceNext(e, TRUE)
                          /\ lab[ins.to[2]] = SourceNext(e, FALSE)
    [] OTHER -> e = What(ins.ev, ins.at)
BlockSim(lab, e, s, D) ==
  \A i \in DOMAIN s : InsOK(lab, s[i], Follow(e, s, i)) /\ Targets(s[i]) \subseteq D

\* What the program does in front of the blocks of p, the first one being f.
FirstOK(lab, p, f) ==
  LET c == What("cond", p)
  IN  /\ lab[f + 2] = Finished[p]
      /\ IF prog[p].op = "for" THEN lab[f] = c /\ lab[f + 1] = SourceNext(c, TRUE)
         ELSE lab[f] = SourceNext(c, TRUE) /\ lab[f + 1] = SourceNext(c, FALSE)

BlocksSim(lab, bl) ==
  \A b \in DOMAIN bl : BlockSim(lab, lab[b], bl[b], DOMAIN bl)

LabelsOK(lab, first, bl) ==
  /\ 1 \in DOMAIN bl /\ lab[1] = Come(<<>>, 1)
  /\ \A p \in DOMAIN first : /\ {first[p], first[p] + 1, first[p] + 2} \subseteq DOMAIN bl
                             /\ FirstOK(lab, p, first[p])
                             /\ prog[p].op = "for" => ~Open(bl[first[p]])

LEMMA SimAppend ==
  ASSUME NEW lab, NEW e, NEW s, NEW D, IsSeq(s), BlockSim(lab, e, s, D),
         NEW x, InsOK(lab, x, AtEnd(e, s)), Targets(x) \subseteq D
  PROVE  BlockSim(lab, e, Append(s, x), D)
<1> DEFINE t == Append(s, x)
<1>1. /\ Len(s) \in Nat /\ DOMAIN s = 1 .. Len(s) /\ DOMAIN t = 1 .. Len(s) + 1 /\ Len(t) = Len(s) + 1
      /\ t[Len(s) + 1] = x /\ \A i \in 1 .. Len(s) : t[i] = s[i]
  <2>1. IsSeq(t) /\ Len(t) = Len(s) + 1 /\ t[Len(s) + 1] = x /\ \A i \in 1 .. Len(s) : t[i] = s[i]
    BY AppendFacts
  <2> HIDE DEF t
  <2> QED
    BY <2>1, SeqFacts
<1> HIDE DEF t
<1>2. \A i \in 1 .. Len(s) + 1 : Follow(e, t, i) = Follow(e, s, i)
  <2> TAKE i \in 1 .. Len(s) + 1
  <2>1. i # 1 => i - 1 \in 1 .. Len(s) /\ t[i - 1] = s[i - 1]
    BY <1>1
  <2> QED
    BY <2>1, Zenon DEF Follow
<1>3. BlockSim(lab, e, t, D)
  <2> SUFFICES ASSUME NEW i \in 1 .. Len(s) + 1
               PROVE  InsOK(lab, t[i], Follow(e, t, i)) /\ Targets(t[i]) \subseteq D
    BY <1>1 DEF BlockSim
  <2>1. CASE i = Len(s) + 1
    BY <1>1, <1>2, <2>1 DEF AtEnd
  <2>2. CASE i # Len(s) + 1
    <3>1. i \in 1 .. Len(s)
      BY <1>1, <2>2
    <3> QED
      BY <1>1, <1>2, <3>1 DEF BlockSim
  <2> QED
    BY <2>1, <2>2
<1> QED
  BY <1>3 DEF t

LEMMA AtEndAppend ==
  ASSUME NEW s, IsSeq(s), NEW x, NEW e
  PROVE  AtEnd(e, Append(s, x)) = SourceNext(What(x.ev, x.at), FALSE)
<1> DEFINE t == Append(s, x)
           k == Len(t) + 1
<1>1. IsSeq(t) /\ Len(t) = Len(s) + 1 /\ t[Len(s) + 1] = x /\ Len(s) \in Nat
  BY AppendFacts, SeqFacts
<1> HIDE DEF t
<1>2. k # 1 /\ t[k - 1] = x
  BY <1>1
<1>3. AtEnd(e, t) = Follow(e, t, k)
  BY DEF AtEnd
<1> HIDE DEF k
<1>4. AtEnd(e, t) = SourceNext(What(x.ev, x.at), FALSE)
  BY <1>2, <1>3, Zenon DEF Follow
<1> QED
  BY <1>4 DEF t

LEMMA IntoAppend ==
  ASSUME NEW s, IsSeq(s), NEW x, NEW b, Into(b, Append(s, x))
  PROVE  Into(b, s) \/ b \in Targets(x)
<1> DEFINE t == Append(s, x)
<1>1. IsSeq(t) /\ Len(t) = Len(s) + 1 /\ t[Len(s) + 1] = x /\ \A i \in 1 .. Len(s) : t[i] = s[i]
  BY AppendFacts
<1> HIDE DEF t
<1>2. DOMAIN t = 1 .. Len(s) + 1 /\ DOMAIN s = 1 .. Len(s) /\ Len(s) \in Nat
  BY <1>1, SeqFacts
<1>3. PICK i \in 1 .. Len(s) + 1 : b \in Targets(t[i])
  BY <1>2 DEF Into, t
<1>4. CASE i = Len(s) + 1
  BY <1>1, <1>3, <1>4
<1>5. CASE i # Len(s) + 1
  <2>1. i \in DOMAIN s
    BY <1>2, <1>5
  <2> QED
    BY <1>1, <1>2, <1>3, <2>1 DEF Into
<1> QED
  BY <1>4, <1>5

\* Labels for more blocks.
LEMMA Relabel ==
  ASSUME NEW lab, NEW e, NEW s, NEW D, BlockSim(lab, e, s, D),
         NEW lab2, \A b \in D : lab2[b] = lab[b], NEW D2, D \subseteq D2
  PROVE  BlockSim(lab2, e, s, D2)
<1> SUFFICES ASSUME NEW i \in DOMAIN s
             PROVE  InsOK(lab2, s[i], Follow(e, s, i)) /\ Targets(s[i]) \subseteq D2
  BY DEF BlockSim
<1> DEFINE ins == s[i]
           d == Follow(e, s, i)
<1>1. InsOK(lab, ins, d) /\ Targets(ins) \subseteq D
  BY DEF BlockSim
<1> HIDE DEF ins, d
<1>2. /\ ins.ev = "br" => lab2[ins.to[1]] = lab[ins.to[1]]
      /\ ins.ev = "cond" => /\ lab2[ins.to[1]] = lab[ins.to[1]]
                            /\ lab2[ins.to[2]] = lab[ins.to[2]]
  BY <1>1 DEF Targets
<1>3. InsOK(lab2, ins, d)
  BY <1>1, <1>2 DEF InsOK
<1> QED
  BY <1>1, <1>3 DEF ins, d

\* One block has got longer and others have come behind it.
LEMMA SimChanged ==
  ASSUME NEW lab, NEW bl, BlocksSim(lab, bl), NEW c \in DOMAIN bl,
         NEW new, DOMAIN bl \subseteq DOMAIN new, \A b \in DOMAIN bl : b # c => new[b] = bl[b],
         NEW lab2, \A b \in DOMAIN bl : lab2[b] = lab[b],
         BlockSim(lab2, lab[c], new[c], DOMAIN new),
         \A b \in DOMAIN new \ DOMAIN bl : BlockSim(lab2, lab2[b], new[b], DOMAIN new)
  PROVE  BlocksSim(lab2, new)
<1> SUFFICES ASSUME NEW b \in DOMAIN new PROVE BlockSim(lab2, lab2[b], new[b], DOMAIN new)
  BY DEF BlocksSim
<1>1. CASE b \in DOMAIN bl /\ b # c
  <2>1. BlockSim(lab, lab[b], bl[b], DOMAIN bl)
    BY <1>1 DEF BlocksSim
  <2>2. BlockSim(lab2, lab[b], bl[b], DOMAIN new)
    BY <2>1, Relabel
  <2> QED
    BY <1>1, <2>2
<1>2. CASE b = c
  BY <1>2
<1>3. CASE b \notin DOMAIN bl
  BY <1>3
<1> QED
  BY <1>1, <1>2, <1>3

LEMMA TargetedChanged ==
  ASSUME NEW bl, NEW c \in DOMAIN bl, NEW new, \A b \in DOMAIN bl : b # c => new[b] = bl[b],
         NEW x, Targeted(x, new)
  PROVE  \/ Targeted(x, bl) \/ Into(x, new[c])
         \/ \E b \in DOMAIN new \ DOMAIN bl : Into(x, new[b])
BY DEF Targeted

-----------------------------------------------------------------------------
(* The calls in progress.                                                  *)

\* What the program does next at the insertion point.
Here(w) ==
  IF w = <<>> THEN End
  ELSE LET fr == w[Len(w)]
       IN  CASE fr.do = "body" -> Come(fr.at, fr.n)
             [] fr.do = "loop" -> Again(fr.at)
             [] OTHER -> Finished[fr.at]
HereOK(lab, w, bl, c) == Open(bl[c]) => AtEnd(lab[c], bl[c]) = Here(w)

CallOK(w, i) ==
  LET fr == w[i]
  IN  IF fr.do = "body"
      THEN /\ IF i = 1 THEN fr.at = <<>> ELSE w[i - 1].do # "body" /\ Body(fr.at) = w[i - 1].at
           /\ fr.n = 1 \/ fr.at \o <<fr.n - 1>> \in DOMAIN ast
           /\ \A a \in Loops(fr.at \o <<1>>) :
                \E j \in 1 .. Len(w) : j < i /\ w[j].do = "loop" /\ w[j].at = a
      ELSE /\ i > 1 /\ w[i - 1].do = "body" /\ w[i - 1].n > 1
           /\ fr.at = w[i - 1].at \o <<w[i - 1].n - 1>> /\ fr.at \in DOMAIN ast
           /\ ast[fr.at].op = IF fr.do = "loop" THEN "for" ELSE "if"
CallsOK(w) == \A i \in 1 .. Len(w) : CallOK(w, i)

LastStmt(fr) == fr.at \o <<fr.n - 1>>
Jumped(fr) == fr.do = "body" /\ fr.n > 1 /\ ast[LastStmt(fr)].op \in Jumps
\* is_last_stmt_br of what the call has done of its body.
Ended(fr) ==
  CASE fr.do = "body" -> fr.n > 1 /\ (ast[LastStmt(fr)].op \in Jumps \/ BothEnd(LastStmt(fr)))
    [] fr.do \in {"then", "loop"} -> EndsInJump(fr.at \o <<1>>)
    [] OTHER -> EndsInJump(fr.at \o <<2>>)

\* The merge block of an if is not gone to when its branches so far end in jumps.
WaitOK(fr, first, bl) ==
  /\ fr.do = "then" => ~Targeted(first[fr.at] + 2, bl)
  /\ fr.do = "else" /\ EndsInJump(fr.at \o <<1>>) => ~Targeted(first[fr.at] + 2, bl)

\* An open block that instructions go to will be continued.
ReachOK(w, first, bl, c) ==
  /\ \A b \in DOMAIN bl : Open(bl[b]) /\ Targeted(b, bl) =>
       b = c \/ \E i \in 1 .. Len(w) : b \in Pending(w[i], first)
  /\ \A i \in 1 .. Len(w) : WaitOK(w[i], first, bl)
  /\ w # <<>> /\ Open(bl[c]) => /\ ~Jumped(w[Len(w)])
                                /\ Ended(w[Len(w)]) => ~Targeted(c, bl)

SimOK(lab, w, first, bl, c) ==
  /\ LabelsOK(lab, first, bl) /\ BlocksSim(lab, bl) /\ HereOK(lab, w, bl, c)
  /\ CallsOK(w) /\ ReachOK(w, first, bl, c)

\* The body on top has come to its next statement.
LEMMA CallsAdvanced ==
  ASSUME StackOK(work, bb), CallsOK(work), work # <<>>, Call.do = "body", Stmt \in DOMAIN ast
  PROVE  CallsOK(Advanced)
<1> DEFINE L == Len(work)
           A == Advanced
<1>1. /\ Len(A) = L /\ L \in Nat /\ L >= 1 /\ A[L] = [Call EXCEPT !.n = @ + 1]
      /\ \A i \in 1 .. L : A[i].do = work[i].do /\ A[i].at = work[i].at
  BY AdvancedFacts, ReturnedFacts
<1>2. \A i \in 1 .. L : i # L => A[i].n = work[i].n
  <2>1. Advanced = [work EXCEPT ![Len(work)] = [Call EXCEPT !.n = @ + 1]]
    BY DEF Advanced, Call
  <2>2. work \in Seq(Frame)
    BY DEF StackOK
  <2> QED
    BY <1>1, <2>1, <2>2
<1>3. A[L].n = Call.n + 1 /\ Call.n \in Nat /\ A[L].at = Call.at /\ work[L] = Call
  <2>1. Call \in Frame
    BY ReturnedFacts
  <2> QED
    BY <1>1, <2>1 DEF Frame, Call
<1> HIDE DEF L, A
<1>4. ASSUME NEW i \in 1 .. L PROVE CallOK(A, i)
  <2>1. CallOK(work, i)
    BY DEF CallsOK, L
  <2>2. i > 1 => /\ i - 1 \in 1 .. L /\ i - 1 # L
                 /\ A[i - 1].n = work[i - 1].n /\ A[i - 1].do = work[i - 1].do
                 /\ A[i - 1].at = work[i - 1].at
    BY <1>1, <1>2
  <2>3. CASE A[i].do # "body"
    <3>1. i # L
      BY <1>1, <1>3, <2>3
    <3> QED
      BY <1>1, <2>1, <2>2, <2>3, <3>1, Zenon DEF CallOK
  <2>4. CASE A[i].do = "body"
    <3>1. IF i = 1 THEN A[i].at = <<>> ELSE A[i - 1].do # "body" /\ Body(A[i].at) = A[i - 1].at
      <4>1. i = 1 \/ i > 1
        OBVIOUS
      <4> QED
        BY <1>1, <2>1, <2>2, <2>4, <4>1, Zenon DEF CallOK
    <3>2. \A a \in Loops(A[i].at \o <<1>>) : \E j \in 1 .. Len(A) : j < i /\ A[j].do = "loop" /\ A[j].at = a
      <4>1. \A a \in Loops(work[i].at \o <<1>>) : \E j \in 1 .. L : j < i /\ work[j].do = "loop" /\ work[j].at = a
        BY <1>1, <2>1, <2>4, Zenon DEF CallOK, L
      <4> QED
        BY <1>1, <4>1
    <3>3. A[i].n = 1 \/ A[i].at \o <<A[i].n - 1>> \in DOMAIN ast
      <4>1. CASE i = L
        <5>1. A[i].n - 1 = Call.n
          BY <1>3, <4>1
        <5>2. A[i].at = Call.at
          BY <1>3, <4>1
        <5> QED
          BY <5>1, <5>2, Zenon DEF Stmt
      <4>2. CASE i # L
        BY <1>1, <1>2, <2>1, <2>4, <4>2, Zenon DEF CallOK
      <4> QED
        BY <4>1, <4>2
    <3> QED
      BY <2>4, <3>1, <3>2, <3>3, Zenon DEF CallOK
  <2> QED
    BY <2>3, <2>4
<1> QED
  BY <1>1, <1>4 DEF CallsOK, L, A

\* A call depends on those under it.
LEMMA CallPrefix ==
  ASSUME NEW u, NEW v, NEW L \in Nat, Len(u) = L, Len(v) \in Nat, NEW M \in Nat, M <= L, M <= Len(v),
         \A i \in 1 .. M : v[i] = u[i], NEW i \in 1 .. M, CallOK(u, i)
  PROVE  CallOK(v, i)
<1>1. v[i] = u[i] /\ (i > 1 => i - 1 \in 1 .. M /\ v[i - 1] = u[i - 1]) /\ (i = 1 \/ i > 1)
  OBVIOUS
<1>2. CASE v[i].do # "body"
  BY <1>1, <1>2, Zenon DEF CallOK
<1>3. CASE v[i].do = "body"
  <2>1. \A a \in Loops(v[i].at \o <<1>>) : \E j \in 1 .. Len(v) : j < i /\ v[j].do = "loop" /\ v[j].at = a
    <3>1. \A a \in Loops(v[i].at \o <<1>>) : \E j \in 1 .. L : j < i /\ u[j].do = "loop" /\ u[j].at = a
      BY <1>1, <1>3, Zenon DEF CallOK
    <3>2. \A j \in 1 .. L : j < i => j \in 1 .. Len(v) /\ v[j] = u[j]
      OBVIOUS
    <3> QED
      BY <3>1, <3>2, Zenon
  <2> QED
    BY <1>1, <1>3, <2>1, Zenon DEF CallOK
<1> QED
  BY <1>2, <1>3

LEMMA CallsReturned ==
  ASSUME StackOK(work, bb), CallsOK(work), work # <<>>
  PROVE  CallsOK(Returned)
<1> DEFINE R == Returned
           L == Len(work)
<1>1. Len(R) = L - 1 /\ L \in Nat /\ L >= 1 /\ \A i \in 1 .. L - 1 : R[i] = work[i]
  BY ReturnedFacts
<1> HIDE DEF R, L
<1>2. ASSUME NEW i \in 1 .. Len(R) PROVE CallOK(R, i)
  <2>1. CallOK(work, i)
    BY <1>1 DEF CallsOK, L
  <2>2. L - 1 \in Nat /\ L - 1 <= L /\ L - 1 <= Len(R) /\ Len(R) \in Nat /\ i \in 1 .. L - 1
    BY <1>1
  <2> QED
    BY <1>1, <2>1, <2>2, CallPrefix DEF L
<1> QED
  BY <1>2 DEF CallsOK, R

\* A statement with a body is called, and its body b.
CalledBody(u, v, L, b) ==
  /\ Len(u) = L /\ u[L] \in Frame /\ u[L].do = "body" /\ u[L].n > 1 /\ Len(u[L].at) % 2 = 0
  /\ Len(v) = L + 2 /\ \A i \in 1 .. L : v[i] = u[i]
  /\ v[L + 1].do \in {"then", "else", "loop"} /\ v[L + 1].at = u[L].at \o <<u[L].n - 1>>
  /\ v[L + 1].at \in DOMAIN ast
  /\ ast[v[L + 1].at].op = IF v[L + 1].do = "loop" THEN "for" ELSE "if"
  /\ v[L + 2].do = "body" /\ v[L + 2].at = v[L + 1].at \o <<b>> /\ v[L + 2].n = 1

LEMMA CallsPushed ==
  ASSUME NEW u, NEW v, NEW L \in Nat \ {0}, NEW b \in Nat, CallsOK(u), AstOK, CalledBody(u, v, L, b)
  PROVE  CallsOK(v)
<1> DEFINE q == u[L].at
           k == u[L].n - 1
           p == v[L + 1].at
<1>0. /\ Len(u) = L /\ u[L] \in Frame /\ u[L].do = "body" /\ u[L].n > 1 /\ Len(q) % 2 = 0
      /\ Len(v) = L + 2 /\ \A i \in 1 .. L : v[i] = u[i]
      /\ v[L + 1].do \in {"then", "else", "loop"} /\ p = q \o <<k>> /\ p \in DOMAIN ast
      /\ ast[p].op = IF v[L + 1].do = "loop" THEN "for" ELSE "if"
      /\ v[L + 2].do = "body" /\ v[L + 2].at = p \o <<b>> /\ v[L + 2].n = 1
  BY DEF CalledBody
<1>1. q \in Paths /\ k \in Nat /\ p = q \o <<k>>
  BY <1>0 DEF Frame
<1>2. p \in Paths /\ Len(p) = Len(q) + 1 /\ Len(q) \in Nat
  <2> HIDE DEF q, k, p
  <2> QED
    BY <1>1, InBody
<1>3. Len(p) % 2 = 1
  <2> HIDE DEF p
  <2> QED
    BY <1>0, <1>2, Parity
<1>4. \A i \in 1 .. L : CallOK(v, i)
  <2> TAKE i \in 1 .. L
  <2>1. CallOK(u, i)
    BY <1>0 DEF CallsOK
  <2>2. L \in Nat /\ L <= L /\ L <= Len(v) /\ Len(v) \in Nat
    BY <1>0
  <2> HIDE DEF p, q, k
  <2> QED
    BY <1>0, <2>1, <2>2, CallPrefix
<1>5. CallOK(v, L + 1)
  <2>1. L + 1 > 1 /\ (L + 1) - 1 = L /\ v[L] = u[L]
    BY <1>0
  <2> DEFINE m == L + 1
  <2>2. m > 1 /\ m - 1 = L /\ v[m].do # "body" /\ v[m].at = u[L].at \o <<u[L].n - 1>>
        /\ v[m].at \in DOMAIN ast /\ ast[v[m].at].op = IF v[m].do = "loop" THEN "for" ELSE "if"
    BY <1>0, <2>1
  <2> HIDE DEF m
  <2>3. CallOK(v, m)
    BY <1>0, <2>1, <2>2, Zenon DEF CallOK
  <2> QED
    BY <2>3 DEF m
<1>6. CallOK(v, L + 2)
  <2> DEFINE m == L + 2
  <2>1. m # 1 /\ m - 1 = L + 1 /\ v[m].do = "body" /\ v[m].at = p \o <<b>> /\ v[m].n = 1 /\ L + 1 < m
        /\ Len(v) = m /\ v[m - 1].do # "body" /\ v[m - 1].at = p
    <3>1. m # 1 /\ m - 1 = L + 1 /\ L + 1 < m
      OBVIOUS
    <3>2. /\ v[m].do = "body" /\ v[m].at = p \o <<b>> /\ v[m].n = 1 /\ Len(v) = m
          /\ v[L + 1].do # "body" /\ v[L + 1].at = p
      <4> HIDE DEF k, q
      <4> QED
        BY <1>0
    <3> QED
      BY <3>1, <3>2
  <2>2. Body(p \o <<b>>) = p
    <3> HIDE DEF p, q, k
    <3> QED
      BY <1>2, InBody
  <2>3. Loops(p \o <<b>> \o <<1>>) = Loops(p) \cup (IF prog[p].op = "for" THEN {p} ELSE {})
    <3> HIDE DEF p, q, k
    <3> QED
      BY <1>2, <1>3, LoopsInside, 1 \in Nat
  <2>4. Loops(p) = Loops(q \o <<1>>)
    <3> HIDE DEF p, q, k
    <3> QED
      BY <1>0, <1>1, LoopsOfBody, 1 \in Nat
  <2>5. \A a \in Loops(q \o <<1>>) : \E j \in 1 .. L : j < L /\ u[j].do = "loop" /\ u[j].at = a
    <3>1. CallOK(u, L)
      BY <1>0 DEF CallsOK
    <3> QED
      BY <1>0, <3>1, Zenon DEF CallOK
  <2>6. ast[p] = prog[p] /\ (prog[p].op = "for" => v[L + 1].do = "loop")
    BY <1>0 DEF AstOK
  <2>7. \A a \in Loops(p \o <<b>> \o <<1>>) : \E j \in 1 .. Len(v) : j < m /\ v[j].do = "loop" /\ v[j].at = a
    <3> TAKE a \in Loops(p \o <<b>> \o <<1>>)
    <3>1. CASE a \in Loops(q \o <<1>>)
      <4>1. PICK j \in 1 .. L : j < L /\ u[j].do = "loop" /\ u[j].at = a
        BY <2>5, <3>1
      <4>2. j \in 1 .. Len(v) /\ j < m /\ v[j] = u[j]
        BY <1>0, <4>1
      <4> QED
        BY <4>1, <4>2
    <3>2. CASE a = p /\ prog[p].op = "for"
      <4>1. L + 1 \in 1 .. Len(v) /\ L + 1 < m /\ v[L + 1].do = "loop" /\ v[L + 1].at = a
        <5>1. L + 1 \in 1 .. L + 2 /\ L + 1 < L + 2
          OBVIOUS
        <5>2. Len(v) = L + 2 /\ m = L + 2 /\ v[L + 1].do = "loop" /\ v[L + 1].at = a
          BY <1>0, <2>6, <3>2, Zenon
        <5> QED
          BY <5>1, <5>2, Zenon
      <4> QED
        BY <4>1
    <3> QED
      BY <2>3, <2>4, <3>1, <3>2
  <2> HIDE DEF m, p, q, k
  <2>8. CallOK(v, m)
    BY <2>1, <2>2, <2>7, Zenon DEF CallOK
  <2> QED
    BY <2>8 DEF m
<1>7. \A i \in 1 .. Len(v) : i \in 1 .. L \/ i = L + 1 \/ i = L + 2
  BY <1>0
<1> QED
  BY <1>4, <1>5, <1>6, <1>7 DEF CallsOK

-----------------------------------------------------------------------------
(* Statements that are one instruction.                                    *)

Ready == WellFormed(prog) /\ AstOK /\ BlocksOK(blocks) /\ CodegenInv

LEMMA NotOpen ==
  ASSUME NEW s, IsSeq(s), NEW x, x.ev \in Ends
  PROVE  ~Open(Append(s, x))
<1>1. /\ IsSeq(Append(s, x)) /\ Len(Append(s, x)) = Len(s) + 1 /\ Append(s, x)[Len(s) + 1] = x
      /\ Len(s) \in Nat
  BY AppendFacts, SeqFacts
<1>2. Len(s) + 1 \in DOMAIN Append(s, x)
  BY <1>1, SeqFacts
<1> QED
  BY <1>1, <1>2, Zenon DEF Open

\* new is bl with an instruction behind the others of the open block c.
Emitted(bl, c, ins, new) ==
  /\ c \in DOMAIN bl /\ Open(bl[c]) /\ DOMAIN new = DOMAIN bl /\ new[c] = Append(bl[c], ins)
  /\ \A b \in DOMAIN bl : b # c => new[b] = bl[b]

\* The labels still fit, and what is gone to is gone to already or by ins.
Fits(lab, first, bl, c, ins, new) ==
  /\ LabelsOK(lab, first, new) /\ BlocksSim(lab, new)
  /\ AtEnd(lab[c], new[c]) = SourceNext(What(ins.ev, ins.at), FALSE)
  /\ \A b : Targeted(b, new) => Targeted(b, bl) \/ b \in Targets(ins)
  /\ ins.ev \in Ends => ~Open(new[c])

\* An instruction that does what the program does next is emitted.
LEMMA EmitSim ==
  ASSUME NEW bl, BlocksOK(bl), NEW c, NEW ins, NEW new, Emitted(bl, c, ins, new),
         NEW lab, NEW first, LabelsOK(lab, first, bl), BlocksSim(lab, bl),
         InsOK(lab, ins, AtEnd(lab[c], bl[c])), Targets(ins) \subseteq DOMAIN bl
  PROVE  Fits(lab, first, bl, c, ins, new)
<1>0. /\ c \in DOMAIN bl /\ Open(bl[c]) /\ DOMAIN new = DOMAIN bl /\ new[c] = Append(bl[c], ins)
      /\ \A b \in DOMAIN bl : b # c => new[b] = bl[b]
  BY DEF Emitted
<1>1. IsSeq(bl[c]) /\ BlockSim(lab, lab[c], bl[c], DOMAIN bl)
  BY <1>0 DEF BlocksOK, BlocksSim
<1>2. /\ BlockSim(lab, lab[c], new[c], DOMAIN new)
      /\ AtEnd(lab[c], new[c]) = SourceNext(What(ins.ev, ins.at), FALSE)
  <2> DEFINE s == bl[c]
             e == lab[c]
             D == DOMAIN bl
  <2>1. IsSeq(s) /\ BlockSim(lab, e, s, D) /\ InsOK(lab, ins, AtEnd(e, s)) /\ Targets(ins) \subseteq D
    BY <1>1
  <2>2. new[c] = Append(s, ins) /\ DOMAIN new = D
    BY <1>0
  <2> HIDE DEF s, e, D
  <2>3. BlockSim(lab, e, Append(s, ins), D)
    BY <2>1, SimAppend
  <2>4. AtEnd(e, Append(s, ins)) = SourceNext(What(ins.ev, ins.at), FALSE)
    BY <2>1, AtEndAppend
  <2>5. BlockSim(lab, e, new[c], DOMAIN new) /\ AtEnd(e, new[c]) = SourceNext(What(ins.ev, ins.at), FALSE)
    BY <2>2, <2>3, <2>4, Zenon
  <2> QED
    BY <2>5 DEF e
<1>3. BlocksSim(lab, new)
  BY <1>0, <1>2, SimChanged
<1>4. LabelsOK(lab, first, new)
  <2>1. \A p \in DOMAIN first : prog[p].op = "for" => ~Open(new[first[p]])
    BY <1>0 DEF LabelsOK
  <2> QED
    BY <1>0, <2>1 DEF LabelsOK
<1>5. \A b : Targeted(b, new) => Targeted(b, bl) \/ b \in Targets(ins)
  <2> SUFFICES ASSUME NEW b, Targeted(b, new) PROVE Targeted(b, bl) \/ b \in Targets(ins)
    OBVIOUS
  <2>1. Targeted(b, bl) \/ Into(b, new[c])
    BY <1>0, TargetedChanged
  <2>2. Into(b, new[c]) => Into(b, bl[c]) \/ b \in Targets(ins)
    BY <1>0, <1>1, IntoAppend, Zenon
  <2> QED
    BY <1>0, <2>1, <2>2 DEF Targeted
<1>6. ins.ev \in Ends => ~Open(new[c])
  BY <1>0, <1>1, NotOpen, Zenon
<1> QED
  BY <1>2, <1>3, <1>4, <1>5, <1>6 DEF Fits

LEMMA WaitKept ==
  ASSUME NEW fr, NEW first, NEW bl, WaitOK(fr, first, bl), NEW new, NEW next, NEW fr2,
         fr2.do = fr.do, fr2.at = fr.at,
         fr.do \in {"then", "else"} => next[fr.at] = first[fr.at],
         \A b \in Pending(fr, first) : Targeted(b, new) => Targeted(b, bl)
  PROVE  WaitOK(fr2, next, new)
<1>1. fr.do \in {"then", "else"} => first[fr.at] + 2 \in Pending(fr, first)
  BY DEF Pending
<1> QED
  BY <1>1 DEF WaitOK

\* The body on top, and what has to be done next.
LEMMA AtStmt ==
  ASSUME Ready, NEW op, Generating(op), NEW lab, SimOK(lab, work, bb, blocks, cur)
  PROVE  /\ cur \in DOMAIN blocks /\ Open(blocks[cur]) /\ work # <<>> /\ Call.do = "body"
         /\ Stmt = Call.at \o <<Call.n>> /\ Stmt \in DOMAIN ast /\ ast[Stmt].op = op
         /\ Stmt \in DOMAIN prog /\ prog[Stmt] = ast[Stmt]
         /\ Call.at \in Paths /\ Call.n \in Nat \ {0} /\ Len(Call.at) % 2 = 0
         /\ StackOK(work, bb) /\ BlankOK(work, bb, blocks, cur)
         /\ AtEnd(lab[cur], blocks[cur]) = Comes(Stmt, Finished)
<1>1. /\ Open(blocks[cur]) /\ work # <<>> /\ Call.do = "body" /\ Stmt = Call.at \o <<Call.n>>
      /\ Stmt \in DOMAIN ast /\ ast[Stmt].op = op /\ Call \in Frame
  BY OpenForStmt DEF Ready
<1>2. cur \in DOMAIN blocks /\ StackOK(work, bb) /\ BlankOK(work, bb, blocks, cur)
  BY DEF Ready, CodegenInv
<1>3. FrameOK(Call, bb) /\ Call = work[Len(work)]
  BY <1>1, <1>2, EmptySeq DEF StackOK, Call
<1>4. Call.at \in Paths /\ Call.n \in Nat /\ Call.n >= 1 /\ Len(Call.at) % 2 = 0
  BY <1>1, <1>3 DEF FrameOK, Frame
<1>5. Stmt \in DOMAIN prog /\ prog[Stmt] = ast[Stmt]
  BY <1>1 DEF Ready, AstOK
<1>6. AtEnd(lab[cur], blocks[cur]) = Here(work)
  BY <1>1 DEF SimOK, HereOK
<1>7. Here(work) = Come(Call.at, Call.n)
  BY <1>1, <1>3 DEF Here
<1>8. Come(Call.at, Call.n) = Comes(Stmt, Finished)
  BY <1>1, <1>5 DEF Come, ComeWith
<1>9. Call.n \in Nat \ {0}
  BY <1>4
<1> QED
  BY <1>1, <1>2, <1>4, <1>5, <1>6, <1>7, <1>8, <1>9, Zenon

\* Where a new instruction may go to.
Known(b) ==
  \/ ~Open(blocks[b])
  \/ \E i \in 1 .. Len(work) : work[i].do = "loop" /\ b \in Pending(work[i], bb)

LEMMA KnownNotWaited ==
  ASSUME BlankOK(work, bb, blocks, cur), NEW b \in DOMAIN blocks, Known(b),
         NEW i \in 1 .. Len(work), Len(work) \in Nat, work[i].do # "loop"
  PROVE  b \notin Pending(work[i], bb)
<1>1. b \in Pending(work[i], bb) => blocks[b] = <<>>
  BY DEF BlankOK
<1>2. CASE ~Open(blocks[b])
  BY <1>1, <1>2, EmptyBlock
<1>3. CASE Open(blocks[b])
  <2>1. PICK j \in 1 .. Len(work) : work[j].do = "loop" /\ b \in Pending(work[j], bb)
    BY <1>3 DEF Known
  <2>2. i < j \/ j < i
    BY <2>1
  <2> QED
    BY <2>1, <2>2 DEF BlankOK
<1> QED
  BY <1>2, <1>3

LEMMA SimEmit ==
  ASSUME Ready, NEW lab, SimOK(lab, work, bb, blocks, cur), NEW op, Generating(op),
         NEW ins, InsOK(lab, ins, Comes(Stmt, Finished)), Targets(ins) \subseteq DOMAIN blocks,
         \A b \in Targets(ins) : Known(b),
         \/ op \in Jumps /\ ins.ev \in Ends
         \/ op = "act" /\ ins = Ins("act", Stmt, <<>>),
         NEW new, new = Emit(cur, ins)
  PROVE  SimOK(lab, Advanced, bb, new, cur)
<1>1. /\ cur \in DOMAIN blocks /\ Open(blocks[cur]) /\ work # <<>> /\ Call.do = "body"
      /\ Stmt = Call.at \o <<Call.n>> /\ Stmt \in DOMAIN ast /\ ast[Stmt].op = op
      /\ Stmt \in DOMAIN prog /\ prog[Stmt] = ast[Stmt]
      /\ Call.at \in Paths /\ Call.n \in Nat \ {0}
      /\ StackOK(work, bb) /\ BlankOK(work, bb, blocks, cur)
      /\ AtEnd(lab[cur], blocks[cur]) = Comes(Stmt, Finished)
  BY AtStmt
<1>2. BlocksOK(blocks) /\ LabelsOK(lab, bb, blocks) /\ BlocksSim(lab, blocks)
  BY DEF Ready, SimOK
<1>3. /\ DOMAIN new = DOMAIN blocks /\ new[cur] = Append(blocks[cur], ins)
      /\ \A b \in DOMAIN blocks : b # cur => new[b] = blocks[b]
  BY <1>1 DEF Emit
<1>4. /\ LabelsOK(lab, bb, new) /\ BlocksSim(lab, new)
      /\ AtEnd(lab[cur], new[cur]) = SourceNext(What(ins.ev, ins.at), FALSE)
      /\ \A b : Targeted(b, new) => Targeted(b, blocks) \/ b \in Targets(ins)
      /\ ins.ev \in Ends => ~Open(new[cur])
  <2>1. InsOK(lab, ins, AtEnd(lab[cur], blocks[cur]))
    BY <1>1
  <2>2. Emitted(blocks, cur, ins, new)
    BY <1>1, <1>3 DEF Emitted
  <2>3. Fits(lab, bb, blocks, cur, ins, new)
    BY <1>2, <2>1, <2>2, EmitSim
  <2> QED
    BY <2>3 DEF Fits
<1> DEFINE L == Len(work)
           A == Advanced
<1>5. /\ Len(A) = L /\ L \in Nat /\ L >= 1
      /\ \A i \in 1 .. L : /\ A[i].do = work[i].do /\ A[i].at = work[i].at
                           /\ Pending(A[i], bb) = Pending(work[i], bb)
      /\ A[L] = [Call EXCEPT !.n = @ + 1] /\ Call \in Frame
  BY <1>1, AdvancedFacts, ReturnedFacts
<1>6. A[L].do = "body" /\ A[L].at = Call.at /\ A[L].n = Call.n + 1 /\ A[L].n > 1 /\ LastStmt(A[L]) = Stmt
  <2>1. A[L].do = "body" /\ A[L].at = Call.at /\ A[L].n = Call.n + 1
    BY <1>1, <1>5 DEF Frame
  <2>2. A[L].n > 1 /\ A[L].n - 1 = Call.n
    BY <1>1, <2>1
  <2> QED
    BY <1>1, <2>1, <2>2, Zenon DEF LastStmt
<1> HIDE DEF L, A
<1>7. CallsOK(A)
  BY <1>1, CallsAdvanced DEF SimOK, A
<1>8. A # <<>>
  BY <1>5
<1>9. HereOK(lab, A, new, cur)
  <2>1. CASE op \in Jumps /\ ins.ev \in Ends
    BY <1>4, <2>1 DEF HereOK
  <2>2. CASE op = "act" /\ ins = Ins("act", Stmt, <<>>)
    <3>1. AtEnd(lab[cur], new[cur]) = Finished[Stmt]
      BY <1>4, <2>2, StepNext DEF Ins
    <3>2. Here(A) = Come(Call.at, Call.n + 1)
      BY <1>5, <1>6, <1>8, Zenon DEF Here
    <3>3. Finished[Stmt] = Come(Call.at, Call.n + 1)
      BY <1>1, FinishedCome DEF Ready
    <3> QED
      BY <3>1, <3>2, <3>3 DEF HereOK
  <2> QED
    BY <2>1, <2>2
<1>10. ReachOK(A, bb, new, cur)
  <2>1. ASSUME NEW b \in DOMAIN new, Open(new[b]), Targeted(b, new)
        PROVE  b = cur \/ \E i \in 1 .. Len(A) : b \in Pending(A[i], bb)
    <3> SUFFICES ASSUME b # cur PROVE \E i \in 1 .. L : b \in Pending(work[i], bb)
      BY <1>5
    <3>1. Open(blocks[b])
      BY <1>3, <2>1
    <3>2. CASE Targeted(b, blocks)
      BY <1>3, <3>1, <3>2 DEF SimOK, ReachOK, L
    <3>3. CASE b \in Targets(ins)
      BY <3>1, <3>3 DEF Known, L
    <3> QED
      BY <1>4, <2>1, <3>2, <3>3
  <2>2. ASSUME NEW i \in 1 .. Len(A)
        PROVE  WaitOK(A[i], bb, new)
    <3>1. i \in 1 .. Len(work) /\ WaitOK(work[i], bb, blocks)
      BY <1>5 DEF SimOK, ReachOK, L
    <3>2. CASE work[i].do = "loop"
      BY <1>5, <2>2, <3>2 DEF WaitOK
    <3>3. CASE work[i].do # "loop"
      <4>1. \A b \in Pending(work[i], bb) : b \notin Targets(ins)
        BY <1>1, <1>5, <3>1, <3>3, KnownNotWaited DEF L
      <4>2. \A b \in Pending(work[i], bb) : Targeted(b, new) => Targeted(b, blocks)
        BY <1>4, <4>1
      <4>3. A[i].do = work[i].do /\ A[i].at = work[i].at
        BY <1>5, <2>2
      <4> QED
        BY <3>1, <4>2, <4>3, WaitKept
    <3> QED
      BY <3>2, <3>3
  <2>3. Open(new[cur]) => ~Jumped(A[Len(A)]) /\ ~Ended(A[Len(A)])
    <3> SUFFICES ASSUME Open(new[cur]) PROVE ~Jumped(A[L]) /\ ~Ended(A[L])
      BY <1>5
    <3>1. op = "act"
      BY <1>4
    <3>2. ast[LastStmt(A[L])].op = "act"
      BY <1>1, <1>6, <3>1
    <3> QED
      BY <1>6, <3>2 DEF Jumped, Ended, BothEnd, Jumps
  <2> QED
    BY <2>1, <2>2, <2>3 DEF ReachOK
<1> QED
  BY <1>4, <1>7, <1>9, <1>10 DEF SimOK, A

\* A definition or assignment does what the program does, and so does a return.
LEMMA SimGenSimple ==
  ASSUME Ready, NEW lab, SimOK(lab, work, bb, blocks, cur), GenSimple
  PROVE  SimOK(lab, work', bb', blocks', cur')
<1>1. PICK op \in {"act", "return"} : Generating(op) /\ blocks' = Emit(cur, Ins(op, Stmt, <<>>))
  BY DEF GenSimple
<1>2. work' = Advanced /\ bb' = bb /\ cur' = cur
  BY DEF GenSimple
<1> DEFINE ins == Ins(op, Stmt, <<>>)
<1>3. ins.ev = op /\ ins.at = Stmt
  BY DEF Ins
<1>4. prog[Stmt].op = op
  BY <1>1, AtStmt
<1>5. Comes(Stmt, Finished) = What(op, Stmt)
  BY <1>1, <1>4 DEF Comes
<1>6. /\ op = "return" => ins.ev \in Ends /\ op \in Jumps
      /\ op = "act" => ins = Ins("act", Stmt, <<>>)
  BY <1>3 DEF Ends, Jumps
<1>7. Targets(ins) = {}
  BY <1>1, <1>3 DEF Targets
<1> HIDE DEF ins
<1>8. InsOK(lab, ins, Comes(Stmt, Finished))
  BY <1>1, <1>3, <1>5 DEF InsOK
<1>9. SimOK(lab, Advanced, bb, blocks', cur)
  <2>1. blocks' = Emit(cur, ins)
    BY <1>1 DEF ins
  <2>2. Targets(ins) \subseteq DOMAIN blocks /\ \A b \in Targets(ins) : Known(b)
    BY <1>7
  <2> QED
    BY <1>1, <1>6, <1>8, <2>1, <2>2, SimEmit
<1> QED
  BY <1>2, <1>9

LinkLoops == \A p \in DOMAIN link : Loops(p) # {}
NoIncSkipped == \A p \in DOMAIN ast : ast[p].op = "continue" => ~prog[Innermost(p)].inc

\* The loops that a statement stands in are being compiled.
LEMMA LoopCalled ==
  ASSUME Ready, CallsOK(work), work # <<>>, Call.do = "body", NEW l \in Loops(Stmt)
  PROVE  /\ l \in DOMAIN bb /\ prog[l].op = "for"
         /\ \E j \in 1 .. Len(work) : work[j].do = "loop" /\ work[j].at = l
<1>1. StackOK(work, bb)
  BY DEF Ready, CodegenInv
<1>2. Len(work) \in Nat /\ Len(work) >= 1 /\ Call \in Frame /\ Call = work[Len(work)]
  BY <1>1, ReturnedFacts DEF Call
<1>3. FrameOK(Call, bb) /\ CallOK(work, Len(work))
  BY <1>1, <1>2 DEF StackOK, CallsOK
<1>4. Call.at \in Paths /\ Call.n \in Nat /\ Len(Call.at) % 2 = 0
  BY <1>2, <1>3 DEF FrameOK, Frame
<1>5. l \in Loops(Call.at \o <<1>>)
  BY <1>4, LoopsOfBody DEF Stmt
<1>6. PICK j \in 1 .. Len(work) : work[j].do = "loop" /\ work[j].at = l
  BY <1>2, <1>3, <1>5, Zenon DEF CallOK
<1>7. FrameOK(work[j], bb)
  BY <1>1 DEF StackOK
<1> QED
  BY <1>6, <1>7 DEF FrameOK, Loops

LEMMA SimGenJump ==
  ASSUME Ready, NEW lab, SimOK(lab, work, bb, blocks, cur), GenJump,
         pc = "codegen", Connected, LinkLoops, NoIncSkipped
  PROVE  pc' = pc /\ SimOK(lab, work', bb', blocks', cur')
<1>1. PICK op \in {"break", "continue"} :
        /\ Generating(op)
        /\ IF Stmt \in DOMAIN link
           THEN LET first == bb[link[Stmt]]
                IN  /\ blocks' = Emit(cur, Br(IF op = "break" THEN first + 2 ELSE first))
                    /\ UNCHANGED pc
           ELSE pc' = "undefined" /\ UNCHANGED blocks
  BY DEF GenJump
<1>2. work' = Advanced /\ bb' = bb /\ cur' = cur
  BY DEF GenJump
<1>3. Stmt \in DOMAIN ast /\ ast[Stmt].op = op /\ prog[Stmt].op = op /\ work # <<>> /\ Call.do = "body"
      /\ Stmt \in DOMAIN prog
  BY <1>1, AtStmt
<1>4. Stmt \in DOMAIN link /\ link[Stmt] = Innermost(Stmt)
  BY <1>3 DEF Connected
<1> DEFINE l == Innermost(Stmt)
           to == IF op = "break" THEN bb[l] + 2 ELSE bb[l]
           ins == Br(to)
<1>5. Loops(Stmt) # {}
  BY <1>4 DEF LinkLoops
<1>6. l \in Loops(Stmt)
  <2>1. Stmt \in Paths
    BY <1>3, Statement DEF Ready
  <2> QED
    BY <1>5, <2>1, InnermostLoop
<1> HIDE DEF l
<1>7. PICK j \in 1 .. Len(work) : work[j].do = "loop" /\ work[j].at = l
  BY <1>3, <1>6, LoopCalled DEF SimOK
<1>8. l \in DOMAIN bb /\ prog[l].op = "for"
  BY <1>3, <1>6, LoopCalled DEF SimOK
<1>9. /\ bb[l] \in DOMAIN blocks /\ bb[l] + 2 \in DOMAIN blocks /\ ~Open(blocks[bb[l]])
      /\ lab[bb[l] + 2] = Finished[l] /\ lab[bb[l]] = What("cond", l)
  BY <1>8 DEF SimOK, LabelsOK, FirstOK
<1>10. Comes(Stmt, Finished) = IF op = "break" THEN Finished[l] ELSE Again(l)
  BY <1>1, <1>3, <1>5 DEF Comes, l
<1>11. op = "continue" => Again(l) = What("cond", l)
  BY <1>3 DEF NoIncSkipped, Again, l
<1>12. ins.ev = "br" /\ ins.to[1] = to
  BY DEF Br, Ins
<1>13. lab[to] = Comes(Stmt, Finished) /\ to \in DOMAIN blocks
  BY <1>1, <1>9, <1>10, <1>11
<1>14. Known(to)
  <2>1. CASE op = "break"
    <3>1. bb[l] + 2 \in Pending(work[j], bb)
      BY <1>7 DEF Pending
    <3> QED
      BY <1>7, <2>1, <3>1 DEF Known
  <2>2. CASE op = "continue"
    BY <1>9, <2>2 DEF Known
  <2> QED
    BY <1>1, <2>1, <2>2
<1>15. blocks' = Emit(cur, ins) /\ pc' = pc
  BY <1>1, <1>4 DEF l
<1> HIDE DEF ins, to
<1>16. InsOK(lab, ins, Comes(Stmt, Finished)) /\ Targets(ins) = {to}
  BY <1>12, <1>13 DEF InsOK, Targets
<1>17. SimOK(lab, Advanced, bb, blocks', cur)
  <2>1. Targets(ins) \subseteq DOMAIN blocks /\ \A b \in Targets(ins) : Known(b)
    BY <1>13, <1>14, <1>16
  <2>2. op \in Jumps /\ ins.ev \in Ends
    BY <1>1, <1>12 DEF Jumps, Ends
  <2> QED
    BY <1>1, <1>15, <1>16, <2>1, <2>2, SimEmit
<1> QED
  BY <1>2, <1>15, <1>17

-----------------------------------------------------------------------------
(* The end of a body.                                                      *)

\* The call on top, which has a body, and the call of the body it stands in.
LEMMA AtEndOf ==
  ASSUME Ready, NEW lab, SimOK(lab, work, bb, blocks, cur), work # <<>>, Call.do # "body"
  PROVE  LET L == Len(work)
             p == Call.at
             under == work[L - 1]
         IN  /\ L \in Nat /\ L > 1 /\ L - 1 \in Nat /\ Call = work[L] /\ Call \in Frame /\ under \in Frame
             /\ under.do = "body" /\ under.n > 1 /\ p = LastStmt(under) /\ p \in DOMAIN ast /\ p \in Paths
             /\ prog[p] = ast[p] /\ prog[p].op = IF Call.do = "loop" THEN "for" ELSE "if"
             /\ p \in DOMAIN bb /\ bb[p] \in Nat /\ FirstOK(lab, p, bb[p])
             /\ {bb[p], bb[p] + 1, bb[p] + 2} \subseteq DOMAIN blocks
             /\ under.at \in Paths /\ Len(under.at) % 2 = 0 /\ Finished[p] = Come(under.at, under.n)
<1> DEFINE L == Len(work)
           p == Call.at
           under == work[L - 1]
<1>1. StackOK(work, bb)
  BY DEF Ready, CodegenInv
<1>2. L \in Nat /\ L >= 1 /\ Call \in Frame /\ Call = work[L]
  BY <1>1, ReturnedFacts DEF Call
<1>3. FrameOK(Call, bb) /\ CallOK(work, L)
  BY <1>1, <1>2 DEF StackOK, CallsOK, SimOK
<1> HIDE DEF L
<1>4. /\ L > 1 /\ under.do = "body" /\ under.n > 1 /\ p = under.at \o <<under.n - 1>>
      /\ p \in DOMAIN ast /\ ast[p].op = IF Call.do = "loop" THEN "for" ELSE "if"
  BY <1>2, <1>3, Zenon DEF CallOK
<1>5. L - 1 \in 1 .. L /\ L - 1 \in Nat
  BY <1>2, <1>4
<1>6. under \in Frame /\ FrameOK(under, bb)
  BY <1>1, <1>5 DEF StackOK, L
<1>7. p \in DOMAIN bb /\ bb[p] \in Nat
  BY <1>3 DEF FrameOK
<1>8. FirstOK(lab, p, bb[p]) /\ {bb[p], bb[p] + 1, bb[p] + 2} \subseteq DOMAIN blocks
  BY <1>7 DEF SimOK, LabelsOK
<1>9. p \in DOMAIN prog /\ prog[p] = ast[p]
  BY <1>4 DEF Ready, AstOK
<1>10. under.at \in Paths /\ under.n \in Nat /\ Len(under.at) % 2 = 0 /\ p \in Paths
  BY <1>2, <1>4, <1>6 DEF FrameOK, Frame
<1>11. Finished[p] = Come(under.at, under.n)
  <2> DEFINE k == under.n - 1
             q == under.at
  <2>1. k \in Nat /\ k + 1 = under.n /\ p = q \o <<k>> /\ q \in Paths
    BY <1>4, <1>10
  <2> HIDE DEF k, p, q
  <2>2. Finished[q \o <<k>>] = Come(q, k + 1)
    BY <1>9, <2>1, FinishedCome DEF Ready
  <2> QED
    BY <2>1, <2>2, Zenon DEF q
<1> HIDE DEF p, under
<1>12. p = LastStmt(under)
  BY <1>4 DEF LastStmt
<1> QED
  BY <1>2, <1>4, <1>5, <1>6, <1>7, <1>8, <1>9, <1>10, <1>11, <1>12, Zenon DEF L, p, under

\* Behind the body the block goes on to x, where the program goes on as well,
\* or the body has ended in a jump.
Left(lab, x, new) ==
  /\ LabelsOK(lab, bb, new) /\ BlocksSim(lab, new) /\ DOMAIN new = DOMAIN blocks
  /\ \A b \in DOMAIN blocks : b # cur => new[b] = blocks[b]
  /\ \A b : Targeted(b, new) => Targeted(b, blocks) \/ (b = x /\ ~Ended(Call))
  /\ Open(new[cur]) => ~Targeted(cur, new)

LEMMA ClosedIsEnded ==
  ASSUME CodegenInv, work # <<>>, Call.do # "body", ~Ended(Call)
  PROVE  cur \in DOMAIN blocks /\ Open(blocks[cur])
BY DEF CodegenInv, Closed, Ended

LEMMA LeaveEnded ==
  ASSUME Ready, NEW lab, SimOK(lab, work, bb, blocks, cur), work # <<>>, Ended(Call), NEW x
  PROVE  Left(lab, x, blocks)
<1>1. Call = work[Len(work)]
  BY DEF Call
<1> QED
  BY <1>1 DEF SimOK, ReachOK, Left

LEMMA LeaveBr ==
  ASSUME Ready, NEW lab, SimOK(lab, work, bb, blocks, cur), work # <<>>, Call.do # "body", ~Ended(Call),
         NEW x \in DOMAIN blocks, lab[x] = Here(work),
         NEW new, new = Emit(cur, Br(x))
  PROVE  Left(lab, x, new)
<1> DEFINE ins == Br(x)
<1>1. cur \in DOMAIN blocks /\ Open(blocks[cur]) /\ BlocksOK(blocks)
  BY ClosedIsEnded DEF Ready
<1>2. Emitted(blocks, cur, ins, new)
  <2> HIDE DEF ins
  <2> QED
    BY <1>1 DEF Emit, Emitted, ins
<1>3. ins.ev = "br" /\ ins.to[1] = x
  BY DEF Br, Ins
<1> HIDE DEF ins
<1>4. AtEnd(lab[cur], blocks[cur]) = Here(work)
  BY <1>1 DEF SimOK, HereOK
<1>5. Targets(ins) = {x} /\ InsOK(lab, ins, AtEnd(lab[cur], blocks[cur])) /\ ins.ev \in Ends
  BY <1>3, <1>4 DEF Targets, InsOK, Ends
<1>6. Fits(lab, bb, blocks, cur, ins, new)
  <2>1. LabelsOK(lab, bb, blocks) /\ BlocksSim(lab, blocks) /\ Targets(ins) \subseteq DOMAIN blocks
    BY <1>5 DEF SimOK
  <2> QED
    BY <1>1, <1>2, <1>5, <2>1, EmitSim
<1> QED
  BY <1>2, <1>5, <1>6 DEF Left, Fits, Emitted

\* With the inc_asg of a loop in front of it.
LEMMA LeaveInc ==
  ASSUME Ready, NEW lab, SimOK(lab, work, bb, blocks, cur), work # <<>>, Call.do = "loop", ~Ended(Call),
         NEW x \in DOMAIN blocks, NEW p, Here(work) = What("inc", p), lab[x] = What("cond", p),
         NEW new, new = [blocks EXCEPT ![cur] = @ \o <<Ins("inc", p, <<>>)>> \o <<Br(x)>>]
  PROVE  Left(lab, x, new)
<1> DEFINE inc == Ins("inc", p, <<>>)
           ins == Br(x)
           mid == Emit(cur, inc)
<1>1. cur \in DOMAIN blocks /\ Open(blocks[cur]) /\ BlocksOK(blocks) /\ IsSeq(blocks[cur])
  BY ClosedIsEnded DEF Ready, BlocksOK
<1>2. inc.ev = "inc" /\ inc.at = p /\ ins.ev = "br" /\ ins.to[1] = x
  BY DEF Br, Ins
<1> HIDE DEF ins, inc
<1>3. Emitted(blocks, cur, inc, mid)
  BY <1>1 DEF Emit, Emitted
<1>4. AtEnd(lab[cur], blocks[cur]) = What("inc", p)
  BY <1>1 DEF SimOK, HereOK
<1>5. Targets(inc) = {} /\ InsOK(lab, inc, AtEnd(lab[cur], blocks[cur])) /\ inc.ev \notin Ends
  BY <1>2, <1>4 DEF Targets, InsOK, Ends
<1>6. Fits(lab, bb, blocks, cur, inc, mid)
  <2>1. LabelsOK(lab, bb, blocks) /\ BlocksSim(lab, blocks) /\ Targets(inc) \subseteq DOMAIN blocks
    BY <1>5 DEF SimOK
  <2> QED
    BY <1>1, <1>3, <1>5, <2>1, EmitSim
<1>7. BlocksOK(mid) /\ Open(mid[cur])
  <2>1. BlocksOK(Emit(cur, inc)) /\ (inc.ev \notin Ends => Open(Emit(cur, inc)[cur]))
    BY <1>1, EmitFacts
  <2> QED
    BY <1>5, <2>1
<1>8. Emitted(mid, cur, ins, new)
  <2>1. new = [blocks EXCEPT ![cur] = Append(Append(blocks[cur], inc), ins)]
    <3>1. \A u, z : IsSeq(u) => u \o <<z>> = Append(u, z)
      BY DEF IsSeq
    <3>2. IsSeq(Append(blocks[cur], inc))
      BY <1>1, AppendFacts
    <3>3. blocks[cur] \o <<inc>> \o <<ins>> = Append(Append(blocks[cur], inc), ins)
      BY <1>1, <3>1, <3>2
    <3> QED
      BY <3>3 DEF inc, ins
  <2>2. /\ DOMAIN mid = DOMAIN blocks /\ mid[cur] = Append(blocks[cur], inc)
        /\ \A b \in DOMAIN blocks : b # cur => mid[b] = blocks[b]
    BY <1>3 DEF Emitted
  <2> HIDE DEF mid
  <2>3. DOMAIN new = DOMAIN mid /\ new[cur] = Append(mid[cur], ins)
    BY <1>1, <2>1, <2>2
  <2>4. \A b \in DOMAIN mid : b # cur => new[b] = mid[b]
    BY <2>1, <2>2
  <2> QED
    BY <1>1, <1>7, <2>2, <2>3, <2>4 DEF Emitted
<1> HIDE DEF mid
<1>9. AtEnd(lab[cur], mid[cur]) = What("cond", p)
  BY <1>2, <1>6, StepNext DEF Fits
<1>10. Targets(ins) = {x} /\ InsOK(lab, ins, AtEnd(lab[cur], mid[cur])) /\ ins.ev \in Ends
  BY <1>2, <1>9 DEF Targets, InsOK, Ends
<1>11. Fits(lab, bb, mid, cur, ins, new)
  <2>1. LabelsOK(lab, bb, mid) /\ BlocksSim(lab, mid) /\ Targets(ins) \subseteq DOMAIN mid
    BY <1>3, <1>6, <1>10 DEF Fits, Emitted
  <2> QED
    BY <1>7, <1>8, <1>10, <2>1, EmitSim
<1>12. \A b : Targeted(b, new) => Targeted(b, blocks) \/ b = x
  BY <1>5, <1>6, <1>10, <1>11 DEF Fits
<1> QED
  BY <1>3, <1>8, <1>10, <1>11, <1>12 DEF Left, Fits, Emitted

\* The blocks that the call on top waits for are where the code goes on.
LEMMA LeftWaiting ==
  ASSUME Ready, NEW lab, SimOK(lab, work, bb, blocks, cur), work # <<>>, Call.do # "body",
         NEW x, NEW new, Left(lab, x, new), x \in Pending(Call, bb) \/ ~Open(blocks[x])
  PROVE  /\ \A b \in DOMAIN new : Open(new[b]) /\ Targeted(b, new) =>
              b \in Pending(Call, bb) \/ \E i \in 1 .. Len(Returned) : b \in Pending(Returned[i], bb)
         /\ \A i \in 1 .. Len(Returned) : WaitOK(Returned[i], bb, new)
         /\ \A b \in Pending(Call, bb) : b \in DOMAIN new /\ new[b] = <<>>
<1> DEFINE L == Len(work)
           R == Returned
<1>1. StackOK(work, bb) /\ BlankOK(work, bb, blocks, cur)
  BY DEF Ready, CodegenInv
<1>2. /\ Len(R) = L - 1 /\ \A i \in 1 .. L - 1 : R[i] = work[i]
      /\ L \in Nat /\ L >= 1 /\ Call = work[L] /\ L \in 1 .. L
  BY <1>1, ReturnedFacts DEF Call
<1> HIDE DEF R
<1>3. /\ DOMAIN new = DOMAIN blocks /\ \A b \in DOMAIN blocks : b # cur => new[b] = blocks[b]
      /\ \A b : Targeted(b, new) => Targeted(b, blocks) \/ b = x
      /\ Open(new[cur]) => ~Targeted(cur, new)
  BY DEF Left
<1>4. \A i \in 1 .. L : \A b \in Pending(work[i], bb) : b \in DOMAIN blocks /\ blocks[b] = <<>> /\ b # cur
  BY <1>1 DEF BlankOK
<1>5. \A b \in Pending(Call, bb) : b \in DOMAIN new /\ new[b] = <<>>
  BY <1>2, <1>3, <1>4
<1>6. ASSUME NEW b \in DOMAIN new, Open(new[b]), Targeted(b, new)
      PROVE  b \in Pending(Call, bb) \/ \E i \in 1 .. Len(R) : b \in Pending(R[i], bb)
  <2>1. b # cur
    BY <1>3, <1>6
  <2>2. Open(blocks[b]) /\ b \in DOMAIN blocks
    BY <1>3, <1>6, <2>1
  <2>3. CASE Targeted(b, blocks)
    <3>1. PICK i \in 1 .. L : b \in Pending(work[i], bb)
      BY <2>1, <2>2, <2>3 DEF SimOK, ReachOK
    <3>2. CASE i = L
      BY <1>2, <3>1, <3>2
    <3>3. CASE i # L
      <4>1. i \in 1 .. Len(R) /\ R[i] = work[i]
        BY <1>2, <3>3
      <4> QED
        BY <3>1, <4>1
    <3> QED
      BY <3>2, <3>3
  <2>4. CASE b = x
    BY <2>2, <2>4
  <2> QED
    BY <1>3, <1>6, <2>3, <2>4
<1>7. ASSUME NEW i \in 1 .. Len(R)
      PROVE  WaitOK(R[i], bb, new)
  <2>1. i \in 1 .. L /\ R[i] = work[i] /\ i < L
    BY <1>2
  <2>2. WaitOK(work[i], bb, blocks)
    BY <2>1 DEF SimOK, ReachOK
  <2>3. x \notin Pending(work[i], bb)
    <3>1. CASE x \in Pending(Call, bb)
      BY <1>1, <1>2, <2>1, <3>1 DEF BlankOK
    <3>2. CASE ~Open(blocks[x])
      BY <1>4, <2>1, <3>2, EmptyBlock
    <3> QED
      BY <3>1, <3>2
  <2>4. \A b \in Pending(work[i], bb) : Targeted(b, new) => Targeted(b, blocks)
    BY <1>3, <2>3
  <2>5. WaitOK(work[i], bb, new)
    BY <2>2, <2>4, WaitKept
  <2> QED
    BY <2>1, <2>5
<1> QED
  BY <1>5, <1>6, <1>7 DEF R

\* Behind an if or a loop the code goes on in its merge block.
LEMMA SimMerge ==
  ASSUME Ready, NEW lab, SimOK(lab, work, bb, blocks, cur), work # <<>>, Call.do \in {"else", "loop"},
         NEW c, c = bb[Call.at] + 2, NEW x, NEW new, Left(lab, x, new), x = c \/ ~Open(blocks[x])
  PROVE  SimOK(lab, Returned, bb, new, c)
<1> DEFINE L == Len(work)
           p == Call.at
           under == work[L - 1]
           R == Returned
<1>1. /\ L \in Nat /\ L > 1 /\ L - 1 \in Nat /\ Call = work[L] /\ under.do = "body" /\ under.n > 1
      /\ p = LastStmt(under) /\ p \in DOMAIN ast
      /\ prog[p] = ast[p] /\ prog[p].op = IF Call.do = "loop" THEN "for" ELSE "if"
      /\ FirstOK(lab, p, bb[p]) /\ Finished[p] = Come(under.at, under.n)
  <2>1. LET LL == Len(work)
            pp == Call.at
            uu == work[LL - 1]
        IN  /\ LL \in Nat /\ LL > 1 /\ LL - 1 \in Nat /\ Call = work[LL] /\ Call \in Frame /\ uu \in Frame
            /\ uu.do = "body" /\ uu.n > 1 /\ pp = LastStmt(uu) /\ pp \in DOMAIN ast /\ pp \in Paths
            /\ prog[pp] = ast[pp] /\ prog[pp].op = IF Call.do = "loop" THEN "for" ELSE "if"
            /\ pp \in DOMAIN bb /\ bb[pp] \in Nat /\ FirstOK(lab, pp, bb[pp])
            /\ {bb[pp], bb[pp] + 1, bb[pp] + 2} \subseteq DOMAIN blocks
            /\ uu.at \in Paths /\ Len(uu.at) % 2 = 0 /\ Finished[pp] = Come(uu.at, uu.n)
    BY AtEndOf
  <2> QED
    BY <2>1, Zenon
<1>2. /\ Len(R) = L - 1 /\ \A i \in 1 .. L - 1 : R[i] = work[i]
  <2>1. StackOK(work, bb)
    BY DEF Ready, CodegenInv
  <2> QED
    BY <2>1, ReturnedFacts
<1>3. CallsOK(R)
  BY CallsReturned DEF Ready, CodegenInv, SimOK
<1>4. Pending(Call, bb) = {c}
  BY DEF Pending
<1>5. R[L - 1] = under /\ R # <<>> /\ Len(R) = L - 1
  <2>1. L - 1 \in 1 .. L - 1 /\ L - 1 # 0
    BY <1>1
  <2> QED
    BY <1>2, <2>1
<1> HIDE DEF L, p, under, R
<1>6. /\ \A b \in DOMAIN new : Open(new[b]) /\ Targeted(b, new) =>
           b \in Pending(Call, bb) \/ \E i \in 1 .. Len(R) : b \in Pending(R[i], bb)
      /\ \A i \in 1 .. Len(R) : WaitOK(R[i], bb, new)
      /\ \A b \in Pending(Call, bb) : b \in DOMAIN new /\ new[b] = <<>>
  <2>1. x \in Pending(Call, bb) \/ ~Open(blocks[x])
    BY <1>4
  <2> QED
    BY <2>1, LeftWaiting DEF R
<1>7. HereOK(lab, R, new, c)
  <2>1. new[c] = <<>>
    BY <1>4, <1>6
  <2>2. AtEnd(lab[c], <<>>) = lab[c]
    BY DEF AtEnd, Follow
  <2>3. lab[c] = Finished[p]
    BY <1>1 DEF FirstOK, p
  <2>4. Here(R) = Come(under.at, under.n)
    BY <1>1, <1>5 DEF Here
  <2> QED
    BY <1>1, <2>1, <2>2, <2>3, <2>4 DEF HereOK
<1>8. ~Jumped(under)
  BY <1>1 DEF Jumped, Jumps
<1>9. ASSUME Ended(under) PROVE ~Targeted(c, new)
  <2>1. BothEnd(p)
    <3>1. ast[LastStmt(under)].op \in Jumps \/ BothEnd(LastStmt(under))
      BY <1>1, <1>9, Zenon DEF Ended
    <3> QED
      BY <1>1, <3>1 DEF Jumps
  <2>2. Call.do = "else" /\ EndsInJump(p \o <<1>>) /\ EndsInJump(p \o <<2>>)
    BY <1>1, <2>1 DEF BothEnd
  <2>3. Ended(Call)
    BY <2>2 DEF Ended, p
  <2>4. WaitOK(Call, bb, blocks)
    BY <1>1 DEF SimOK, ReachOK, L
  <2>5. ~Targeted(c, blocks)
    BY <2>2, <2>4 DEF WaitOK, p
  <2> QED
    BY <2>3, <2>5 DEF Left
<1>10. ReachOK(R, bb, new, c)
  <2>1. R[Len(R)] = under
    BY <1>5
  <2> QED
    BY <1>4, <1>6, <1>8, <1>9, <2>1 DEF ReachOK
<1> QED
  BY <1>3, <1>7, <1>10 DEF SimOK, Left, R

LEMMA SimEndElse ==
  ASSUME Ready, NEW lab, SimOK(lab, work, bb, blocks, cur), EndElse
  PROVE  SimOK(lab, work', bb', blocks', cur')
<1> DEFINE p == Call.at
           x == bb[p] + 2
<1>1. /\ work # <<>> /\ Call.do = "else" /\ cur' = x /\ work' = Returned /\ bb' = bb
      /\ blocks' = IF Ended(Call) THEN blocks ELSE Emit(cur, Br(x))
  BY DEF EndElse, Ended
<1>2. x \in DOMAIN blocks /\ lab[x] = Finished[p]
  BY <1>1, AtEndOf DEF FirstOK
<1>3. Here(work) = Finished[p]
  BY <1>1 DEF Here, Call
<1>4. x = bb[Call.at] + 2
  OBVIOUS
<1> HIDE DEF x, p
<1>5. Left(lab, x, blocks')
  <2>1. CASE Ended(Call)
    BY <1>1, <2>1, LeaveEnded
  <2>2. CASE ~Ended(Call)
    BY <1>1, <1>2, <1>3, <2>2, LeaveBr
  <2> QED
    BY <2>1, <2>2
<1>6. SimOK(lab, Returned, bb, blocks', x)
  BY <1>1, <1>4, <1>5, SimMerge
<1> QED
  BY <1>1, <1>6

LEMMA SimEndLoop ==
  ASSUME Ready, NEW lab, SimOK(lab, work, bb, blocks, cur), EndLoop
  PROVE  SimOK(lab, work', bb', blocks', cur')
<1> DEFINE p == Call.at
           x == bb[p]
           c == bb[p] + 2
           inc == IF ast[p].inc THEN <<Ins("inc", p, <<>>)>> ELSE <<>>
<1>1. /\ work # <<>> /\ Call.do = "loop" /\ cur' = c /\ work' = Returned /\ bb' = bb
      /\ blocks' = IF Ended(Call) THEN blocks ELSE [blocks EXCEPT ![cur] = @ \o inc \o <<Br(x)>>]
  BY DEF EndLoop, Ended
<1>2. /\ p \in DOMAIN bb /\ prog[p].op = "for" /\ prog[p] = ast[p] /\ FirstOK(lab, p, bb[p])
      /\ x \in DOMAIN blocks
  BY <1>1, AtEndOf
<1>3. lab[x] = What("cond", p) /\ ~Open(blocks[x])
  BY <1>2 DEF FirstOK, SimOK, LabelsOK
<1>4. Here(work) = Again(p)
  BY <1>1 DEF Here, Call
<1>5. c = bb[Call.at] + 2
  OBVIOUS
<1>6. Left(lab, x, blocks')
  <2>1. CASE Ended(Call)
    BY <1>1, <2>1, LeaveEnded
  <2>2. CASE ~Ended(Call) /\ ast[p].inc
    <3>1. Here(work) = What("inc", p)
      BY <1>2, <1>4, <2>2 DEF Again
    <3>2. blocks' = [blocks EXCEPT ![cur] = @ \o <<Ins("inc", p, <<>>)>> \o <<Br(x)>>]
      BY <1>1, <2>2
    <3> HIDE DEF x, p, inc
    <3> QED
      BY <1>1, <1>2, <1>3, <2>2, <3>1, <3>2, LeaveInc
  <2>3. CASE ~Ended(Call) /\ ~ast[p].inc
    <3>1. Here(work) = lab[x]
      BY <1>2, <1>3, <1>4, <2>3 DEF Again
    <3>2. blocks' = Emit(cur, Br(x))
      <4>1. cur \in DOMAIN blocks /\ IsSeq(blocks[cur])
        BY DEF Ready, CodegenInv, BlocksOK
      <4>2. \A u, z : IsSeq(u) => u \o <<z>> = Append(u, z) /\ u \o <<>> = u
        BY DEF IsSeq
      <4>3. blocks' = [blocks EXCEPT ![cur] = blocks[cur] \o <<>> \o <<Br(x)>>]
        BY <1>1, <2>3
      <4> HIDE DEF x, p, inc
      <4>4. blocks[cur] \o <<>> \o <<Br(x)>> = Append(blocks[cur], Br(x))
        BY <4>1, <4>2
      <4> QED
        BY <4>3, <4>4 DEF Emit
    <3> HIDE DEF x, p, inc
    <3> QED
      BY <1>1, <1>2, <2>3, <3>1, <3>2, LeaveBr
  <2> QED
    BY <2>1, <2>2, <2>3
<1> HIDE DEF x, c, p, inc
<1>7. SimOK(lab, Returned, bb, blocks', c)
  BY <1>1, <1>3, <1>5, <1>6, SimMerge
<1> QED
  BY <1>1, <1>7

\* Behind the body of an if comes its else body.
LEMMA SimEndThen ==
  ASSUME Ready, NEW lab, SimOK(lab, work, bb, blocks, cur), EndThen
  PROVE  SimOK(lab, work', bb', blocks', cur')
<1> DEFINE L == Len(work)
           p == Call.at
           under == work[L - 1]
           R == Returned
           c == bb[p] + 1
           x == bb[p] + 2
           f == [do |-> "else", at |-> p, n |-> 0]
           g == [do |-> "body", at |-> p \o <<2>>, n |-> 1]
           w == R \o <<f, g>>
<1>1. /\ work # <<>> /\ Call.do = "then" /\ cur' = c /\ bb' = bb
      /\ blocks' = IF Ended(Call) THEN blocks ELSE Emit(cur, Br(x))
  BY DEF EndThen, Ended
<1>2. work' = w
  BY DEF EndThen
<1>3. /\ L \in Nat /\ L > 1 /\ L - 1 \in Nat /\ Call = work[L] /\ Call \in Frame /\ under \in Frame
      /\ under.do = "body" /\ under.n > 1 /\ p = LastStmt(under) /\ p \in DOMAIN ast /\ p \in Paths
      /\ prog[p] = ast[p] /\ prog[p].op = "if"
      /\ FirstOK(lab, p, bb[p]) /\ x \in DOMAIN blocks /\ Len(under.at) % 2 = 0
  <2>1. LET LL == Len(work)
            pp == Call.at
            uu == work[LL - 1]
        IN  /\ LL \in Nat /\ LL > 1 /\ LL - 1 \in Nat /\ Call = work[LL] /\ Call \in Frame /\ uu \in Frame
            /\ uu.do = "body" /\ uu.n > 1 /\ pp = LastStmt(uu) /\ pp \in DOMAIN ast /\ pp \in Paths
            /\ prog[pp] = ast[pp] /\ prog[pp].op = IF Call.do = "loop" THEN "for" ELSE "if"
            /\ pp \in DOMAIN bb /\ bb[pp] \in Nat /\ FirstOK(lab, pp, bb[pp])
            /\ {bb[pp], bb[pp] + 1, bb[pp] + 2} \subseteq DOMAIN blocks
            /\ uu.at \in Paths /\ Len(uu.at) % 2 = 0 /\ Finished[pp] = Come(uu.at, uu.n)
    BY <1>1, AtEndOf
  <2> QED
    BY <1>1, <2>1
<1>4. /\ StackOK(R, bb) /\ Len(R) = L - 1 /\ \A i \in 1 .. L - 1 : R[i] = work[i]
  <2>1. StackOK(work, bb)
    BY DEF Ready, CodegenInv
  <2> QED
    BY <1>1, <2>1, ReturnedFacts
<1>5. lab[x] = Finished[p] /\ lab[c] = SourceNext(What("cond", p), FALSE)
  BY <1>3 DEF FirstOK
<1>6. SourceNext(What("cond", p), FALSE) = Come(p \o <<2>>, 1)
  BY <1>3, CondNext
<1>7. Here(work) = Finished[p]
  BY <1>1 DEF Here, Call
<1>8. Pending(Call, bb) = {c, x}
  BY <1>1 DEF Pending
<1>9. /\ f.do = "else" /\ f.at = p /\ g.do = "body" /\ g.at = p \o <<2>> /\ g.n = 1
      /\ f \in Frame /\ g \in Frame
  BY <1>3, PathFacts DEF Frame
<1>10. Pending(f, bb) = {x}
  BY <1>9 DEF Pending
<1> HIDE DEF f, g
<1>11. /\ Len(w) = L - 1 + 2 /\ \A i \in 1 .. L - 1 : w[i] = R[i]
       /\ w[L] = f /\ w[L + 1] = g
  <2>1. R \in Seq(Frame)
    BY <1>4 DEF StackOK
  <2> HIDE DEF R, L
  <2>2. /\ Len(R \o <<f, g>>) = Len(R) + 2
        /\ \A i \in 1 .. Len(R) : (R \o <<f, g>>)[i] = R[i]
        /\ (R \o <<f, g>>)[Len(R) + 1] = f /\ (R \o <<f, g>>)[Len(R) + 2] = g
    BY <1>9, <2>1
  <2>3. L - 1 + 1 = L /\ L - 1 + 2 = L + 1
    BY <1>3
  <2> QED
    BY <1>4, <2>2, <2>3
<1> HIDE DEF w, x, c
<1>12. Left(lab, x, blocks')
  <2> HIDE DEF p, R, L, under
  <2>1. CASE Ended(Call)
    BY <1>1, <2>1, LeaveEnded
  <2>2. CASE ~Ended(Call)
    BY <1>1, <1>3, <1>5, <1>7, <2>2, LeaveBr
  <2> QED
    BY <2>1, <2>2
<1>13. /\ \A b \in DOMAIN blocks' : Open(blocks'[b]) /\ Targeted(b, blocks') =>
            b \in Pending(Call, bb) \/ \E i \in 1 .. Len(R) : b \in Pending(R[i], bb)
       /\ \A i \in 1 .. Len(R) : WaitOK(R[i], bb, blocks')
       /\ \A b \in Pending(Call, bb) : b \in DOMAIN blocks' /\ blocks'[b] = <<>>
  <2>1. x \in Pending(Call, bb)
    BY <1>8
  <2> QED
    BY <1>1, <1>12, <2>1, LeftWaiting
<1>14. CallsOK(w)
  <2>1. CallsOK(R)
    BY <1>1, CallsReturned DEF Ready, CodegenInv, SimOK
  <2> DEFINE M == L - 1
  <2>2. M \in Nat \ {0} /\ Len(R) = M /\ M \in 1 .. M /\ L = M + 1 /\ L + 1 = M + 2
    BY <1>3, <1>4
  <2>3. R[M] = under
    BY <1>4, <2>2
  <2>4. Len(w) = M + 2 /\ (\A i \in 1 .. M : w[i] = R[i]) /\ w[M + 1] = f /\ w[M + 2] = g
    BY <1>11, <2>2
  <2>5. p = under.at \o <<under.n - 1>> /\ ast[p].op = "if" /\ AstOK
    BY <1>3 DEF LastStmt, Ready
  <2> HIDE DEF M, R, L, p, under
  <2>6. R[M] \in Frame /\ R[M].do = "body" /\ R[M].n > 1 /\ Len(R[M].at) % 2 = 0
    BY <1>3, <2>3
  <2>7. /\ w[M + 1].do = "else" /\ w[M + 1].at = R[M].at \o <<R[M].n - 1>>
        /\ w[M + 1].at \in DOMAIN ast /\ ast[w[M + 1].at].op = "if"
        /\ w[M + 2].do = "body" /\ w[M + 2].at = w[M + 1].at \o <<2>> /\ w[M + 2].n = 1
    BY <1>3, <1>9, <2>3, <2>4, <2>5
  <2>8. w[M + 1].do \in {"then", "else", "loop"}
        /\ ast[w[M + 1].at].op = IF w[M + 1].do = "loop" THEN "for" ELSE "if"
    BY <2>7
  <2> QED
    <3>1. CalledBody(R, w, M, 2)
      BY <2>2, <2>4, <2>6, <2>7, <2>8 DEF CalledBody
    <3> QED
      BY <2>1, <2>2, <2>5, <3>1, CallsPushed, 2 \in Nat
<1> HIDE DEF R, p, under
<1>15. w # <<>> /\ w[Len(w)] = g /\ Len(w) = L + 1
  BY <1>3, <1>11
<1>16. HereOK(lab, w, blocks', c)
  <2>1. blocks'[c] = <<>>
    BY <1>8, <1>13
  <2>2. AtEnd(lab[c], <<>>) = lab[c]
    BY DEF AtEnd, Follow
  <2>3. Here(w) = Come(p \o <<2>>, 1)
    BY <1>9, <1>15 DEF Here
  <2> QED
    BY <1>5, <1>6, <2>1, <2>2, <2>3 DEF HereOK
<1>17. ReachOK(w, bb, blocks', c)
  <2>1. \A i \in 1 .. Len(w) : i \in 1 .. Len(R) \/ i = L \/ i = L + 1
    BY <1>3, <1>4, <1>15
  <2>2. L \in 1 .. Len(w) /\ \A i \in 1 .. Len(R) : i \in 1 .. Len(w) /\ w[i] = R[i]
    BY <1>3, <1>4, <1>11, <1>15
  <2>3. ASSUME NEW b \in DOMAIN blocks', Open(blocks'[b]), Targeted(b, blocks')
        PROVE  b = c \/ \E i \in 1 .. Len(w) : b \in Pending(w[i], bb)
    BY <1>8, <1>10, <1>11, <1>13, <2>2, <2>3
  <2>4. WaitOK(f, bb, blocks')
    <3>1. ASSUME EndsInJump(p \o << 1 >>) PROVE ~Targeted(x, blocks')
      <4>1. Ended(Call)
        BY <1>1, <3>1 DEF Ended, p
      <4>2. WaitOK(Call, bb, blocks)
        BY <1>3 DEF SimOK, ReachOK
      <4>3. ~Targeted(x, blocks)
        BY <1>1, <4>2 DEF WaitOK, x, p
      <4> QED
        BY <1>12, <4>1, <4>3 DEF Left
    <3> QED
      BY <1>9, <3>1 DEF WaitOK, x
  <2>5. WaitOK(g, bb, blocks')
    BY <1>9 DEF WaitOK
  <2>6. \A i \in 1 .. Len(w) : WaitOK(w[i], bb, blocks')
    BY <1>11, <1>13, <2>1, <2>2, <2>4, <2>5
  <2>7. ~Jumped(g) /\ ~Ended(g)
    BY <1>9 DEF Jumped, Ended
  <2> QED
    BY <1>15, <2>3, <2>6, <2>7 DEF ReachOK
<1>18. LabelsOK(lab, bb, blocks') /\ BlocksSim(lab, blocks')
  BY <1>12 DEF Left
<1> QED
  BY <1>1, <1>2, <1>14, <1>16, <1>17, <1>18 DEF SimOK

\* At the end of a body its statement is gone on with.
LEMMA SimEndBody ==
  ASSUME Ready, NEW lab, SimOK(lab, work, bb, blocks, cur), EndBody
  PROVE  SimOK(lab, work', bb', blocks', cur')
<1> DEFINE L == Len(work)
           R == Returned
           under == work[L - 1]
<1>1. /\ work # <<>> /\ Call.do = "body" /\ Stmt \notin DOMAIN ast
      /\ blocks' = blocks /\ bb' = bb /\ cur' = cur /\ work' = R
  BY DEF EndBody
<1>2. StackOK(work, bb)
  BY DEF Ready, CodegenInv
<1>3. /\ Len(R) = L - 1 /\ (\A i \in 1 .. L - 1 : R[i] = work[i])
      /\ L \in Nat /\ L >= 1 /\ Call \in Frame /\ Call = work[L] /\ L \in 1 .. L /\ StackOK(R, bb)
  BY <1>1, <1>2, ReturnedFacts DEF Call
<1>4. FrameOK(Call, bb) /\ CallOK(work, L) /\ CallsOK(R)
  BY <1>1, <1>2, <1>3, CallsReturned DEF StackOK, SimOK, CallsOK
<1>5. Call.at \in Paths /\ Call.n \in Nat \ {0} /\ Len(Call.at) % 2 = 0
  <2>1. Call.at \in Paths /\ Call.n \in Nat
    BY <1>3 DEF Frame
  <2>2. Call.n >= 1 /\ Len(Call.at) % 2 = 0
    BY <1>1, <1>4, Zenon DEF FrameOK
  <2>3. Call.n \in Nat \ {0}
    BY <2>1, <2>2
  <2> QED
    BY <2>1, <2>2, <2>3
<1>6. Stmt = Call.at \o <<Call.n>>
  BY DEF Stmt
<1>7. /\ IF L = 1 THEN Call.at = <<>> ELSE under.do # "body" /\ Body(Call.at) = under.at
      /\ Call.n = 1 \/ Call.at \o <<Call.n - 1>> \in DOMAIN ast
  <2> HIDE DEF L
  <2> QED
    BY <1>1, <1>3, <1>4, Zenon DEF CallOK
<1>8. L # 1 => /\ R # <<>> /\ Len(R) = L - 1 /\ R[L - 1] = under /\ L - 1 \in 1 .. L /\ under \in Frame
               /\ Under(under, Call) /\ CallOK(work, L - 1)
  <2> SUFFICES ASSUME L # 1
               PROVE  /\ R # <<>> /\ Len(R) = L - 1 /\ R[L - 1] = under /\ L - 1 \in 1 .. L /\ under \in Frame
                      /\ Under(under, Call) /\ CallOK(work, L - 1)
    OBVIOUS
  <2>1. L \in 2 .. L /\ L - 1 \in 1 .. L /\ L - 1 \in 1 .. L - 1 /\ L - 1 # 0
    BY <1>3
  <2>2. R # <<>> /\ R[L - 1] = under
    BY <1>3, <2>1
  <2>3. under \in Frame /\ Under(under, Call)
    BY <1>1, <1>2, <1>3, <2>1 DEF StackOK
  <2>4. CallOK(work, L - 1)
    BY <2>1 DEF SimOK, CallsOK
  <2> QED
    BY <1>3, <2>1, <2>2, <2>3, <2>4
<1>9. L = 1 => R = <<>>
  BY <1>3, EmptySeq DEF StackOK
<1>10. HereOK(lab, R, blocks, cur)
  <2> SUFFICES ASSUME Open(blocks[cur]) PROVE AtEnd(lab[cur], blocks[cur]) = Here(R)
    BY DEF HereOK
  <2>1. AtEnd(lab[cur], blocks[cur]) = Come(Call.at, Call.n)
    BY <1>1, <1>3 DEF SimOK, HereOK, Here
  <2>2. Stmt \notin DOMAIN prog
    <3> SUFFICES ASSUME Stmt \in DOMAIN prog PROVE FALSE
      OBVIOUS
    <3>1. ~Jumped(Call)
      BY <1>1, <1>3 DEF SimOK, ReachOK
    <3>2. Call.at # <<>> => Body(Call.at) \in DOMAIN ast
      <4> SUFFICES ASSUME Call.at # <<>> PROVE Body(Call.at) \in DOMAIN ast
        OBVIOUS
      <4>1. L # 1 /\ under.do # "body" /\ Body(Call.at) = under.at
        BY <1>7
      <4> HIDE DEF under
      <4>2. under.at \in DOMAIN ast
        BY <1>8, <4>1, Zenon DEF CallOK, under
      <4> QED
        BY <4>1, <4>2
    <3>3. Call.n > 1 /\ ast[Call.at \o <<Call.n - 1>>].op \in Jumps
      BY <1>1, <1>5, <1>6, <1>7, <3>2, CutAfterJump DEF Ready
    <3> QED
      BY <1>1, <3>1, <3>3 DEF Jumped, LastStmt
  <2>3. Come(Call.at, Call.n) = Out(Call.at, Finished)
    BY <1>6, <2>2 DEF Come, ComeWith
  <2>4. CASE L = 1
    BY <1>7, <1>9, <2>1, <2>3, <2>4 DEF Out, Here
  <2>5. CASE L # 1
    <3> DEFINE u == under.at
    <3>1. u \in Paths /\ \E b \in Nat : Call.at = u \o <<b>>
      BY <1>8, <2>5 DEF Frame, Under
    <3>2. Out(Call.at, Finished) = IF prog[u].op = "for" THEN Again(u) ELSE Finished[u]
      BY <3>1, OutOf
    <3> HIDE DEF under
    <3>3. u \in DOMAIN ast /\ ast[u].op = IF under.do = "loop" THEN "for" ELSE "if"
      BY <1>7, <1>8, <2>5, Zenon DEF CallOK, under
    <3>4. prog[u] = ast[u]
      BY <3>3 DEF Ready, AstOK
    <3>5. Here(R) = IF under.do = "loop" THEN Again(u) ELSE Finished[u]
      BY <1>7, <1>8, <2>5 DEF Here
    <3> QED
      BY <2>1, <2>3, <3>2, <3>3, <3>4, <3>5
  <2> QED
    BY <2>4, <2>5
<1>11. ReachOK(R, bb, blocks, cur)
  <2>1. Pending(Call, bb) = {}
    BY <1>1 DEF Pending
  <2>2. \A i \in 1 .. L : i = L \/ (i \in 1 .. Len(R) /\ R[i] = work[i])
    BY <1>3
  <2>3. ASSUME NEW b \in DOMAIN blocks, Open(blocks[b]), Targeted(b, blocks)
        PROVE  b = cur \/ \E i \in 1 .. Len(R) : b \in Pending(R[i], bb)
    BY <1>3, <2>1, <2>2, <2>3 DEF SimOK, ReachOK
  <2>4. \A i \in 1 .. Len(R) : WaitOK(R[i], bb, blocks)
    <3>1. \A i \in 1 .. Len(R) : i \in 1 .. L /\ R[i] = work[i]
      BY <1>3
    <3> QED
      BY <3>1 DEF SimOK, ReachOK
  <2>5. ASSUME R # <<>>, Open(blocks[cur])
        PROVE  ~Jumped(under) /\ (Ended(under) => ~Targeted(cur, blocks))
    <3>1. L # 1 /\ under.do # "body"
      BY <1>7, <1>9, <2>5
    <3>2. ~Jumped(under)
      BY <3>1 DEF Jumped
    <3>3. ASSUME Ended(under) PROVE ~Targeted(cur, blocks)
      <4>1. EndsInJump(Call.at)
        BY <1>8, <3>1, <3>3 DEF Under, Ended
      <4>2. Call.n > 1 /\ (ast[LastStmt(Call)].op \in Jumps \/ BothEnd(LastStmt(Call)))
        BY <1>1, <1>5, <1>6, <1>7, <4>1, EndsBody DEF Ready, LastStmt
      <4>3. Ended(Call)
        BY <1>1, <4>2, Zenon DEF Ended
      <4> QED
        BY <1>1, <1>3, <2>5, <4>3 DEF SimOK, ReachOK
    <3> QED
      BY <3>2, <3>3
  <2>6. R # <<>> => R[Len(R)] = under
    BY <1>8, <1>9
  <2> QED
    BY <2>3, <2>4, <2>5, <2>6 DEF ReachOK
<1> QED
  BY <1>1, <1>4, <1>10, <1>11 DEF SimOK

-----------------------------------------------------------------------------
(* Statements with bodies.                                                 *)

\* new is bl with an instruction behind the others of block c, and with three
\* more blocks, of which the first one is not empty perhaps.
Enlarged(bl, c, f, ins, one, new) ==
  /\ DOMAIN new = DOMAIN bl \cup {f, f + 1, f + 2}
  /\ f \notin DOMAIN bl /\ f + 1 \notin DOMAIN bl /\ f + 2 \notin DOMAIN bl
  /\ new[c] = Append(bl[c], ins) /\ \A b \in DOMAIN bl : b # c => new[b] = bl[b]
  /\ new[f] = one /\ new[f + 1] = <<>> /\ new[f + 2] = <<>>

\* The blocks of a statement have been added to those of the others.
Added(first, f, p, next) ==
  /\ DOMAIN next = DOMAIN first \cup {p} /\ next[p] = f
  /\ \A q \in DOMAIN first : q # p => next[q] = first[q]

LEMMA TargetedKnown ==
  ASSUME NEW lab, NEW bl, BlocksSim(lab, bl), 1 \in DOMAIN bl, NEW b, Targeted(b, bl)
  PROVE  b \in DOMAIN bl
BY DEF Targeted, Into, BlocksSim, BlockSim

LEMMA GrownSim ==
  ASSUME NEW bl, BlocksOK(bl), NEW c \in DOMAIN bl, Open(bl[c]), NEW lab, NEW first,
         LabelsOK(lab, first, bl), BlocksSim(lab, bl),
         NEW f \in Nat, NEW ins, NEW one, NEW new, Enlarged(bl, c, f, ins, one, new),
         NEW p, NEW next, Added(first, f, p, next),
         NEW lab2, \A b \in DOMAIN bl : lab2[b] = lab[b], FirstOK(lab2, p, f),
         InsOK(lab2, ins, AtEnd(lab[c], bl[c])), Targets(ins) \subseteq {f, f + 1, f + 2}, ins.ev \in Ends,
         BlockSim(lab2, lab2[f], one, DOMAIN new), prog[p].op = "for" => ~Open(one)
  PROVE  /\ LabelsOK(lab2, next, new) /\ BlocksSim(lab2, new) /\ ~Open(new[c])
         /\ \A b : Targeted(b, new) => Targeted(b, bl) \/ b \in Targets(ins) \/ Into(b, one)
<1>1. IsSeq(bl[c]) /\ BlockSim(lab, lab[c], bl[c], DOMAIN bl)
  BY DEF BlocksOK, BlocksSim
<1>2. DOMAIN bl \subseteq DOMAIN new /\ DOMAIN new \ DOMAIN bl = {f, f + 1, f + 2}
  BY DEF Enlarged
<1>3. /\ new[c] = Append(bl[c], ins) /\ (\A b \in DOMAIN bl : b # c => new[b] = bl[b])
      /\ new[f] = one /\ new[f + 1] = <<>> /\ new[f + 2] = <<>>
  BY DEF Enlarged
<1>4. BlockSim(lab2, lab[c], new[c], DOMAIN new)
  <2> DEFINE s == bl[c]
             e == lab[c]
             D == DOMAIN new
  <2>1. BlockSim(lab2, e, s, D)
    BY <1>1, <1>2, Relabel
  <2>2. Targets(ins) \subseteq D /\ InsOK(lab2, ins, AtEnd(e, s)) /\ IsSeq(s)
    BY <1>1, <1>2
  <2> HIDE DEF s, e, D
  <2>3. BlockSim(lab2, e, Append(s, ins), D)
    BY <2>1, <2>2, SimAppend
  <2> QED
    BY <1>3, <2>3 DEF s, e, D
<1>5. BlocksSim(lab2, new)
  <2>1. \A e : BlockSim(lab2, e, <<>>, DOMAIN new)
    BY DEF BlockSim
  <2>2. \A b \in DOMAIN new \ DOMAIN bl : BlockSim(lab2, lab2[b], new[b], DOMAIN new)
    BY <1>2, <1>3, <2>1
  <2> QED
    BY <1>2, <1>3, <1>4, <2>2, SimChanged
<1>6. ~Open(new[c])
  BY <1>1, <1>3, NotOpen, Zenon
<1>7. \A b : Targeted(b, new) => Targeted(b, bl) \/ b \in Targets(ins) \/ Into(b, one)
  <2> SUFFICES ASSUME NEW b, Targeted(b, new) PROVE Targeted(b, bl) \/ b \in Targets(ins) \/ Into(b, one)
    OBVIOUS
  <2>1. \/ Targeted(b, bl) \/ Into(b, new[c])
        \/ \E d \in DOMAIN new \ DOMAIN bl : Into(b, new[d])
    BY <1>3, TargetedChanged
  <2>2. Into(b, new[c]) => Into(b, bl[c]) \/ b \in Targets(ins)
    BY <1>1, <1>3, IntoAppend, Zenon
  <2>3. \A d \in DOMAIN new \ DOMAIN bl : Into(b, new[d]) => Into(b, one)
    <3>1. ~Into(b, <<>>)
      BY DEF Into
    <3> QED
      BY <1>2, <1>3, <3>1
  <2> QED
    BY <2>1, <2>2, <2>3 DEF Targeted
<1>8. LabelsOK(lab2, next, new)
  <2>1. 1 \in DOMAIN bl /\ lab2[1] = Come(<<>>, 1)
    BY DEF LabelsOK
  <2>2. ASSUME NEW q \in DOMAIN next
        PROVE  /\ {next[q], next[q] + 1, next[q] + 2} \subseteq DOMAIN new
               /\ FirstOK(lab2, q, next[q])
               /\ prog[q].op = "for" => ~Open(new[next[q]])
    <3>1. CASE q = p
      BY <1>2, <1>3, <3>1 DEF Added
    <3>2. CASE q # p
      <4>1. q \in DOMAIN first /\ next[q] = first[q]
        BY <3>2 DEF Added
      <4>2. /\ {first[q], first[q] + 1, first[q] + 2} \subseteq DOMAIN bl
            /\ FirstOK(lab, q, first[q])
            /\ prog[q].op = "for" => ~Open(bl[first[q]])
        BY <4>1 DEF LabelsOK
      <4> DEFINE k == first[q]
      <4>5. k \in DOMAIN bl /\ k + 1 \in DOMAIN bl /\ k + 2 \in DOMAIN bl
        BY <4>2
      <4> HIDE DEF k
      <4>6. lab2[k] = lab[k] /\ lab2[k + 1] = lab[k + 1] /\ lab2[k + 2] = lab[k + 2]
        BY <4>5
      <4>3. FirstOK(lab2, q, k)
        BY <4>2, <4>6 DEF FirstOK, k
      <4>4. prog[q].op = "for" => ~Open(new[k])
        <5>1. CASE k = c
          BY <4>2, <5>1 DEF k
        <5>2. CASE k # c
          <6>1. new[k] = bl[k]
            BY <1>3, <4>5, <5>2
          <6> QED
            BY <4>2, <6>1 DEF k
        <5> QED
          BY <5>1, <5>2
      <4> QED
        BY <1>2, <4>1, <4>2, <4>3, <4>4 DEF k
    <3> QED
      BY <3>1, <3>2
  <2> QED
    BY <1>2, <2>1, <2>2 DEF LabelsOK
<1> QED
  BY <1>5, <1>6, <1>7, <1>8

\* The calls of a statement with bodies, in blocks that have been created for it.
PushedOn(w, op, fr, g) ==
  /\ Len(w) = Len(work) + 2 /\ \A i \in 1 .. Len(work) : w[i] = Advanced[i]
  /\ w[Len(work) + 1] = fr /\ w[Len(work) + 2] = g
  /\ fr.do = IF op = "for" THEN "loop" ELSE "then"
  /\ fr.at = Stmt /\ g.do = "body" /\ g.at = Stmt \o <<1>> /\ g.n = 1

\* The labels lab2 of the blocks of the statement, the first one being one,
\* continue lab, and fit the instruction ins that goes to them.
Entry(lab, lab2, op, f, ins, one, bl, c) ==
  /\ \A b \in DOMAIN blocks : lab2[b] = lab[b]
  /\ FirstOK(lab2, Stmt, f)
  /\ InsOK(lab2, ins, What("cond", Stmt)) /\ Targets(ins) \subseteq {f, f + 1} /\ ins.ev \in Ends
  /\ BlockSim(lab2, lab2[f], one, DOMAIN bl)
  /\ \A b : Into(b, one) => b \in {f + 1, f + 2}
  /\ IF op = "for" THEN ~Open(one) /\ c = f + 1 ELSE one = <<>> /\ c = f

LEMMA SimPushed ==
  ASSUME Ready, NEW lab, SimOK(lab, work, bb, blocks, cur), NEW op \in {"if", "for"}, Generating(op),
         NEW f \in Nat, NEW ins, NEW one, NEW bl, Enlarged(blocks, cur, f, ins, one, bl),
         NEW nb, Added(bb, f, Stmt, nb), NEW w, NEW fr, NEW g, PushedOn(w, op, fr, g),
         NEW lab2, NEW c, Entry(lab, lab2, op, f, ins, one, bl, c)
  PROVE  SimOK(lab2, w, nb, bl, c)
<1>0. /\ \A b \in DOMAIN blocks : lab2[b] = lab[b]
      /\ FirstOK(lab2, Stmt, f)
      /\ InsOK(lab2, ins, What("cond", Stmt)) /\ Targets(ins) \subseteq {f, f + 1} /\ ins.ev \in Ends
      /\ BlockSim(lab2, lab2[f], one, DOMAIN bl)
      /\ \A b : Into(b, one) => b \in {f + 1, f + 2}
      /\ IF op = "for" THEN ~Open(one) ELSE one = <<>>
      /\ c = IF op = "for" THEN f + 1 ELSE f
  BY DEF Entry
<1> USE <1>0
<1> DEFINE L == Len(work)
           A == Advanced
<1>1. /\ cur \in DOMAIN blocks /\ Open(blocks[cur]) /\ work # <<>> /\ Call.do = "body"
      /\ Stmt = Call.at \o <<Call.n>> /\ Stmt \in DOMAIN ast /\ ast[Stmt].op = op
      /\ Stmt \in DOMAIN prog /\ prog[Stmt] = ast[Stmt]
      /\ Call.at \in Paths /\ Call.n \in Nat \ {0} /\ Len(Call.at) % 2 = 0
      /\ StackOK(work, bb) /\ BlankOK(work, bb, blocks, cur)
      /\ AtEnd(lab[cur], blocks[cur]) = Comes(Stmt, Finished)
  BY AtStmt
<1>2. /\ Len(A) = L /\ L \in Nat /\ L >= 1 /\ A[L] = [Call EXCEPT !.n = @ + 1] /\ Call \in Frame
      /\ \A i \in 1 .. L : A[i].do = work[i].do /\ A[i].at = work[i].at
      /\ \A i \in 1 .. L : Len(work[i].at) < Len(Stmt)
      /\ Stmt \in Paths
  BY <1>1, AdvancedFacts, ReturnedFacts
<1>3. /\ Len(w) = L + 2 /\ \A i \in 1 .. L : w[i] = A[i]
      /\ w[L + 1] = fr /\ w[L + 2] = g
      /\ fr.do = (IF op = "for" THEN "loop" ELSE "then")
      /\ fr.at = Stmt /\ g.do = "body" /\ g.at = Stmt \o <<1>> /\ g.n = 1
  BY DEF PushedOn
<1>4. /\ A[L].do = "body" /\ A[L].at = Call.at /\ A[L].n = Call.n + 1 /\ A[L].n > 1
      /\ A[L].n - 1 = Call.n /\ A[L] \in Frame
  <2>1. A[L].do = "body" /\ A[L].at = Call.at /\ A[L].n = Call.n + 1
    BY <1>1, <1>2 DEF Frame
  <2>2. A[L] \in Frame
    BY <1>2 DEF Frame
  <2> QED
    BY <1>1, <2>1, <2>2
<1>5. prog[Stmt].op = op
  BY <1>1
<1>6. AtEnd(lab[cur], blocks[cur]) = What("cond", Stmt)
  BY <1>1, <1>5 DEF Comes
<1>7. CallsOK(A)
  BY <1>1, CallsAdvanced DEF SimOK
<1> HIDE DEF L, A
<1>8. CallsOK(w)
  <2>1. L \in Nat \ {0} /\ Len(w) = L + 2
    BY <1>2, <1>3
  <2>2. /\ A[L] \in Frame /\ A[L].do = "body" /\ A[L].n > 1 /\ Len(A[L].at) % 2 = 0
        /\ \A i \in 1 .. L : w[i] = A[i]
    BY <1>1, <1>3, <1>4
  <2>3. /\ w[L + 1].do \in {"then", "else", "loop"} /\ w[L + 1].at = A[L].at \o <<A[L].n - 1>>
        /\ w[L + 1].at \in DOMAIN ast
        /\ ast[w[L + 1].at].op = IF w[L + 1].do = "loop" THEN "for" ELSE "if"
        /\ w[L + 2].do = "body" /\ w[L + 2].at = w[L + 1].at \o <<1>> /\ w[L + 2].n = 1
    BY <1>1, <1>3, <1>4
  <2>4. Len(A) = L /\ AstOK
    BY <1>2 DEF Ready
  <2> QED
    <3>1. CalledBody(A, w, L, 1)
      BY <2>1, <2>2, <2>3, <2>4 DEF CalledBody
    <3> QED
      BY <1>7, <2>1, <2>4, <3>1, CallsPushed, 1 \in Nat
<1>9. /\ LabelsOK(lab2, nb, bl) /\ BlocksSim(lab2, bl) /\ ~Open(bl[cur])
      /\ \A b : Targeted(b, bl) => Targeted(b, blocks) \/ b \in Targets(ins) \/ Into(b, one)
  <2>1. BlocksOK(blocks) /\ LabelsOK(lab, bb, blocks) /\ BlocksSim(lab, blocks)
    BY DEF Ready, SimOK
  <2>2. InsOK(lab2, ins, AtEnd(lab[cur], blocks[cur])) /\ Targets(ins) \subseteq {f, f + 1, f + 2}
    BY <1>6
  <2>3. prog[Stmt].op = "for" => ~Open(one)
    BY <1>5
  <2> QED
    BY <1>1, <2>1, <2>2, <2>3, GrownSim
<1>10. /\ DOMAIN bl = DOMAIN blocks \cup {f, f + 1, f + 2}
       /\ f \notin DOMAIN blocks /\ f + 1 \notin DOMAIN blocks /\ f + 2 \notin DOMAIN blocks
       /\ (\A b \in DOMAIN blocks : b # cur => bl[b] = blocks[b])
       /\ bl[f] = one /\ bl[f + 1] = <<>> /\ bl[f + 2] = <<>>
  BY DEF Enlarged
<1>11. \A b \in DOMAIN blocks : Targeted(b, bl) => Targeted(b, blocks)
  BY <1>9, <1>10
<1>12. \A b : Targeted(b, blocks) => b \in DOMAIN blocks
  <2>1. BlocksSim(lab, blocks) /\ 1 \in DOMAIN blocks
    BY DEF SimOK, LabelsOK
  <2> QED
    BY <2>1, TargetedKnown
<1>13. w # <<>> /\ w[Len(w)] = g
  BY <1>2, <1>3
<1>14. HereOK(lab2, w, bl, c)
  <2>1. bl[c] = <<>>
    BY <1>10
  <2>2. AtEnd(lab2[c], <<>>) = lab2[c]
    BY DEF AtEnd, Follow
  <2>3. lab2[c] = SourceNext(What("cond", Stmt), TRUE)
    BY <1>5 DEF FirstOK
  <2>4. SourceNext(What("cond", Stmt), TRUE) = Come(Stmt \o <<1>>, 1)
    BY <1>2, <1>5, CondNext
  <2>5. Here(w) = Come(Stmt \o <<1>>, 1)
    BY <1>3, <1>13 DEF Here
  <2> QED
    BY <2>1, <2>2, <2>3, <2>4, <2>5 DEF HereOK
<1>15. nb[Stmt] = f /\ \A q \in DOMAIN bb : q # Stmt => nb[q] = bb[q]
  BY DEF Added
<1>16. Pending(fr, nb) = IF op = "for" THEN {f + 2} ELSE {f + 1, f + 2}
  BY <1>3, <1>15 DEF Pending
<1>17. ASSUME NEW i \in 1 .. L
       PROVE  /\ w[i].do = work[i].do /\ w[i].at = work[i].at
              /\ work[i].do # "body" => nb[work[i].at] = bb[work[i].at]
              /\ Pending(w[i], nb) = Pending(work[i], bb)
              /\ \A b \in Pending(work[i], bb) : b \in DOMAIN blocks
  <2>1. w[i].do = work[i].do /\ w[i].at = work[i].at /\ work[i].at # Stmt
    <3>1. work[i].at # Stmt
      <4>1. Len(work[i].at) < Len(Stmt) /\ Len(Stmt) \in Nat
        BY <1>2 DEF L, Paths
      <4> QED
        BY <4>1
    <3> QED
      BY <1>2, <1>3, <3>1
  <2>2. work[i].do # "body" => work[i].at \in DOMAIN bb
    BY <1>1 DEF StackOK, FrameOK, L
  <2>3. work[i].do # "body" => nb[work[i].at] = bb[work[i].at]
    BY <1>15, <2>1, <2>2
  <2>4. Pending(w[i], nb) = Pending(work[i], bb)
    BY <2>1, <2>3 DEF Pending
  <2>5. \A b \in Pending(work[i], bb) : b \in DOMAIN blocks
    BY <1>1 DEF BlankOK, L
  <2> QED
    BY <2>1, <2>3, <2>4, <2>5
<1>18. ReachOK(w, nb, bl, c)
  <2>1. /\ L + 1 \in 1 .. Len(w) /\ \A i \in 1 .. L : i \in 1 .. Len(w)
        /\ \A i \in 1 .. Len(w) : i \in 1 .. L \/ i = L + 1 \/ i = L + 2
    BY <1>2, <1>3
  <2>2. ASSUME NEW b \in DOMAIN bl, Open(bl[b]), Targeted(b, bl)
        PROVE  b = c \/ \E i \in 1 .. Len(w) : b \in Pending(w[i], nb)
    <3>1. CASE b \in DOMAIN blocks
      <4>1. Targeted(b, blocks) /\ b # cur /\ Open(blocks[b])
        BY <1>9, <1>10, <1>11, <2>2, <3>1
      <4>2. PICK i \in 1 .. L : b \in Pending(work[i], bb)
        BY <3>1, <4>1 DEF SimOK, ReachOK, L
      <4> QED
        BY <1>17, <2>1, <4>2
    <3>2. CASE b \in {f, f + 1, f + 2}
      <4>1. b = c \/ b \in Pending(fr, nb)
        BY <1>10, <1>16, <2>2, <3>2
      <4> QED
        BY <1>3, <2>1, <4>1
    <3> QED
      BY <1>10, <3>1, <3>2
  <2>3. ASSUME NEW i \in 1 .. L PROVE WaitOK(w[i], nb, bl)
    <3>1. WaitOK(work[i], bb, blocks)
      BY DEF SimOK, ReachOK, L
    <3>2. \A b \in Pending(work[i], bb) : Targeted(b, bl) => Targeted(b, blocks)
      BY <1>11, <1>17
    <3>3. w[i].do = work[i].do /\ w[i].at = work[i].at
          /\ (work[i].do \in {"then", "else"} => nb[work[i].at] = bb[work[i].at])
      BY <1>17
    <3> QED
      BY <3>1, <3>2, <3>3, WaitKept
  <2>4. WaitOK(fr, nb, bl)
    <3>1. CASE op = "for"
      BY <1>3, <3>1 DEF WaitOK
    <3>2. CASE op = "if"
      <4>1. ~Into(f + 2, one)
        BY <3>2 DEF Into
      <4>2. ~Targeted(f + 2, bl)
        BY <1>9, <1>10, <1>12, <4>1
      <4> QED
        BY <1>3, <1>15, <3>2, <4>2 DEF WaitOK
    <3> QED
      BY <3>1, <3>2
  <2>5. WaitOK(g, nb, bl)
    BY <1>3 DEF WaitOK
  <2>6. \A i \in 1 .. Len(w) : WaitOK(w[i], nb, bl)
    BY <1>3, <2>1, <2>3, <2>4, <2>5
  <2>7. ~Jumped(g) /\ ~Ended(g)
    BY <1>3 DEF Jumped, Ended
  <2> QED
    BY <1>13, <2>2, <2>6, <2>7 DEF ReachOK
<1> QED
  BY <1>8, <1>9, <1>14, <1>18 DEF SimOK

\* The blocks of a statement are behind the others.
LEMMA GrownIs ==
  ASSUME BlocksOK(blocks), cur \in DOMAIN blocks, Open(blocks[cur]), NEW ins, NEW one,
         NEW f, f = Len(blocks) + 1, NEW bl, bl = Grown(ins, <<one, <<>>, <<>>>>)
  PROVE  Enlarged(blocks, cur, f, ins, one, bl) /\ f \in Nat /\ 1 <= f
<1> DEFINE e == Emit(cur, ins)
           new == <<one, <<>>, <<>>>>
<1>1. /\ IsSeq(e) /\ DOMAIN e = DOMAIN blocks /\ Len(e) = Len(blocks)
      /\ \A b \in DOMAIN blocks : b # cur => e[b] = blocks[b]
  BY EmitFacts DEF BlocksOK
<1>2. e[cur] = Append(blocks[cur], ins)
  BY DEF Emit
<1>3. new \in Seq({one, <<>>}) /\ Len(new) = 3 /\ new[1] = one /\ new[2] = <<>> /\ new[3] = <<>>
  OBVIOUS
<1>4. bl = e \o new
  BY DEF Grown
<1> HIDE DEF e, new
<1>5. IsSeq(new)
  BY <1>3, IsSeqOf
<1>6. /\ IsSeq(bl) /\ Len(bl) = Len(e) + Len(new) /\ \A i \in 1 .. Len(e) : bl[i] = e[i]
      /\ \A i \in 1 .. Len(new) : bl[Len(e) + i] = new[i]
  <2>1. /\ IsSeq(e \o new) /\ Len(e \o new) = Len(e) + Len(new)
        /\ \A i \in 1 .. Len(e) : (e \o new)[i] = e[i]
        /\ \A i \in 1 .. Len(new) : (e \o new)[Len(e) + i] = new[i]
    BY <1>1, <1>5, ConcatFacts
  <2> QED
    BY <1>4, <2>1, Zenon
<1> DEFINE n == Len(blocks)
<1>7. DOMAIN blocks = 1 .. n /\ n \in Nat /\ DOMAIN bl = 1 .. n + 3 /\ f = n + 1
  BY <1>1, <1>3, <1>6, SeqFacts DEF BlocksOK
<1> HIDE DEF n
<1>8. DOMAIN bl = DOMAIN blocks \cup {f, f + 1, f + 2}
  <2>1. \A b : b \in 1 .. n + 3 <=> b \in 1 .. n \/ b = n + 1 \/ b = n + 2 \/ b = n + 3
    BY <1>7
  <2>2. f = n + 1 /\ f + 1 = n + 2 /\ f + 2 = n + 3
    BY <1>7
  <2> QED
    BY <1>7, <2>1, <2>2, Zenon
<1>9. f \notin DOMAIN blocks /\ f + 1 \notin DOMAIN blocks /\ f + 2 \notin DOMAIN blocks /\ f \in Nat /\ 1 <= f
  BY <1>7
<1>10. \A b \in DOMAIN blocks : bl[b] = e[b]
  BY <1>1, <1>6, <1>7 DEF n
<1>11. bl[f] = one /\ bl[f + 1] = <<>> /\ bl[f + 2] = <<>>
  <2>1. bl[n + 1] = new[1] /\ bl[n + 2] = new[2] /\ bl[n + 3] = new[3]
    BY <1>1, <1>3, <1>6, 1 \in 1 .. 3, 2 \in 1 .. 3, 3 \in 1 .. 3 DEF n
  <2>2. f = n + 1 /\ f + 1 = n + 2 /\ f + 2 = n + 3
    BY <1>7
  <2> QED
    BY <1>3, <2>1, <2>2
<1> QED
  BY <1>1, <1>2, <1>8, <1>9, <1>10, <1>11 DEF Enlarged

\* Three labels more.
Labels(lab, D, f, x, y, z) ==
  \E lab2 : /\ \A b \in D : lab2[b] = lab[b]
            /\ lab2[f] = x /\ lab2[f + 1] = y /\ lab2[f + 2] = z

LEMMA NewLabels ==
  ASSUME NEW lab, NEW D, NEW f \in Nat, f \notin D, f + 1 \notin D, f + 2 \notin D, NEW x, NEW y, NEW z
  PROVE  Labels(lab, D, f, x, y, z)
<1> DEFINE lab2 == [b \in D \cup {f, f + 1, f + 2} |->
                      IF b \in D THEN lab[b] ELSE IF b = f THEN x ELSE IF b = f + 1 THEN y ELSE z]
<1>1. \A b \in D : lab2[b] = lab[b]
  OBVIOUS
<1>2. f # f + 1 /\ f # f + 2 /\ f + 1 # f + 2
  OBVIOUS
<1>3. lab2[f] = x /\ lab2[f + 1] = y /\ lab2[f + 2] = z
  BY <1>2, Zenon
<1> HIDE DEF lab2
<1> QED
  BY <1>1, <1>3 DEF Labels

LEMMA SimGenIf ==
  ASSUME Ready, NEW lab, SimOK(lab, work, bb, blocks, cur), GenIf
  PROVE  \E lab2 : SimOK(lab2, work', bb', blocks', cur')
<1> DEFINE f == Len(blocks) + 1
           ins == Ins("cond", Stmt, <<f, f + 1>>)
           fr == [do |-> "then", at |-> Stmt, n |-> 0]
           g == [do |-> "body", at |-> Stmt \o <<1>>, n |-> 1]
           c == What("cond", Stmt)
<1>1. Generating("if") /\ cur' = f
      /\ bb' = [p \in DOMAIN bb \cup {Stmt} |-> IF p = Stmt THEN f ELSE bb[p]]
      /\ work' = Advanced \o <<fr, g>> /\ blocks' = Grown(ins, << <<>>, <<>>, <<>> >>)
  BY DEF GenIf, Grown
<1>2. /\ cur \in DOMAIN blocks /\ Open(blocks[cur]) /\ work # <<>> /\ Call.do = "body"
      /\ StackOK(work, bb) /\ prog[Stmt].op = "if" /\ BlocksOK(blocks)
  BY <1>1, AtStmt DEF Ready
<1>3. Stmt \in Paths
  BY <1>2, AdvancedFacts
<1>4. Enlarged(blocks, cur, f, ins, <<>>, blocks') /\ f \in Nat
  <2> HIDE DEF ins
  <2> QED
    BY <1>1, <1>2, GrownIs
<1>5. Added(bb, f, Stmt, bb')
  BY <1>1 DEF Added
<1>6. PushedOn(work', "if", fr, g)
  <2>1. /\ fr \in Frame /\ fr.do = "then" /\ fr.at = Stmt
        /\ g \in Frame /\ g.do = "body" /\ g.at = Stmt \o <<1>> /\ g.n = 1
    BY <1>3, StmtFrames
  <2> HIDE DEF fr, g
  <2>2. /\ Len(work') = Len(work) + 2 /\ \A i \in 1 .. Len(work) : work'[i] = Advanced[i]
        /\ work'[Len(work) + 1] = fr /\ work'[Len(work) + 2] = g
    BY <1>1, <1>2, <2>1, PushedWork
  <2> QED
    BY <2>1, <2>2 DEF PushedOn
<1>7. ins.ev = "cond" /\ ins.at = Stmt /\ ins.to[1] = f /\ ins.to[2] = f + 1
  BY DEF Ins
<1> HIDE DEF ins, fr, g, f
<1>8. PICK lab2 : /\ \A b \in DOMAIN blocks : lab2[b] = lab[b]
                  /\ lab2[f] = SourceNext(c, TRUE) /\ lab2[f + 1] = SourceNext(c, FALSE)
                  /\ lab2[f + 2] = Finished[Stmt]
  <2> DEFINE D == DOMAIN blocks
             x == SourceNext(c, TRUE)
             y == SourceNext(c, FALSE)
             z == Finished[Stmt]
  <2>1. f \notin D /\ f + 1 \notin D /\ f + 2 \notin D /\ f \in Nat
    BY <1>4 DEF Enlarged
  <2> HIDE DEF D, x, y, z
  <2>2. Labels(lab, D, f, x, y, z)
    BY <2>1, NewLabels
  <2> QED
    BY <2>2 DEF Labels, D, x, y, z
<1>9. FirstOK(lab2, Stmt, f)
  BY <1>2, <1>8 DEF FirstOK
<1> HIDE DEF c
<1>10. InsOK(lab2, ins, c) /\ Targets(ins) = {f, f + 1} /\ ins.ev \in Ends
  BY <1>7, <1>8 DEF InsOK, Targets, Ends, c
<1>11. BlockSim(lab2, lab2[f], <<>>, DOMAIN blocks') /\ \A b : ~Into(b, <<>>)
  BY DEF BlockSim, Into
<1>12. SimOK(lab2, work', bb', blocks', f)
  <2>1. InsOK(lab2, ins, What("cond", Stmt)) /\ Targets(ins) \subseteq {f, f + 1}
    BY <1>10 DEF c
  <2>2. Entry(lab, lab2, "if", f, ins, <<>>, blocks', f)
    BY <1>8, <1>9, <1>10, <1>11, <2>1 DEF Entry
  <2> QED
    BY <1>1, <1>4, <1>5, <1>6, <2>2, SimPushed
<1> QED
  BY <1>1, <1>12

LEMMA SimGenFor ==
  ASSUME Ready, NEW lab, SimOK(lab, work, bb, blocks, cur), GenFor
  PROVE  \E lab2 : SimOK(lab2, work', bb', blocks', cur')
<1> DEFINE f == Len(blocks) + 1
           ins == Br(f)
           test == Ins("cond", Stmt, <<f + 1, f + 2>>)
           one == <<test>>
           fr == [do |-> "loop", at |-> Stmt, n |-> 0]
           g == [do |-> "body", at |-> Stmt \o <<1>>, n |-> 1]
           c == What("cond", Stmt)
<1>1. Generating("for") /\ cur' = f + 1
      /\ bb' = [p \in DOMAIN bb \cup {Stmt} |-> IF p = Stmt THEN f ELSE bb[p]]
      /\ work' = Advanced \o <<fr, g>> /\ blocks' = Grown(ins, <<one, <<>>, <<>>>>)
  BY DEF GenFor, Grown
<1>2. /\ cur \in DOMAIN blocks /\ Open(blocks[cur]) /\ work # <<>> /\ Call.do = "body"
      /\ StackOK(work, bb) /\ prog[Stmt].op = "for" /\ BlocksOK(blocks)
  BY <1>1, AtStmt DEF Ready
<1>3. Stmt \in Paths
  BY <1>2, AdvancedFacts
<1>4. Enlarged(blocks, cur, f, ins, one, blocks') /\ f \in Nat
  <2> HIDE DEF ins, one
  <2> QED
    BY <1>1, <1>2, GrownIs
<1>5. Added(bb, f, Stmt, bb')
  BY <1>1 DEF Added
<1>6. PushedOn(work', "for", fr, g)
  <2>1. /\ fr \in Frame /\ fr.do = "loop" /\ fr.at = Stmt
        /\ g \in Frame /\ g.do = "body" /\ g.at = Stmt \o <<1>> /\ g.n = 1
    BY <1>3, StmtFrames
  <2> HIDE DEF fr, g
  <2>2. /\ Len(work') = Len(work) + 2 /\ \A i \in 1 .. Len(work) : work'[i] = Advanced[i]
        /\ work'[Len(work) + 1] = fr /\ work'[Len(work) + 2] = g
    BY <1>1, <1>2, <2>1, PushedWork
  <2> QED
    BY <2>1, <2>2 DEF PushedOn
<1>7. /\ ins.ev = "br" /\ ins.to[1] = f
      /\ test.ev = "cond" /\ test.at = Stmt /\ test.to[1] = f + 1 /\ test.to[2] = f + 2
  BY DEF Br, Ins
<1> HIDE DEF ins, fr, g, f, test
<1>8. DOMAIN one = {1} /\ one[1] = test
  OBVIOUS
<1> HIDE DEF one
<1>9. PICK lab2 : /\ \A b \in DOMAIN blocks : lab2[b] = lab[b]
                  /\ lab2[f] = c /\ lab2[f + 1] = SourceNext(c, TRUE)
                  /\ lab2[f + 2] = Finished[Stmt]
  <2> DEFINE D == DOMAIN blocks
             x == c
             y == SourceNext(c, TRUE)
             z == Finished[Stmt]
  <2>1. f \notin D /\ f + 1 \notin D /\ f + 2 \notin D /\ f \in Nat
    BY <1>4 DEF Enlarged
  <2> HIDE DEF D, x, y, z
  <2>2. Labels(lab, D, f, x, y, z)
    BY <2>1, NewLabels
  <2> QED
    BY <2>2 DEF Labels, D, x, y, z
<1>10. FirstOK(lab2, Stmt, f)
  BY <1>2, <1>9 DEF FirstOK
<1>11. SourceNext(c, FALSE) = Finished[Stmt]
  BY <1>2, <1>3, CondNext
<1>12. InsOK(lab2, test, c) /\ Targets(test) = {f + 1, f + 2} /\ test.ev \in Ends
  BY <1>7, <1>9, <1>11 DEF InsOK, Targets, Ends
<1> HIDE DEF c
<1>13. InsOK(lab2, ins, c) /\ Targets(ins) = {f} /\ ins.ev \in Ends
  BY <1>7, <1>9 DEF InsOK, Targets, Ends
<1>14. BlockSim(lab2, lab2[f], one, DOMAIN blocks')
  <2>1. {f + 1, f + 2} \subseteq DOMAIN blocks'
    BY <1>4 DEF Enlarged
  <2> QED
    BY <1>8, <1>9, <1>12, <2>1 DEF BlockSim, Follow
<1>15. ~Open(one) /\ \A b : Into(b, one) => b \in {f + 1, f + 2}
  BY <1>8, <1>12 DEF Open, Into
<1>16. SimOK(lab2, work', bb', blocks', f + 1)
  <2>1. InsOK(lab2, ins, What("cond", Stmt)) /\ Targets(ins) \subseteq {f, f + 1}
    BY <1>13 DEF c
  <2>2. Entry(lab, lab2, "for", f, ins, one, blocks', f + 1)
    BY <1>9, <1>10, <1>13, <1>14, <1>15, <2>1 DEF Entry
  <2> QED
    BY <1>1, <1>4, <1>5, <1>6, <2>2, SimPushed
<1> QED
  BY <1>1, <1>16

-----------------------------------------------------------------------------
(* From pass to pass.                                                      *)

\* What the source program does is the same while the program is.
LEMMA FrozenSource ==
  ASSUME prog' = prog
  PROVE  /\ Finished' = Finished
         /\ \A p : Loops(p)' = Loops(p) /\ Again(p)' = Again(p)
         /\ \A s, outcome : SourceNext(s, outcome)' = SourceNext(s, outcome)
         /\ \A q, n : Come(q, n)' = Come(q, n)
<1>1. \A p : Loops(p)' = Loops(p)
  BY DEF Loops
<1>2. \A p : Again(p)' = Again(p) /\ Innermost(p)' = Innermost(p)
  BY <1>1 DEF Again, Innermost
<1>3. \A p, f : Comes(p, f)' = Comes(p, f)
  BY <1>1, <1>2 DEF Comes
<1>4. Finished' = Finished
  BY <1>2, <1>3 DEF Finished
<1>5. \A q, e : Entered(q, e)' = Entered(q, e)
  BY <1>3, <1>4 DEF Entered
<1>6. \A s, outcome : SourceNext(s, outcome)' = SourceNext(s, outcome)
  BY <1>2, <1>4, <1>5 DEF SourceNext
<1>7. \A q, n : Come(q, n)' = Come(q, n)
  BY <1>2, <1>3, <1>4 DEF Come, ComeWith, Out
<1> QED
  BY <1>1, <1>2, <1>4, <1>6, <1>7

LEMMA FrozenBlocks ==
  ASSUME prog' = prog
  PROVE  /\ \A lab, ins, e : InsOK(lab, ins, e)' = InsOK(lab, ins, e)
         /\ \A e, s, i : Follow(e, s, i)' = Follow(e, s, i)
         /\ \A lab, e, s, D : BlockSim(lab, e, s, D)' = BlockSim(lab, e, s, D)
         /\ \A lab, bl : BlocksSim(lab, bl)' = BlocksSim(lab, bl)
         /\ \A lab, first, bl : LabelsOK(lab, first, bl)' = LabelsOK(lab, first, bl)
<1>1. /\ Finished' = Finished
      /\ \A s, outcome : SourceNext(s, outcome)' = SourceNext(s, outcome)
      /\ \A q, n : Come(q, n)' = Come(q, n)
  BY FrozenSource
<1>2. \A lab, ins, e : InsOK(lab, ins, e)' = InsOK(lab, ins, e)
  BY <1>1 DEF InsOK
<1>3. \A e, s, i : Follow(e, s, i)' = Follow(e, s, i)
  BY <1>1 DEF Follow
<1>4. \A lab, e, s, D : BlockSim(lab, e, s, D)' = BlockSim(lab, e, s, D)
  BY <1>2, <1>3, SMTT(30) DEF BlockSim
<1>5. \A lab, bl : BlocksSim(lab, bl)' = BlocksSim(lab, bl)
  BY <1>4 DEF BlocksSim
<1>6. \A lab, p, f : FirstOK(lab, p, f)' = FirstOK(lab, p, f)
  <2> TAKE lab, p, f
  <2> DEFINE c == What("cond", p)
  <2>1. Finished'[p] = Finished[p] /\ SourceNext(c, TRUE)' = SourceNext(c, TRUE)
        /\ SourceNext(c, FALSE)' = SourceNext(c, FALSE) /\ c' = c
    BY <1>1
  <2> QED
    BY <2>1, Zenon DEF FirstOK
<1>7. \A lab, first, bl : LabelsOK(lab, first, bl)' = LabelsOK(lab, first, bl)
  BY <1>1, <1>6 DEF LabelsOK
<1> QED
  BY <1>2, <1>3, <1>4, <1>5, <1>7

LEMMA FrozenCalls ==
  ASSUME prog' = prog, ast' = ast
  PROVE  /\ \A lab, w, bl, c : HereOK(lab, w, bl, c)' = HereOK(lab, w, bl, c)
         /\ \A w : CallsOK(w)' = CallsOK(w)
         /\ \A w, first, bl, c : ReachOK(w, first, bl, c)' = ReachOK(w, first, bl, c)
<1>1. /\ Finished' = Finished
      /\ \A p : Loops(p)' = Loops(p) /\ Again(p)' = Again(p)
      /\ \A q, n : Come(q, n)' = Come(q, n)
  BY FrozenSource
<1>2. \A w : Here(w)' = Here(w)
  BY <1>1 DEF Here
<1>3. \A e, s, i : Follow(e, s, i)' = Follow(e, s, i)
  BY FrozenBlocks
<1>4. \A lab, w, bl, c : HereOK(lab, w, bl, c)' = HereOK(lab, w, bl, c)
  BY <1>2, <1>3 DEF HereOK, AtEnd
<1>5. \A w, i : CallOK(w, i)' = CallOK(w, i)
  BY <1>1 DEF CallOK
<1>6. \A w : CallsOK(w)' = CallsOK(w)
  BY <1>5 DEF CallsOK
<1>7. \A q : EndsInJump(q)' = EndsInJump(q)
  BY DEF EndsInJump, LastStmtBr
<1>8. \A fr : Jumped(fr)' = Jumped(fr) /\ Ended(fr)' = Ended(fr)
  BY <1>7 DEF Jumped, Ended, BothEnd, LastStmt
<1>9. \A fr, first, bl : WaitOK(fr, first, bl)' = WaitOK(fr, first, bl)
  BY <1>7 DEF WaitOK
<1>10. \A w, first, bl, c : ReachOK(w, first, bl, c)' = ReachOK(w, first, bl, c)
  BY <1>8, <1>9 DEF ReachOK
<1> QED
  BY <1>4, <1>6, <1>10

\* What has been shown of the calls in progress is about the same statements
\* after the step.
LEMMA FrozenSim ==
  ASSUME prog' = prog, ast' = ast, NEW lab, SimOK(lab, work', bb', blocks', cur')
  PROVE  SimOK(lab, work, bb, blocks, cur)'
<1>1. LabelsOK(lab, bb, blocks)' /\ BlocksSim(lab, blocks)'
  BY FrozenBlocks DEF SimOK
<1>2. HereOK(lab, work, blocks, cur)' /\ CallsOK(work)' /\ ReachOK(work, bb, blocks, cur)'
  BY FrozenCalls DEF SimOK
<1> QED
  BY <1>1, <1>2 DEF SimOK

-----------------------------------------------------------------------------
(* The compiled function.                                                  *)

\* The labels fit, and where the code stops the program has come to its end.
Compiled(lab, first, bl) ==
  /\ LabelsOK(lab, first, bl) /\ BlocksSim(lab, bl)
  /\ \A b \in DOMAIN bl : Open(bl[b]) /\ Targeted(b, bl) => AtEnd(lab[b], bl[b]) = End

\* In front of instruction i of block b the program does s next.
Position(lab, bl, b, i, s) ==
  /\ b \in DOMAIN bl /\ Targeted(b, bl) /\ i \in 1 .. Len(bl[b]) + 1
  /\ s = Follow(lab[b], bl[b], i)
  /\ i > 1 => bl[b][i - 1].ev \notin Ends

LEMMA PositionInside ==
  ASSUME BlocksOK(blocks), NEW lab, Compiled(lab, bb, blocks), Position(lab, blocks, at[1], at[2], src)
  PROVE  LET s == blocks[at[1]]
             i == at[2]
         IN  /\ IsSeq(s) /\ Len(s) \in Nat /\ DOMAIN s = 1 .. Len(s) /\ i \in Nat
             /\ i \in DOMAIN s => /\ Running = s[i] /\ InsOK(lab, s[i], src)
                                  /\ Targets(s[i]) \subseteq DOMAIN blocks
                                  /\ \A b \in Targets(s[i]) : Targeted(b, blocks)
             /\ i \notin DOMAIN s => /\ Running = Ins("end", <<>>, <<>>) /\ src = End
<1> DEFINE s == blocks[at[1]]
           i == at[2]
           e == lab[at[1]]
<1>1. /\ at[1] \in DOMAIN blocks /\ Targeted(at[1], blocks) /\ i \in 1 .. Len(s) + 1
      /\ src = Follow(e, s, i) /\ (i > 1 => s[i - 1].ev \notin Ends)
  BY DEF Position
<1>2. IsSeq(s) /\ WellEnded(s) /\ Len(s) \in Nat /\ DOMAIN s = 1 .. Len(s)
  BY <1>1, SeqFacts DEF BlocksOK
<1>3. BlockSim(lab, e, s, DOMAIN blocks)
  BY <1>1 DEF Compiled, BlocksSim
<1>4. Running = IF i \in DOMAIN s THEN s[i] ELSE Ins("end", <<>>, <<>>)
  BY DEF Running
<1>5. Open(s) => AtEnd(e, s) = End
  BY <1>1 DEF Compiled
<1>6. i \in DOMAIN s => \A b \in Targets(s[i]) : Targeted(b, blocks)
  BY <1>1 DEF Targeted, Into
<1> HIDE DEF s, i, e
<1>7. ASSUME i \in DOMAIN s
      PROVE  InsOK(lab, s[i], src) /\ Targets(s[i]) \subseteq DOMAIN blocks
  BY <1>1, <1>3, <1>7 DEF BlockSim
<1>8. ASSUME i \notin DOMAIN s PROVE src = End
  <2>1. i = Len(s) + 1
    BY <1>1, <1>2, <1>8
  <2>2. Open(s)
    <3> SUFFICES ASSUME NEW j \in DOMAIN s, s[j].ev \in Ends PROVE FALSE
      BY DEF Open
    <3>1. j = Len(s)
      BY <1>2 DEF WellEnded
    <3>2. i > 1 /\ i - 1 = j
      BY <1>2, <2>1, <3>1
    <3> QED
      BY <1>1, <3>2
  <2> QED
    BY <1>1, <1>5, <2>1, <2>2 DEF AtEnd
<1>9. i \in Nat
  BY <1>1, <1>2
<1> QED
  BY <1>2, <1>4, <1>6, <1>7, <1>8, <1>9 DEF s, i

LEMMA RunSimulates ==
  ASSUME BlocksOK(blocks), NEW lab, Compiled(lab, bb, blocks), Position(lab, blocks, at[1], at[2], src)
  PROVE  Simulates
<1> DEFINE s == blocks[at[1]]
           i == at[2]
<1>1. /\ i \in DOMAIN s => /\ Running = s[i] /\ InsOK(lab, s[i], src)
      /\ i \notin DOMAIN s => /\ Running = Ins("end", <<>>, <<>>) /\ src = End
  BY PositionInside
<1> HIDE DEF s, i
<1>2. CASE i \in DOMAIN s
  <2>1. Running.ev # "br" => src = What(Running.ev, Running.at)
    BY <1>1, <1>2 DEF InsOK
  <2> QED
    BY <2>1 DEF Simulates, What
<1>3. CASE i \notin DOMAIN s
  BY <1>1, <1>3 DEF Simulates, Ins, End, What
<1> QED
  BY <1>2, <1>3

\* A block is run from its beginning.
LEMMA AtBeginning ==
  ASSUME BlocksOK(blocks), NEW b \in DOMAIN blocks, Targeted(b, blocks), NEW lab
  PROVE  Position(lab, blocks, b, 1, lab[b])
<1>1. Len(blocks[b]) \in Nat
  BY SeqFacts DEF BlocksOK
<1>2. 1 \in 1 .. Len(blocks[b]) + 1 /\ ~ (1 > 1)
  BY <1>1
<1>3. Follow(lab[b], blocks[b], 1) = lab[b]
  BY DEF Follow
<1> QED
  BY <1>2, <1>3 DEF Position

LEMMA RunStep ==
  ASSUME BlocksOK(blocks), NEW lab, Compiled(lab, bb, blocks), Position(lab, blocks, at[1], at[2], src),
         TakeBr \/ Execute
  PROVE  Position(lab, blocks, at'[1], at'[2], src')
<1> DEFINE s == blocks[at[1]]
           i == at[2]
<1>1. /\ IsSeq(s) /\ Len(s) \in Nat /\ DOMAIN s = 1 .. Len(s) /\ i \in Nat
      /\ i \in DOMAIN s => /\ Running = s[i] /\ InsOK(lab, s[i], src)
                           /\ Targets(s[i]) \subseteq DOMAIN blocks
                           /\ \A b \in Targets(s[i]) : Targeted(b, blocks)
      /\ i \notin DOMAIN s => /\ Running = Ins("end", <<>>, <<>>) /\ src = End
  BY PositionInside
<1>2. i \in DOMAIN s
  <2>1. Running.ev \in {"br", "act", "inc", "cond"}
    BY DEF TakeBr, Execute
  <2> HIDE DEF s, i
  <2> QED
    BY <1>1, <2>1 DEF Ins
<1> DEFINE ins == s[i]
<1>3. Running = ins /\ InsOK(lab, ins, src)
  BY <1>1, <1>2
<1>4. \A b \in Targets(ins) : Position(lab, blocks, b, 1, lab[b])
  BY <1>1, <1>2, AtBeginning
<1>5. CASE TakeBr
  <2>1. ins.ev = "br" /\ at'[1] = ins.to[1] /\ at'[2] = 1 /\ src' = src
    BY <1>3, <1>5 DEF TakeBr
  <2> HIDE DEF ins
  <2>2. lab[ins.to[1]] = src /\ ins.to[1] \in Targets(ins)
    BY <1>3, <2>1 DEF InsOK, Targets
  <2> QED
    BY <1>4, <2>1, <2>2
<1>6. CASE Execute
  <2>1. PICK outcome \in BOOLEAN :
          /\ at' = IF Running.ev # "cond" THEN <<at[1], at[2] + 1>>
                   ELSE <<IF outcome THEN Running.to[1] ELSE Running.to[2], 1>>
          /\ src' = SourceNext(src, outcome)
    BY <1>6 DEF Execute
  <2>2. Running.ev \in {"act", "inc", "cond"}
    BY <1>6 DEF Execute
  <2>3. CASE Running.ev = "cond"
    <3> DEFINE to == IF outcome THEN ins.to[1] ELSE ins.to[2]
    <3>1. at'[1] = to /\ at'[2] = 1
      BY <1>3, <2>1, <2>3
    <3> HIDE DEF ins
    <3>2. /\ src' = SourceNext(src, outcome)
          /\ lab[ins.to[1]] = SourceNext(src, TRUE) /\ lab[ins.to[2]] = SourceNext(src, FALSE)
      BY <1>3, <2>1, <2>3 DEF InsOK
    <3>3. lab[to] = src'
      BY <3>2
    <3>4. to \in Targets(ins)
      BY <1>3, <2>3 DEF Targets
    <3> QED
      BY <1>4, <3>1, <3>3, <3>4
  <2>4. CASE Running.ev # "cond"
    <3>1. at'[1] = at[1] /\ at'[2] = i + 1
      BY <2>1, <2>4
    <3>2. src = What(ins.ev, ins.at) /\ ins.ev \in {"act", "inc"}
      BY <1>3, <2>2, <2>4 DEF InsOK
    <3>3. src' = SourceNext(What(ins.ev, ins.at), FALSE)
      BY <2>1, <3>2, StepNext
    <3>4. i + 1 \in 1 .. Len(s) + 1 /\ i + 1 # 1 /\ i + 1 - 1 = i
      BY <1>1, <1>2
    <3>5. Follow(lab[at[1]], s, i + 1) = src'
      <4> DEFINE j == i + 1
      <4>3. j # 1 /\ j - 1 = i
        BY <1>1, <1>2
      <4> HIDE DEF j, i, s
      <4>1. j # 1 /\ s[j - 1] = ins
        BY <4>3
      <4> HIDE DEF ins
      <4>2. Follow(lab[at[1]], s, j) = SourceNext(What(ins.ev, ins.at), FALSE)
        BY <4>1, Zenon DEF Follow
      <4> QED
        BY <3>3, <4>2 DEF j
    <3>6. ins.ev \notin Ends
      BY <3>2 DEF Ends
    <3>7. at[1] \in DOMAIN blocks /\ Targeted(at[1], blocks)
      BY DEF Position
    <3> QED
      BY <3>1, <3>4, <3>5, <3>6, <3>7 DEF Position
  <2> QED
    BY <2>3, <2>4
<1> QED
  BY <1>5, <1>6

-----------------------------------------------------------------------------
(* The steps.                                                              *)

\* No continue that can be come to stands in a for loop that increments.
ContinuesWhile ==
  \A p \in DOMAIN prog :
    prog[p].op = "continue" /\ ~After(p, Jumps) /\ Loops(p) # {} => ~prog[Innermost(p)].inc

Generated == \E lab : SimOK(lab, work, bb, blocks, cur)
Following == \E lab : Compiled(lab, bb, blocks) /\ Position(lab, blocks, at[1], at[2], src)

SInv ==
  /\ WellFormed(prog) /\ ContinuesWhile
  /\ pc \in {"connect", "eliminate"} => bb = <<>>
  /\ pc \in {"eliminate", "codegen"} => LinkLoops
  /\ pc = "codegen" => AstOK /\ Generated
  /\ pc = "run" => Following

LEMMA FrozenProgram ==
  ASSUME prog' = prog
  PROVE  /\ WellFormed(prog)' = WellFormed(prog) /\ ContinuesWhile' = ContinuesWhile
         /\ \A p, ops : After(p, ops)' = After(p, ops)
<1>1. \A p, ops : After(p, ops)' = After(p, ops)
  BY DEF After
<1>2. \A p : Loops(p)' = Loops(p) /\ Innermost(p)' = Innermost(p)
  BY DEF Loops, Innermost
<1>3. ContinuesWhile' = ContinuesWhile
  BY <1>1, <1>2 DEF ContinuesWhile
<1>4. WellFormed(prog)' = WellFormed(prog)
  BY DEF WellFormed
<1> QED
  BY <1>1, <1>3, <1>4

LEMMA FrozenPasses ==
  ASSUME UNCHANGED passes
  PROVE  LinkLoops' = LinkLoops /\ AstOK' = AstOK
<1>1. prog' = prog /\ ast' = ast /\ link' = link
  BY DEF passes
<1>2. \A p : Loops(p)' = Loops(p)
  BY <1>1 DEF Loops
<1>3. \A p, ops : After(p, ops)' = After(p, ops)
  BY <1>1, FrozenProgram
<1> QED
  BY <1>1, <1>2, <1>3 DEF LinkLoops, AstOK

LEMMA FrozenRun ==
  ASSUME prog' = prog, bb' = bb, blocks' = blocks,
         NEW lab, Compiled(lab, bb, blocks), Position(lab, blocks, at'[1], at'[2], src')
  PROVE  Following'
<1>1. /\ \A e, s, i : Follow(e, s, i)' = Follow(e, s, i)
      /\ \A l, bl : BlocksSim(l, bl)' = BlocksSim(l, bl)
      /\ \A l, first, bl : LabelsOK(l, first, bl)' = LabelsOK(l, first, bl)
  BY FrozenBlocks
<1>2. \A l, first, bl : Compiled(l, first, bl)' = Compiled(l, first, bl)
  BY <1>1 DEF Compiled, AtEnd
<1>3. \A l, bl, b, i, s : Position(l, bl, b, i, s)' = Position(l, bl, b, i, s)
  BY <1>1 DEF Position
<1>4. Compiled(lab, bb, blocks)'
  BY <1>2
<1>5. Position(lab, blocks, at[1], at[2], src)'
  BY <1>3
<1> QED
  BY <1>4, <1>5 DEF Following

LEMMA LoopsLinked ==
  ASSUME ConnectLoops, pc' = "eliminate"
  PROVE  LinkLoops'
<1> DEFINE visited == {p \in DOMAIN ast : ast[p].op \in {"break", "continue"}
                                            /\ ~After(p, {"break", "continue"})}
<1>1. /\ prog' = prog /\ (\A p \in visited : Loops(p) # {})
      /\ link' = [p \in visited |-> Innermost(p)]
  BY DEF ConnectLoops
<1>2. \A p : Loops(p)' = Loops(p)
  BY <1>1 DEF Loops
<1> QED
  BY <1>1, <1>2 DEF LinkLoops

\* Compiling begins with an empty block.
TheBody == [do |-> "body", at |-> <<>>, n |-> 1]
Begun == \E lab : SimOK(lab, <<TheBody>>, <<>>, << <<>> >>, 1)

LEMMA SimBegins == Begun
<1> DEFINE fr == TheBody
           w == <<fr>>
           bl == << <<>> >>
           e == Come(<<>>, 1)
           lab == [b \in {1} |-> e]
<1>1. DOMAIN bl = {1} /\ bl[1] = <<>> /\ Len(w) = 1 /\ w[1] = fr /\ w # <<>> /\ lab[1] = e
  OBVIOUS
<1>2. DOMAIN <<>> = {}
  OBVIOUS
<1>10. fr.do = "body" /\ fr.at = <<>> /\ fr.n = 1
  BY DEF TheBody
<1> HIDE DEF w, bl, e, lab, fr
<1>3. LabelsOK(lab, <<>>, bl)
  BY <1>1, <1>2 DEF LabelsOK, e
<1>4. BlocksSim(lab, bl)
  BY <1>1, <1>2 DEF BlocksSim, BlockSim
<1>5. AtEnd(lab[1], bl[1]) = e
  <2>1. Len(<<>>) + 1 = 1
    OBVIOUS
  <2> QED
    BY <1>1, <2>1 DEF AtEnd, Follow
<1>6. HereOK(lab, w, bl, 1)
  BY <1>1, <1>5, <1>10 DEF HereOK, Here, e
<1>7. CallsOK(w)
  <2>1. Loops(fr.at \o <<1>>) = {}
    <3>1. <<>> \in Paths /\ Len(<<>>) = 0
      BY DEF Paths
    <3> QED
      BY <1>10, <3>1, LoopsOutside
  <2>2. CallOK(w, 1)
    BY <1>1, <1>10, <2>1 DEF CallOK
  <2> QED
    BY <1>1, <2>2 DEF CallsOK
<1>8. ReachOK(w, <<>>, bl, 1)
  <2>1. \A i \in 1 .. Len(w) : WaitOK(w[i], <<>>, bl)
    BY <1>1, <1>10 DEF WaitOK
  <2>2. ~Jumped(w[Len(w)]) /\ ~Ended(w[Len(w)])
    BY <1>1, <1>10 DEF Jumped, Ended
  <2> QED
    BY <1>1, <2>1, <2>2 DEF ReachOK
<1>9. SimOK(lab, w, <<>>, bl, 1)
  BY <1>3, <1>4, <1>6, <1>7, <1>8 DEF SimOK
<1> QED
  BY <1>9 DEF Begun, w, bl, fr

LEMMA SimEliminate ==
  ASSUME Eliminate, ast = prog, bb = <<>>
  PROVE  AstOK' /\ Generated' /\ prog' = prog
<1>1. /\ work' = <<TheBody>> /\ blocks' = << <<>> >> /\ cur' = 1 /\ bb' = <<>> /\ prog' = prog
      /\ ast' = [p \in {q \in DOMAIN ast : ~After(q, Jumps)} |-> ast[p]]
  BY DEF Eliminate, Restrict, TheBody
<1>2. AstOK'
  <2>1. \A p, ops : After(p, ops)' = After(p, ops)
    BY <1>1, FrozenProgram
  <2> QED
    BY <1>1, <2>1 DEF AstOK
<1>3. Begun'
  BY SimBegins, PTL
<1>4. TheBody' = TheBody
  BY DEF TheBody
<1>5. Generated'
  BY <1>1, <1>3, <1>4 DEF Begun, Generated
<1> QED
  BY <1>1, <1>2, <1>5

\* Code generation keeps to the program.
LEMMA CodegenStep ==
  ASSUME IInv, LinkInv, SInv, Codegen
  PROVE  SInv'
<1>1. pc = "codegen" /\ UNCHANGED passes /\ pc' \in {"codegen", "undefined"}
  BY DEF Codegen, GenSimple, GenJump, GenIf, EndThen, EndElse, GenFor, EndLoop, EndBody, Generating
<1>2. Ready /\ LinkLoops /\ AstOK
  BY <1>1 DEF Ready, IInv, SInv
<1>3. PICK lab : SimOK(lab, work, bb, blocks, cur)
  BY <1>1 DEF SInv, Generated
<1>4. NoIncSkipped
  <2> SUFFICES ASSUME NEW p \in DOMAIN ast, ast[p].op = "continue" PROVE ~prog[Innermost(p)].inc
    BY DEF NoIncSkipped
  <2>1. p \in DOMAIN prog /\ prog[p].op = "continue" /\ ~After(p, Jumps)
    BY <1>2 DEF AstOK
  <2>2. Loops(p) # {}
    <3>1. p \in DOMAIN link
      BY <1>1 DEF LinkInv, Connected
    <3> QED
      BY <1>2, <3>1 DEF LinkLoops
  <2> QED
    BY <2>1, <2>2 DEF SInv, ContinuesWhile
<1>5. \E l : SimOK(l, work', bb', blocks', cur')
  <2>1. CASE GenSimple BY <1>2, <1>3, <2>1, SimGenSimple
  <2>2. CASE GenJump
    <3>1. Connected
      BY DEF LinkInv
    <3> QED
      BY <1>1, <1>2, <1>3, <1>4, <2>2, <3>1, SimGenJump
  <2>3. CASE GenIf BY <1>2, <1>3, <2>3, SimGenIf
  <2>4. CASE EndThen BY <1>2, <1>3, <2>4, SimEndThen
  <2>5. CASE EndElse BY <1>2, <1>3, <2>5, SimEndElse
  <2>6. CASE GenFor BY <1>2, <1>3, <2>6, SimGenFor
  <2>7. CASE EndLoop BY <1>2, <1>3, <2>7, SimEndLoop
  <2>8. CASE EndBody BY <1>2, <1>3, <2>8, SimEndBody
  <2> QED
    BY <2>1, <2>2, <2>3, <2>4, <2>5, <2>6, <2>7, <2>8 DEF Codegen
<1>6. PICK l : SimOK(l, work', bb', blocks', cur')
  BY <1>5
<1>7. SimOK(l, work, bb, blocks, cur)'
  BY <1>1, <1>6, FrozenSim DEF passes
<1>8. Generated'
  BY <1>7 DEF Generated
<1>9. LinkLoops' /\ AstOK' /\ WellFormed(prog)' /\ ContinuesWhile'
  BY <1>1, <1>2, FrozenPasses, FrozenProgram DEF passes, SInv
<1> QED
  BY <1>1, <1>8, <1>9 DEF SInv

\* The function begins where the program does.
LEMMA CallStep ==
  ASSUME IInv, SInv, CallFunction
  PROVE  SInv'
<1>1. /\ pc = "codegen" /\ work = <<>> /\ pc' = "run" /\ at' = <<1, 1>> /\ src' = Entered(<<>>, End)
      /\ prog' = prog /\ bb' = bb /\ blocks' = blocks
  BY DEF CallFunction, passes, code
<1>2. BlocksOK(blocks)
  BY DEF IInv
<1>3. PICK lab : SimOK(lab, work, bb, blocks, cur)
  BY <1>1 DEF SInv, Generated
<1>4. Compiled(lab, bb, blocks)
  <2> SUFFICES ASSUME NEW b \in DOMAIN blocks, Open(blocks[b]), Targeted(b, blocks)
               PROVE  AtEnd(lab[b], blocks[b]) = End
    BY <1>3 DEF SimOK, Compiled
  <2>1. Len(work) = 0
    BY <1>1
  <2>2. b = cur
    BY <1>3, <2>1 DEF SimOK, ReachOK
  <2> QED
    BY <1>1, <1>3, <2>2 DEF SimOK, HereOK, Here
<1>5. 1 \in DOMAIN blocks /\ lab[1] = src'
  BY <1>1, <1>3, Begin DEF SimOK, LabelsOK
<1>6. Targeted(1, blocks)
  BY DEF Targeted
<1>7. Position(lab, blocks, 1, 1, lab[1])
  BY <1>2, <1>5, <1>6, AtBeginning
<1>8. Following'
  <2>1. Position(lab, blocks, at'[1], at'[2], src')
    BY <1>1, <1>5, <1>7
  <2> QED
    BY <1>1, <1>4, <2>1, FrozenRun
<1> QED
  BY <1>1, <1>8, FrozenProgram DEF SInv

LEMMA SStep ==
  ASSUME IInv, LinkInv, SInv, [Next]_vars
  PROVE  SInv'
<1>1. CASE ConnectLoops
  <2>1. /\ pc = "connect" /\ pc' \in {"error", "eliminate"} /\ prog' = prog /\ bb' = bb
    BY <1>1 DEF ConnectLoops, code
  <2>2. pc' = "eliminate" => LinkLoops'
    BY <1>1, LoopsLinked
  <2> QED
    BY <2>1, <2>2, FrozenProgram DEF SInv
<1>2. CASE Eliminate
  <2>1. pc = "eliminate" /\ pc' = "codegen" /\ link' = link
    BY <1>2 DEF Eliminate
  <2>2. AstOK' /\ Generated' /\ prog' = prog
    BY <1>2, <2>1, SimEliminate DEF IInv, SInv
  <2>3. LinkLoops'
    <3>1. \A p : Loops(p)' = Loops(p)
      BY <2>2 DEF Loops
    <3> QED
      BY <2>1, <3>1 DEF LinkLoops, SInv
  <2> QED
    BY <2>1, <2>2, <2>3, FrozenProgram DEF SInv
<1>3. CASE Codegen BY <1>3, CodegenStep
<1>4. CASE CallFunction BY <1>4, CallStep
<1>5. CASE TakeBr \/ Execute
  <2>1. pc = "run" /\ pc' = pc /\ UNCHANGED <<passes, code>>
    BY <1>5 DEF TakeBr, Execute
  <2>2. prog' = prog /\ bb' = bb /\ blocks' = blocks
    BY <2>1 DEF passes, code
  <2>3. PICK lab : Compiled(lab, bb, blocks) /\ Position(lab, blocks, at[1], at[2], src)
    BY <2>1 DEF SInv, Following
  <2>4. Position(lab, blocks, at'[1], at'[2], src')
    BY <1>5, <2>3, RunStep DEF IInv
  <2>5. Following'
    BY <2>2, <2>3, <2>4, FrozenRun
  <2> QED
    BY <2>1, <2>2, <2>5, FrozenProgram DEF SInv
<1>6. CASE Finish
  <2>1. pc' \in {"done", "undefined"} /\ prog' = prog
    BY <1>6 DEF Finish, passes
  <2> QED
    BY <2>1, FrozenProgram DEF SInv
<1>7. CASE UNCHANGED vars
  <2>1. /\ pc' = pc /\ UNCHANGED passes /\ work' = work /\ blocks' = blocks /\ bb' = bb /\ cur' = cur
        /\ at' = at /\ src' = src /\ prog' = prog /\ ast' = ast
    BY <1>7 DEF vars, passes, code
  <2>2. Generated => Generated'
    <3> SUFFICES ASSUME NEW lab, SimOK(lab, work, bb, blocks, cur) PROVE Generated'
      BY DEF Generated
    <3>1. SimOK(lab, work', bb', blocks', cur')
      BY <2>1
    <3>2. SimOK(lab, work, bb, blocks, cur)'
      BY <2>1, <3>1, FrozenSim
    <3> QED
      BY <3>2 DEF Generated
  <2>3. Following => Following'
    <3> SUFFICES ASSUME NEW lab, Compiled(lab, bb, blocks), Position(lab, blocks, at[1], at[2], src)
                 PROVE  Following'
      BY DEF Following
    <3>1. Position(lab, blocks, at'[1], at'[2], src')
      BY <2>1
    <3> QED
      BY <2>1, <3>1, FrozenRun
  <2> QED
    BY <2>1, <2>2, <2>3, FrozenProgram, FrozenPasses DEF SInv
<1> QED
  BY <1>1, <1>2, <1>3, <1>4, <1>5, <1>6, <1>7 DEF Next, Stutter

LEMMA Beginning ==
  ASSUME Init
  PROVE  IInv /\ LinkInv /\ (ContinuesWhile => SInv)
<1>1. pc = "connect" /\ prog \in Programs /\ ast = prog /\ blocks = <<>> /\ bb = <<>>
  BY DEF Init
<1>2. BlocksOK(blocks)
  BY <1>1, EmptyBlock DEF BlocksOK
<1>3. WellFormed(prog)
  BY <1>1, ProgramsAssumption
<1> QED
  BY <1>1, <1>2, <1>3 DEF IInv, LinkInv, Connected, SInv

\* Whatever the program, unless one of its continue statements stands in a for
\* loop that increments: the compiled function does what the source program
\* does, in the same order, and stops without an instruction only at its end.
THEOREM FollowsTheProgram == Spec /\ ContinuesWhile => []Simulates
<1>1. Init /\ ContinuesWhile => IInv /\ LinkInv /\ SInv
  BY Beginning
<1>2. IInv /\ LinkInv /\ SInv /\ [Next]_vars => (IInv /\ LinkInv /\ SInv)'
  BY IStep, LinkStep, SStep
<1>3. IInv /\ SInv => Simulates
  <2> SUFFICES ASSUME IInv, SInv, pc = "run" PROVE Simulates
    BY DEF Simulates
  <2>1. PICK lab : Compiled(lab, bb, blocks) /\ Position(lab, blocks, at[1], at[2], src)
    BY DEF SInv, Following
  <2> QED
    BY <2>1, RunSimulates DEF IInv
<1> QED
  BY <1>1, <1>2, <1>3, PTL DEF Spec
=============================================================================
