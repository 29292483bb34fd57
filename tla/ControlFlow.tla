----------------------------- MODULE ControlFlow -----------------------------
(***************************************************************************)
(* Compiling the statements of the d_gen function to basic blocks, and     *)
(* running them: Semantics::connect_loops links break and continue to      *)
(* their loop, eliminate_unreachable_code cuts the bodies, and             *)
(* CodegenVisitor emits instructions at its insertion point.  The blocks   *)
(* are run next to the source program, read as C would read it.            *)
(*                                                                         *)
(* A program maps the path of each statement to it: <<i>> is statement i   *)
(* of the function, p \o <<1, i>> that of the body of p, p \o <<2, i>>     *)
(* that of its else body.  A definition, an assignment and the pre_asg of  *)
(* a for loop are an "act", a while loop is a for loop without inc_asg,    *)
(* and what conditions evaluate to is left open.                           *)
(***************************************************************************)
EXTENDS Integers, Sequences, Functions

CONSTANT Programs

Ops == {"act", "return", "break", "continue", "if", "for"}
Jumps == {"return", "break", "continue"}

VARIABLES pc,      \* the pass that comes next, or what the program does
          prog,    \* the program as it was parsed
          ast,     \* what is left of it
          link,    \* ContinueNode::loop and BreakNode::loop
          work,    \* the calls of code_gen in progress, the innermost one last
          blocks,  \* the instructions of each basic block
          bb,      \* the first of the blocks created for an if or a loop
          cur,     \* the block of the insertion point
          at,      \* running: the block and the index of the next instruction
          src      \* running: the next thing the source program does

passes == <<prog, ast, link>>
code == <<work, blocks, bb, cur>>
vars == <<pc, passes, code, at, src>>

-----------------------------------------------------------------------------
(* Paths.                                                                  *)

Body(p) == SubSeq(p, 1, Len(p) - 1)
Parent(p) == SubSeq(p, 1, Len(p) - 2)
\* The statements on the way to p, and p itself.
Path(p) == {SubSeq(p, 1, 2 * k - 1) : k \in 1 .. (Len(p) + 1) \div 2}
\* The statements in front of p in its body.
Before(p) == {Body(p) \o <<i>> : i \in 1 .. p[Len(p)] - 1}
\* A statement with an op of ops comes before p, or before what p is part of.
After(p, ops) == \E a \in Path(p) : \E b \in Before(a) : prog[b].op \in ops

Loops(p) == {a \in Path(p) \ {p} : prog[a].op = "for"}
Innermost(p) == CHOOSE a \in Loops(p) : \A b \in Loops(p) : Len(b) <= Len(a)

\* A statement of a body has those in front of it, and stands in statements.
WellFormed(program) ==
  /\ \A p \in DOMAIN program :
       p \in Seq(Nat \ {0}) /\ Len(p) % 2 = 1 /\ Path(p) \cup Before(p) \subseteq DOMAIN program
  /\ \E n \in {Len(p) : p \in DOMAIN program} \cup {0} : \A p \in DOMAIN program : Len(p) <= n

ASSUME ProgramsAssumption == \A program \in Programs : WellFormed(program)

-----------------------------------------------------------------------------
(* The source program.                                                     *)

What(ev, p) == [ev |-> ev, at |-> p]
End == What("end", <<>>)

\* What the program does when the body of loop p has come to its end, when it
\* comes to statement p, and when it has finished p.
Again(p) == IF prog[p].inc THEN What("inc", p) ELSE What("cond", p)
Comes(p, finished) ==
  CASE prog[p].op = "break" /\ Loops(p) # {}    -> finished[Innermost(p)]
    [] prog[p].op = "continue" /\ Loops(p) # {} -> Again(Innermost(p))
    [] prog[p].op \in {"if", "for"}             -> What("cond", p)
    [] OTHER -> What(prog[p].op, p)
Finished ==
  LET f[p \in DOMAIN prog] ==
        LET next == [p EXCEPT ![Len(p)] = @ + 1]
        IN  IF next \in DOMAIN prog THEN Comes(next, f)
            ELSE IF Len(p) = 1 THEN End
            ELSE IF prog[Parent(p)].op = "for" THEN Again(Parent(p)) ELSE f[Parent(p)]
  IN  f
\* Entering the body q: as if a statement 0 of it had finished.
Entered(q, empty) ==
  LET p == q \o <<1>> IN IF p \in DOMAIN prog THEN Comes(p, Finished) ELSE empty

\* What comes after s, the outcome being that of a condition.
SourceNext(s, outcome) ==
  LET p == s.at
  IN  CASE s.ev = "act" -> Finished[p]
        [] s.ev = "inc" -> What("cond", p)
        [] s.ev = "cond" /\ prog[p].op = "if" ->
             Entered(p \o <<IF outcome THEN 1 ELSE 2>>, Finished[p])
        [] s.ev = "cond" /\ prog[p].op = "for" ->
             IF outcome THEN Entered(p \o <<1>>, Again(p)) ELSE Finished[p]
        [] OTHER -> s

-----------------------------------------------------------------------------
(* The passes.                                                             *)

Init ==
  /\ pc = "connect"
  /\ prog \in Programs /\ ast = prog /\ link = <<>>
  /\ work = <<>> /\ blocks = <<>> /\ bb = <<>> /\ cur = 0
  /\ at = <<0, 0>> /\ src = End

\* Nothing after a break or continue is visited; elsewhere, one outside every
\* loop is an error.
ConnectLoops ==
  /\ pc = "connect"
  /\ LET visited == {p \in DOMAIN ast : ast[p].op \in {"break", "continue"}
                                          /\ ~After(p, {"break", "continue"})}
     IN  IF \E p \in visited : Loops(p) = {}
         THEN pc' = "error" /\ UNCHANGED link
         ELSE pc' = "eliminate" /\ link' = [p \in visited |-> Innermost(p)]
  /\ UNCHANGED <<prog, ast, code, at, src>>

\* Mutant of Eliminate: only a return cuts the body.
EliminateAfterReturn ==
  /\ pc = "eliminate"
  /\ ast' = Restrict(ast, {p \in DOMAIN ast : ~After(p, {"return"})})
  /\ pc' = "codegen"
  /\ work' = <<[do |-> "body", at |-> <<>>, n |-> 1]>>
  /\ blocks' = << <<>> >> /\ cur' = 1
  /\ UNCHANGED <<prog, link, bb, at, src>>

\* A body ends with its first break, continue or return.
Eliminate ==
  /\ pc = "eliminate"
  /\ ast' = Restrict(ast, {p \in DOMAIN ast : ~After(p, Jumps)})
  /\ pc' = "codegen"
  /\ work' = <<[do |-> "body", at |-> <<>>, n |-> 1]>>
  /\ blocks' = << <<>> >> /\ cur' = 1
  /\ UNCHANGED <<prog, link, bb, at, src>>

-----------------------------------------------------------------------------
(* CodegenVisitor.                                                         *)

\* Mutant of LastStmtBr: one branch of an if that jumps is enough.
LastStmtBrEither(q, ends) ==
  \E p \in DOMAIN ast :
    /\ Body(p) = q /\ q \o <<p[Len(p)] + 1>> \notin DOMAIN ast
    /\ \/ ast[p].op \in Jumps
       \/ ast[p].op = "if" /\ (ends[p \o <<1>>] \/ ends[p \o <<2>>])

\* is_last_stmt_br of the body q, given its answers for the bodies inside.
LastStmtBr(q, ends) ==
  \E p \in DOMAIN ast :
    /\ Body(p) = q /\ q \o <<p[Len(p)] + 1>> \notin DOMAIN ast
    /\ \/ ast[p].op \in Jumps
       \/ ast[p].op = "if" /\ ends[p \o <<1>>] /\ ends[p \o <<2>>]
EndsInJump(q) ==
  LET ends[r \in {p \o <<b>> : p \in DOMAIN ast, b \in 1 .. 2}] == LastStmtBr(r, ends)
  IN  LastStmtBr(q, ends)

Ins(ev, p, to) == [ev |-> ev, at |-> p, to |-> to]
Br(b) == Ins("br", <<>>, <<b>>)
Emit(b, ins) == [blocks EXCEPT ![b] = Append(@, ins)]

Call == work[Len(work)]
\* The next statement of the body that code is generated for.
Stmt == Call.at \o <<Call.n>>
Generating(op) ==
  /\ pc = "codegen" /\ work # <<>> /\ Call.do = "body"
  /\ Stmt \in DOMAIN ast /\ ast[Stmt].op = op
Advanced == [work EXCEPT ![Len(work)].n = @ + 1]
Returned == SubSeq(work, 1, Len(work) - 1)

\* A definition or assignment, or a return: gather_res and ret void.
GenSimple ==
  /\ \E op \in {"act", "return"} :
       Generating(op) /\ blocks' = Emit(cur, Ins(op, Stmt, <<>>))
  /\ work' = Advanced
  /\ UNCHANGED <<pc, passes, bb, cur, at, src>>

\* A break or continue; without connect_loops its loop is uninitialized.
GenJump ==
  /\ \E op \in {"break", "continue"} :
       /\ Generating(op)
       /\ IF Stmt \in DOMAIN link
          THEN LET first == bb[link[Stmt]]
               IN  /\ blocks' = Emit(cur, Br(IF op = "break" THEN first + 2 ELSE first))
                   /\ UNCHANGED pc
          ELSE pc' = "undefined" /\ UNCHANGED blocks
  /\ work' = Advanced
  /\ UNCHANGED <<passes, bb, cur, at, src>>

\* The blocks of an if are then, else and merge, in this order.
GenIf ==
  /\ Generating("if")
  /\ LET then == Len(blocks) + 1
     IN  /\ blocks' = Emit(cur, Ins("cond", Stmt, <<then, then + 1>>)) \o << <<>>, <<>>, <<>> >>
         /\ bb' = [p \in DOMAIN bb \cup {Stmt} |-> IF p = Stmt THEN then ELSE bb[p]]
         /\ cur' = then
  /\ work' = Advanced \o <<[do |-> "then", at |-> Stmt, n |-> 0],
                           [do |-> "body", at |-> Stmt \o <<1>>, n |-> 1]>>
  /\ UNCHANGED <<pc, passes, at, src>>

\* Mutant of EndThen: the then block always goes on to the merge block.
EndThenAlwaysBr ==
  /\ pc = "codegen" /\ work # <<>> /\ Call.do = "then"
  /\ LET p == Call.at
     IN  /\ blocks' = Emit(cur, Br(bb[p] + 2))
         /\ cur' = bb[p] + 1
         /\ work' = Returned \o <<[do |-> "else", at |-> p, n |-> 0],
                                  [do |-> "body", at |-> p \o <<2>>, n |-> 1]>>
  /\ UNCHANGED <<pc, passes, bb, at, src>>

EndThen ==
  /\ pc = "codegen" /\ work # <<>> /\ Call.do = "then"
  /\ LET p == Call.at
     IN  /\ blocks' = IF EndsInJump(p \o <<1>>) THEN blocks ELSE Emit(cur, Br(bb[p] + 2))
         /\ cur' = bb[p] + 1
         /\ work' = Returned \o <<[do |-> "else", at |-> p, n |-> 0],
                                  [do |-> "body", at |-> p \o <<2>>, n |-> 1]>>
  /\ UNCHANGED <<pc, passes, bb, at, src>>

EndElse ==
  /\ pc = "codegen" /\ work # <<>> /\ Call.do = "else"
  /\ LET p == Call.at
     IN  /\ blocks' = IF EndsInJump(p \o <<2>>) THEN blocks ELSE Emit(cur, Br(bb[p] + 2))
         /\ cur' = bb[p] + 2
  /\ work' = Returned
  /\ UNCHANGED <<pc, passes, bb, at, src>>

\* The blocks of a loop are loop_cond_bb, loop_bb and merge_bb.
GenFor ==
  /\ Generating("for")
  /\ LET first == Len(blocks) + 1
     IN  /\ blocks' = Emit(cur, Br(first))
                        \o << <<Ins("cond", Stmt, <<first + 1, first + 2>>)>>, <<>>, <<>> >>
         /\ bb' = [p \in DOMAIN bb \cup {Stmt} |-> IF p = Stmt THEN first ELSE bb[p]]
         /\ cur' = first + 1
  /\ work' = Advanced \o <<[do |-> "loop", at |-> Stmt, n |-> 0],
                           [do |-> "body", at |-> Stmt \o <<1>>, n |-> 1]>>
  /\ UNCHANGED <<pc, passes, at, src>>

EndLoop ==
  /\ pc = "codegen" /\ work # <<>> /\ Call.do = "loop"
  /\ LET p == Call.at
         inc == IF ast[p].inc THEN <<Ins("inc", p, <<>>)>> ELSE <<>>
     IN  /\ blocks' = IF EndsInJump(p \o <<1>>) THEN blocks
                      ELSE [blocks EXCEPT ![cur] = @ \o inc \o <<Br(bb[p])>>]
         /\ cur' = bb[p] + 2
  /\ work' = Returned
  /\ UNCHANGED <<pc, passes, bb, at, src>>

EndBody ==
  /\ pc = "codegen" /\ work # <<>> /\ Call.do = "body" /\ Stmt \notin DOMAIN ast
  /\ work' = Returned
  /\ UNCHANGED <<pc, passes, blocks, bb, cur, at, src>>

-----------------------------------------------------------------------------
(* The compiled function.                                                  *)

CallFunction ==
  /\ pc = "codegen" /\ work = <<>>
  /\ pc' = "run" /\ at' = <<1, 1>> /\ src' = Entered(<<>>, End)
  /\ UNCHANGED <<passes, code>>

\* Past the last instruction of a block nothing is defined.
Running == IF at[2] \in DOMAIN blocks[at[1]] THEN blocks[at[1]][at[2]] ELSE Ins("end", <<>>, <<>>)

TakeBr ==
  /\ pc = "run" /\ Running.ev = "br"
  /\ at' = <<Running.to[1], 1>>
  /\ UNCHANGED <<pc, passes, code, src>>

Execute ==
  /\ pc = "run" /\ Running.ev \in {"act", "inc", "cond"}
  /\ \E outcome \in BOOLEAN :
       /\ at' = IF Running.ev # "cond" THEN <<at[1], at[2] + 1>>
                ELSE <<IF outcome THEN Running.to[1] ELSE Running.to[2], 1>>
       /\ src' = SourceNext(src, outcome)
  /\ UNCHANGED <<pc, passes, code>>

Finish ==
  /\ pc = "run" /\ Running.ev \in {"return", "end"}
  /\ pc' = IF Running.ev = "return" THEN "done" ELSE "undefined"
  /\ UNCHANGED <<passes, code, at, src>>

Codegen ==
  \/ GenSimple \/ GenJump \/ GenIf \/ EndThen \/ EndElse \/ GenFor \/ EndLoop \/ EndBody

Stutter == pc \in {"error", "undefined", "done"} /\ UNCHANGED vars

Next ==
  \/ ConnectLoops \/ Eliminate \/ Codegen
  \/ CallFunction \/ TakeBr \/ Execute \/ Finish \/ Stutter

Spec == Init /\ [][Next]_vars

-----------------------------------------------------------------------------
\* Every break and continue that is left has the loop it stands in, although
\* connect_loops stops at the first one of a body: eliminate_unreachable_code
\* cuts what it does not visit.
Connected ==
  pc = "codegen" =>
    \A p \in DOMAIN ast :
      ast[p].op \in {"break", "continue"} => p \in DOMAIN link /\ link[p] = Innermost(p)

\* No instruction is emitted behind one that ends its block, whatever bodies
\* end in (is_last_stmt_br and the insertion point after it).
OneTerminator ==
  \A b \in DOMAIN blocks : \A i \in DOMAIN blocks[b] :
    blocks[b][i].ev \in {"br", "cond", "return"} => i = Len(blocks[b])

\* The compiled function does what the source program does, in the same order;
\* where the program has not returned at its end, so does not the function.
Simulates ==
  (pc = "run" /\ Running.ev # "br") => Running.ev = src.ev /\ Running.at = src.at
=============================================================================
