------------------------------ MODULE SyntaxTree ------------------------------
(***************************************************************************)
(* The life of a syntax tree: ASTBuilderVisitor creates the nodes bottom   *)
(* up, Semantics::type_ast connects every name with its symbol,            *)
(* type_check rejects what is badly typed, eliminate_unreachable_code cuts *)
(* the bodies, CodegenVisitor walks what is left, and deleting the         *)
(* function deletes the tree.  connect_loops, the first pass, is in        *)
(* ControlFlow: the programs are those it accepts.                         *)
(*                                                                         *)
(* The text of a program is the sequence of rules that the parser has      *)
(* recognised, in the order in which the visitor leaves them.  A null      *)
(* pointer is node 0.                                                      *)
(***************************************************************************)
EXTENDS Integers, Sequences, SequencesExt

CONSTANT Programs  \* records of args (name and type), ret (a type) and text

\* The kinds of what the visitor has returned after i rules and what no rule
\* above has taken: "null" for a part that the program leaves out.
Returned(rules) ==
  LET f[i \in 0 .. Len(rules)] ==
        IF i = 0 THEN <<>>
        ELSE LET before == f[i - 1]
             IN  Append(SubSeq(before, 1, Len(before) - rules[i].n),
                        IF rules[i].do \in {"op=", "++"} THEN "asg" ELSE rules[i].do)
  IN  f

\* What the grammar says of the parts of a rule.
Expr == {"ident", "const", "binop", "create", "lookup", "prop"}
Stmts == {"asg", "def", "return", "break", "continue", "if", "for"}
Lvalue == {"ident", "lookup"}
Opt(S) == S \cup {"null"}
Parts(do) ==
  CASE do \in {"create", "return"} -> <<Expr>>
    [] do \in {"precond", "def"} -> <<Opt(Expr)>>
    [] do = "binop" -> <<Expr, Expr>>
    [] do \in {"asg", "op="} -> <<Lvalue, Expr>>
    [] do = "++" -> <<Lvalue>>
    [] do = "if" -> <<Opt({"precond"}), Expr, {"body"}, Opt({"body"})>>
    [] do = "for" -> <<Opt({"precond"}), Opt({"asg"}), Expr, Opt({"asg"}), {"body"}>>
    [] OTHER -> <<>>
Shape(do, parts) ==
  CASE do = "lookup" -> parts # <<>> /\ ToSet(parts) \subseteq Expr
    [] do = "body" -> ToSet(parts) \subseteq Stmts
    [] OTHER -> /\ Len(parts) = Len(Parts(do))
                /\ \A j \in DOMAIN parts : parts[j] \in Parts(do)[j]
\* <<"arr", "int">> is int[].
IsType(t) ==
  /\ t # <<>> /\ Last(t) \in {"int", "string", "char", "bool"}
  /\ \A i \in 1 .. Len(t) - 1 : t[i] = "arr"

\* Every rule takes what was returned for its parts, and the body of the function
\* is all that remains.
WellFormed(p) ==
  LET rules == p.text
      before(i) == Returned(rules)[i - 1]
      parts(i) == SubSeq(before(i), Len(before(i)) - rules[i].n + 1, Len(before(i)))
  IN  /\ p.args \in Seq(ToSet(p.args)) /\ rules \in Seq(ToSet(rules))
      /\ IsType(p.ret) /\ \A i \in DOMAIN p.args : IsType(p.args[i].type)
      /\ \A i \in DOMAIN rules :
           /\ rules[i].do \in Expr \cup Stmts \cup {"op=", "++", "precond", "body", "null"}
           /\ rules[i].n \in 0 .. Len(before(i)) /\ Shape(rules[i].do, parts(i))
           /\ rules[i].do \in {"const", "create", "def"} => IsType(rules[i].type)
      /\ Returned(rules)[Len(rules)] = <<"body">>

ASSUME ProgramsAssumption == \A p \in Programs : WellFormed(p)

VARIABLES pc,      \* the pass in progress, or how it ended
          prog,
          text,    \* the rules that are still to be visited
          stack,   \* what the visitor returned for the rules visited last
          nodes,   \* the nodes that were created: kind, name, type, children
          stmts,   \* BodyNode::stmts, beside the children of the body
          syms,    \* the symbols that were created: type and is_input
          sym,     \* IdentNode::symbol and DefNode::sym
          tables,  \* the symbol tables: outer table and names
          ready,   \* the symbols that have an alloca
          work,    \* the nodes that the pass visits next, and their table
          freed    \* the nodes that were deleted

parsing == <<prog, text, stack, nodes>>
scopes == <<syms, sym, tables>>
vars == <<pc, parsing, stmts, scopes, ready, work, freed>>

-----------------------------------------------------------------------------
(* Trees.                                                                  *)

Node(kind, name, type, kids) == [kind |-> kind, name |-> name, type |-> type, kids |-> kids]
Of(kind) == {n \in DOMAIN nodes : nodes[n].kind = kind}
Kids(n) == ToSet(nodes[n].kids) \ {0}
\* Children are created before their parents.
Tree ==
  LET f[n \in DOMAIN nodes] == {n} \cup UNION {f[k] : k \in Kids(n)}
  IN  f
Root == Len(nodes)
\* The elements of s that are in S.
Among(s, S) == FlattenSeq([i \in DOMAIN s |-> IF s[i] \in S THEN <<s[i]>> ELSE <<>>])
\* The nodes of a sequence, to be visited with table t.
Visits(ids, t) ==
  LET there == Among(ids, DOMAIN nodes)
  IN  [i \in DOMAIN there |-> [node |-> there[i], in |-> t]]
Next1 == Head(work).node

-----------------------------------------------------------------------------
(* ASTBuilderVisitor.                                                      *)

Plain == {"ident", "const", "binop", "create", "asg", "def", "return", "break",
          "continue", "precond", "body", "if", "for"}

Init ==
  /\ pc = "parse" /\ prog \in Programs /\ text = prog.text /\ stack = <<>>
  /\ nodes = [i \in DOMAIN prog.args |-> Node("def", prog.args[i].name, prog.args[i].type, <<0>>)]
  /\ stmts = <<>> /\ syms = <<>> /\ sym = <<>> /\ tables = <<>>
  /\ ready = {} /\ work = <<>> /\ freed = {}

Rule == Head(text)
Parsing(rules) == pc = "parse" /\ text # <<>> /\ Rule.do \in rules
\* What the visitor returned for the children of the rule.
Operands == SubSeq(stack, Len(stack) - Rule.n + 1, Len(stack))
Push(n) == stack' = Append(SubSeq(stack, 1, Len(stack) - Rule.n), n)

\* A part that the program leaves out.
LeaveOut ==
  /\ Parsing({"null"})
  /\ Push(0)
  /\ text' = Tail(text)
  /\ UNCHANGED <<pc, prog, nodes, stmts, scopes, ready, work, freed>>

Construct ==
  /\ Parsing(Plain)
  /\ nodes' = Append(nodes, Node(Rule.do, Rule.name, Rule.type, Operands))
  /\ Push(Len(nodes) + 1)
  /\ text' = Tail(text)
  /\ UNCHANGED <<pc, prog, stmts, scopes, ready, work, freed>>

\* An array or property lookup creates the node of its identifier itself.
ConstructLookup ==
  /\ Parsing({"lookup", "prop"})
  /\ LET ident == Len(nodes) + 1
     IN  /\ nodes' = nodes \o <<Node("ident", Rule.name, <<>>, <<>>),
                                Node(Rule.do, Rule.type[1], <<>>, <<ident>> \o Operands)>>
         /\ Push(ident + 1)
  /\ text' = Tail(text)
  /\ UNCHANGED <<pc, prog, stmts, scopes, ready, work, freed>>

\* Mutant of Copied: IdentNode has no copy() of its own.
CopiedButIdents(n) ==
  \/ nodes[n].kind \in {"lookup", "prop", "binop"}
  \/ nodes[n].kind = "const" /\ nodes[n].type = <<"int">>

\* The nodes whose class overrides copy(); the others return themselves.
Copied(n) ==
  \/ nodes[n].kind \in {"ident", "lookup", "prop", "binop"}
  \/ nodes[n].kind = "const" /\ nodes[n].type = <<"int">>

\* The nodes that copy() of a node copies.
Copies ==
  LET f[n \in DOMAIN nodes] ==
        IF Copied(n) THEN {n} \cup UNION {f[k] : k \in Kids(n)} ELSE {}
  IN  f

\* copy(): the new nodes, the last one being the copy of n itself.
Copy(n) ==
  LET old == Among([i \in DOMAIN nodes |-> i], Copies[n])
      new(k) == IF k \in Copies[n] THEN Len(nodes) + (CHOOSE i \in DOMAIN old : old[i] = k) ELSE k
  IN  [i \in DOMAIN old |->
         [nodes[old[i]] EXCEPT !.kids = [j \in DOMAIN @ |-> new(@[j])]]]

\* lhs op= rhs and lhs++ become an assignment of lhs op rhs to lhs.
ConstructCompound ==
  /\ Parsing({"op=", "++"})
  /\ LET lhs == Operands[1]
         copy == Copy(lhs)
         one == IF Rule.do = "++" THEN <<Node("const", "", <<"int">>, <<>>)>> ELSE <<>>
         all == nodes \o copy \o one
         copied == IF copy = <<>> THEN lhs ELSE Len(nodes) + Len(copy)
         rhs == IF Rule.do = "++" THEN Len(all) ELSE Operands[2]
     IN  /\ nodes' = all \o <<Node("binop", "+", <<>>, <<copied, rhs>>),
                              Node("asg", "", <<>>, <<lhs, Len(all) + 1>>)>>
         /\ Push(Len(all) + 2)
  /\ text' = Tail(text)
  /\ UNCHANGED <<pc, prog, stmts, scopes, ready, work, freed>>

-----------------------------------------------------------------------------
(* Semantics::type_ast.                                                    *)

\* The function node; the inputs share the outermost table with the
\* definitions of the body, and the last one of a name is found.
ConstructFunction ==
  /\ pc = "parse" /\ text = <<>>
  /\ LET body == stack[1]
         args == prog.args
         names == {args[i].name : i \in DOMAIN args}
     IN  /\ nodes' = Append(nodes, Node("function", "", prog.ret,
                                        <<body>> \o [i \in DOMAIN args |-> i]))
         /\ stmts' = [b \in Of("body") |-> nodes[b].kids]
         /\ syms' = [i \in DOMAIN args |-> [type |-> args[i].type, input |-> TRUE]]
         /\ tables' = <<[outer |-> 0,
                         names |-> [x \in names |->
                                      Max({i \in DOMAIN args : args[i].name = x})]]>>
         /\ work' = Visits(nodes[body].kids, 1)
  /\ pc' = "type" /\ stack' = <<>>
  /\ UNCHANGED <<prog, text, sym, ready, freed>>

\* SymbolTable::find_symbol, 0 being the null pointer.
Found(name, t) ==
  LET f[u \in 0 .. Len(tables)] ==
        IF u = 0 THEN 0
        ELSE IF name \in DOMAIN tables[u].names THEN tables[u].names[name]
        ELSE f[tables[u].outer]
  IN  f[t]

Typing(kind) == pc = "type" /\ work # <<>> /\ nodes[Next1].kind = kind
In == Head(work).in
Mapped(f, x, v) == [y \in DOMAIN f \cup {x} |-> IF y = x THEN v ELSE f[y]]

\* The symbol is added before the initializer is visited.
TypeDef ==
  /\ Typing("def")
  /\ LET new == Len(syms) + 1
     IN  /\ syms' = Append(syms, [type |-> nodes[Next1].type, input |-> FALSE])
         /\ sym' = Mapped(sym, Next1, new)
         /\ tables' = [tables EXCEPT ![In].names = Mapped(@, nodes[Next1].name, new)]
  /\ work' = Visits(nodes[Next1].kids, In) \o Tail(work)
  /\ UNCHANGED <<pc, parsing, stmts, ready, freed>>

TypeIdent ==
  /\ Typing("ident")
  /\ LET found == Found(nodes[Next1].name, In)
     IN  IF found = 0
         THEN pc' = "undeclared" /\ UNCHANGED <<sym, work>>
         ELSE sym' = Mapped(sym, Next1, found) /\ work' = Tail(work) /\ UNCHANGED pc
  /\ UNCHANGED <<parsing, stmts, syms, tables, ready, freed>>

\* Mutant of TypeBody: the statements share the table of the outer body.
TypeBodyInOuter ==
  /\ Typing("body")
  /\ work' = Visits(nodes[Next1].kids, In) \o Tail(work)
  /\ UNCHANGED <<pc, parsing, stmts, scopes, ready, freed>>

TypeBody ==
  /\ Typing("body")
  /\ tables' = Append(tables, [outer |-> In, names |-> <<>>])
  /\ work' = Visits(nodes[Next1].kids, Len(tables) + 1) \o Tail(work)
  /\ UNCHANGED <<pc, parsing, stmts, syms, sym, ready, freed>>

TypeOther ==
  /\ pc = "type" /\ work # <<>> /\ nodes[Next1].kind \notin {"def", "ident", "body"}
  /\ work' = Visits(nodes[Next1].kids, In) \o Tail(work)
  /\ UNCHANGED <<pc, parsing, stmts, scopes, ready, freed>>

-----------------------------------------------------------------------------
(* Types.                                                                  *)

Err == <<"error">>
Numerical(t) == t \in {<<"int">>, <<"char">>}
Stringy(t) == t \in {<<"string">>, <<"arr", "char">>}
Convertible(t, u) == t = u \/ (Numerical(t) /\ Numerical(u)) \/ (Stringy(t) /\ Stringy(u))
\* Nothing is left of a scalar.
DropType(t) == IF t = <<"string">> THEN <<"char">> ELSE IF t = <<>> THEN t ELSE Tail(t)

Result(op) == IF op = "+" THEN <<"int">> ELSE <<"bool">>
\* get_type; Err is the exception it throws.  The length of an array that is
\* created is not looked at.
TypeOf ==
  LET f[n \in DOMAIN nodes] ==
        LET node == nodes[n]
            type(i) == f[node.kids[i]]
            dropped[i \in 1 .. Len(node.kids)] ==
              IF i = 1 THEN type(1) ELSE DropType(dropped[i - 1])
        IN  CASE node.kind \in {"const", "create"} -> node.type
              [] node.kind = "ident" -> syms[sym[n]].type
              [] node.kind = "lookup" ->
                   IF dropped[Len(node.kids)] = <<>> THEN Err ELSE dropped[Len(node.kids)]
              [] node.kind = "prop" ->
                   IF node.name = "len" /\ type(1)[1] \in {"arr", "string"}
                   THEN <<"int">> ELSE Err
              [] node.kind = "binop" ->
                   IF \/ Err \in {type(1), type(2)} \/ type(1) # type(2)
                      \/ node.name = "&&" /\ type(1) # <<"bool">>
                   THEN Err ELSE Result(node.name)
              [] OTHER -> <<>>
  IN  f

Expressions == UNION {Of(kind) : kind \in {"const", "create", "ident", "lookup", "prop", "binop"}}

\* The symbol that an identifier or a lookup names.
Target(n) == sym[IF nodes[n].kind = "ident" THEN n ELSE nodes[n].kids[1]]

\* Mutant of AssignsInput: the elements of an input can be assigned to.
AssignsIdentOnly(n) == nodes[nodes[n].kids[1]].kind = "ident" /\ syms[Target(nodes[n].kids[1])].input

AssignsInput(n) == syms[Target(nodes[n].kids[1])].input

\* Mutant of BadType: the expression of a precondition is not looked at.
BadTypeButPrecond(n) ==
  LET node == nodes[n]
      type(i) == TypeOf[node.kids[i]]
      mismatch(t, u) == Err \in {t, u} \/ ~Convertible(t, u)
  IN  \/ node.kind = "return" /\ type(1) # prog.ret
      \/ node.kind = "asg" /\ (AssignsInput(n) \/ mismatch(type(1), type(2)))
      \/ node.kind = "def" /\ node.kids # <<0>> /\ mismatch(type(1), node.type)
      \/ node.kind = "for" /\ type(3) # <<"bool">>
      \/ node.kind = "if" /\ type(2) # <<"bool">>
      \/ node.kind = "lookup" /\ \E i \in 2 .. Len(node.kids) : type(i) # <<"int">>

\* What type_check_visitor throws for.
BadType(n) ==
  LET node == nodes[n]
      type(i) == TypeOf[node.kids[i]]
      mismatch(t, u) == Err \in {t, u} \/ ~Convertible(t, u)
  IN  \/ node.kind = "precond" /\ node.kids # <<0>> /\ type(1) # <<"bool">>
      \/ node.kind = "return" /\ type(1) # prog.ret
      \/ node.kind = "asg" /\ (AssignsInput(n) \/ mismatch(type(1), type(2)))
      \/ node.kind = "def" /\ node.kids # <<0>> /\ mismatch(type(1), node.type)
      \/ node.kind = "for" /\ type(3) # <<"bool">>
      \/ node.kind = "if" /\ type(2) # <<"bool">>
      \/ node.kind = "lookup" /\ \E i \in 2 .. Len(node.kids) : type(i) # <<"int">>

TypeCheck ==
  /\ pc = "type" /\ work = <<>>
  /\ pc' = IF \E n \in DOMAIN nodes : BadType(n) THEN "rejected" ELSE "eliminate"
  /\ UNCHANGED <<parsing, stmts, scopes, ready, work, freed>>

-----------------------------------------------------------------------------
(* Semantics::eliminate_unreachable_code.                                  *)

Jumps == UNION {Of(kind) : kind \in {"return", "break", "continue"}}
Cut(s) ==
  LET jumps == {i \in DOMAIN s : s[i] \in Jumps}
  IN  IF jumps = {} THEN s ELSE SubSeq(s, 1, Min(jumps))

\* The bodies that are visited from each body: those that are not cut off.
Bodies ==
  LET f[b \in Of("body")] ==
        {b} \cup UNION {f[c] : c \in Of("body") \cap UNION {Kids(s) : s \in ToSet(Cut(stmts[b]))}}
  IN  f

Eliminate ==
  /\ pc = "eliminate"
  /\ LET body == nodes[Root].kids[1]
     IN  /\ stmts' = [b \in DOMAIN stmts |->
                        IF b \in Bodies[body] THEN Cut(stmts[b]) ELSE stmts[b]]
         /\ work' = Visits(<<body>>, 0)
  /\ pc' = "codegen"
  /\ UNCHANGED <<parsing, scopes, ready, freed>>

-----------------------------------------------------------------------------
(* CodegenVisitor: the order in which it comes to the nodes.               *)

\* is_last_stmt_br
EndsInJump ==
  LET f[b \in {0} \cup Of("body")] ==
        /\ b # 0 /\ stmts[b] # <<>>
        /\ \/ Last(stmts[b]) \in Jumps
           \/ Last(stmts[b]) \in Of("if") /\ \A i \in {3, 4} : f[nodes[Last(stmts[b])].kids[i]]
  IN  f

\* prepare_eval_ctx: the precondition, and the condition without its root.
Prepared(precond, cond) ==
  IF precond = 0 THEN <<>> ELSE nodes[precond].kids \o nodes[cond].kids

Order(n) ==
  LET k == nodes[n].kids
  IN  CASE nodes[n].kind = "body" -> stmts[n]
        [] nodes[n].kind = "if" -> Prepared(k[1], k[2]) \o <<k[2], k[3], k[4]>>
        [] nodes[n].kind = "for" ->
             <<k[2]>> \o Prepared(k[1], k[3]) \o <<k[3], k[5]>>
                \o (IF EndsInJump[k[5]] THEN <<>> ELSE <<k[4]>>)
        [] OTHER -> k

\* Only a definition creates an alloca, and does so before its initializer.
Generate ==
  /\ pc = "codegen" /\ work # <<>>
  /\ ready' = ready \cup (IF nodes[Next1].kind = "def" THEN {sym[Next1]} ELSE {})
  /\ work' = Visits(Order(Next1), 0) \o Tail(work)
  /\ UNCHANGED <<pc, parsing, stmts, scopes, freed>>

-----------------------------------------------------------------------------
(* delete func, after the last test.                                       *)

StartDelete ==
  /\ pc = "codegen" /\ work = <<>>
  /\ pc' = "delete" /\ work' = Visits(<<Root>>, 0)
  /\ UNCHANGED <<parsing, stmts, scopes, ready, freed>>

\* Mutant of Delete: a body deletes the statements that code was generated for.
DeleteStmts ==
  /\ pc = "delete" /\ work # <<>>
  /\ IF Next1 \in freed
     THEN pc' = "undefined" /\ UNCHANGED <<work, freed>>
     ELSE /\ freed' = freed \cup {Next1}
          /\ work' = Visits(IF nodes[Next1].kind = "body" THEN stmts[Next1] ELSE nodes[Next1].kids, 0)
                       \o Tail(work)
          /\ UNCHANGED pc
  /\ UNCHANGED <<parsing, stmts, scopes, ready>>

\* ~ASTNode deletes every child.
Delete ==
  /\ pc = "delete" /\ work # <<>>
  /\ IF Next1 \in freed
     THEN pc' = "undefined" /\ UNCHANGED <<work, freed>>
     ELSE /\ freed' = freed \cup {Next1}
          /\ work' = Visits(nodes[Next1].kids, 0) \o Tail(work)
          /\ UNCHANGED pc
  /\ UNCHANGED <<parsing, stmts, scopes, ready>>

Finish ==
  /\ pc = "delete" /\ work = <<>> /\ pc' = "done"
  /\ UNCHANGED <<parsing, stmts, scopes, ready, work, freed>>

Stutter == pc \in {"undeclared", "rejected", "undefined", "done"} /\ UNCHANGED vars

Next ==
  \/ LeaveOut \/ Construct \/ ConstructLookup \/ ConstructCompound \/ ConstructFunction
  \/ TypeDef \/ TypeIdent \/ TypeBody \/ TypeOther \/ TypeCheck \/ Eliminate
  \/ Generate \/ StartDelete \/ Delete \/ Finish \/ Stutter

Spec == Init /\ [][Next]_vars

-----------------------------------------------------------------------------
\* The definitions and inputs in the scope of node n: those in front of the
\* statement that n is part of, in its body or in a body around it.
Visible(n) ==
  {d \in Of("def") :
     /\ nodes[d].name = nodes[n].name
     /\ \/ d \in DOMAIN prog.args
        \/ \E b \in Of("body") :
             d \in Kids(b) /\ \E s \in Kids(b) : n \in Tree[s] /\ d <= s}
SymOf(d) == IF d \in DOMAIN prog.args THEN d ELSE sym[d]

\* A name means the last definition in its scope, and a program is refused for
\* a name exactly when there is none, whatever was defined in bodies that were
\* left, shadowed, copied by a compound assignment or cut off (type_visitor and
\* SymbolTable work on one pass over the tree).
Lexical ==
  /\ pc = "undeclared" => Visible(Next1) = {}
  /\ pc = "eliminate" =>
       \A n \in Of("ident") : Visible(n) # {} /\ sym[n] = SymOf(Max(Visible(n)))

\* No null alloca is used: when code is generated for the use of a variable its
\* definition was generated before, and no input is assigned to.  Names are
\* resolved over the children, code is generated over what is left of the
\* statements and in another order.
UsesReady ==
  (pc = "codegen" /\ work # <<>>) =>
    LET n == Next1
    IN  /\ nodes[n].kind = "ident" => syms[sym[n]].input \/ sym[n] \in ready
        /\ nodes[n].kind = "asg" => Target(nodes[n].kids[1]) \in ready

\* No get_type throws for an expression that type_check accepted, except in the
\* length of an array that is created: type_check_visitor asks for the types of
\* some nodes only, and get_type for those of the operands.
ExpressionsTyped ==
  pc = "codegen" =>
    \A n \in Expressions \ UNION {Tree[c] \ {c} : c \in Of("create")} : TypeOf[n] # Err

\* No node is deleted twice: every node has one parent, also where compound
\* assignments have copied it.
DeletedOnce == pc # "undefined"

\* A tree that is deleted is deleted as a whole, with the statements that were
\* cut off.
AllDeleted == pc = "done" => freed = DOMAIN nodes
=============================================================================
