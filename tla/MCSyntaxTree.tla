----------------------------- MODULE MCSyntaxTree -----------------------------
(***************************************************************************)
(* Instances of SyntaxTree: programs  int f(int x, string s, int[] m).     *)
(* One family puts every small expression in every place an expression     *)
(* may stand, the other nests definitions and uses of one name.            *)
(***************************************************************************)
EXTENDS SyntaxTree

int == <<"int">>
char == <<"char">>
bool == <<"bool">>
str == <<"string">>
ints == <<"arr", "int">>

Rule1(do, name, type, n) == [do |-> do, name |-> name, type |-> type, n |-> n]
Id(x) == <<Rule1("ident", x, <<>>, 0)>>
Const(type) == <<Rule1("const", "", type, 0)>>
Lookup(x, idxs) == FlattenSeq(idxs) \o <<Rule1("lookup", x, <<"">>, Len(idxs))>>
Prop(x, p) == <<Rule1("prop", x, <<p>>, 0)>>
Bin(op, a, b) == a \o b \o <<Rule1("binop", op, <<>>, 2)>>
NewArr(len) == len \o <<Rule1("create", "", ints, 1)>>

None == <<Rule1("null", "", <<>>, 0)>>
Asg(l, r) == l \o r \o <<Rule1("asg", "", <<>>, 2)>>
OpAsg(l, r) == l \o r \o <<Rule1("op=", "", <<>>, 2)>>
Inc(l) == l \o <<Rule1("++", "", <<>>, 1)>>
Def(x, type, r) == r \o <<Rule1("def", x, type, 1)>>
Ret(e) == e \o <<Rule1("return", "", <<>>, 1)>>
Jump(kind) == <<Rule1(kind, "", <<>>, 0)>>
Body(ss) == FlattenSeq(ss) \o <<Rule1("body", "", <<>>, Len(ss))>>
Pre(e) == e \o <<Rule1("precond", "", <<>>, 1)>>
If(pre, cond, then, else) == pre \o cond \o then \o else \o <<Rule1("if", "", <<>>, 4)>>
For(pre, init, cond, inc, body) ==
  pre \o init \o cond \o inc \o body \o <<Rule1("for", "", <<>>, 5)>>

Arg(x, type) == [name |-> x, type |-> type]
Args == <<Arg("x", int), Arg("s", str), Arg("m", ints)>>
Program(ret, ss) == [args |-> Args, ret |-> ret, text |-> Body(ss)]

-----------------------------------------------------------------------------
num == Const(int)
true == Const(bool)
\* int i   char c = 'a'   bool b   int[] p = int[1]
Locals == <<Def("i", int, None), Def("c", char, Const(char)), Def("b", bool, None),
            Def("p", ints, NewArr(num))>>

Atoms == {Id(x) : x \in {"x", "s", "m", "i", "c", "b", "p"}} \cup {Const(t) : t \in {int, char, bool, str}}
Few == {Id("i"), Id("c"), Id("b"), Id("s"), num, Const(str)}
Compound ==
  {Bin(op, a, b) : op \in {"+", "<", "&&", "=="}, a, b \in Few}
  \cup {Lookup(x, <<a>>) : x \in {"x", "s", "m", "p"}, a \in Few}
  \cup {Lookup(x, <<num, num>>) : x \in {"m", "s"}}
  \cup {Prop(x, q) : x \in {"x", "s", "p"}, q \in {"len", "size"}}
  \cup {NewArr(a) : a \in Few}
\* An expression inside another one.
Deep ==
  {Bin("+", num, Lookup("m", <<e>>)) : e \in {Id("i"), Lookup("p", <<num>>), Lookup("x", <<num>>)}}
  \cup {Bin("&&", Bin("<", a, num), Bin("==", Lookup("s", <<num>>), b)) : a, b \in {num, Const(char)}}
Exprs == Atoms \cup Compound \cup Deep

Places(e) ==
  {Def("r", t, e) : t \in {int, char, bool, str, ints}}
  \cup {Asg(Id(x), e) : x \in {"i", "x", "c", "p"}}
  \cup {Asg(Lookup(x, <<num>>), e) : x \in {"p", "m"}}
  \cup {OpAsg(Lookup("p", <<num>>), e), OpAsg(Id("i"), e), Ret(e),
        If(None, e, Body(<<>>), None), If(Pre(e), true, Body(<<>>), None),
        For(Pre(None), Asg(Id("i"), e), true, None, Body(<<>>)),
        For(None, None, e, Inc(Id("i")), Body(<<>>)),
        For(Pre(Bin("<", e, num)), None, true, Asg(Id("i"), e), Body(<<Jump("break")>>))}
Typed == {Program(int, Locals \o <<s, Ret(Id("i"))>>) : s \in UNION {Places(e) : e \in Exprs}}

-----------------------------------------------------------------------------
y == Id("y")
\* Definitions and uses of y and x, compound ones among them.
Uses == {Def("y", int, None), Def("y", int, y), Def("x", int, y), Asg(y, Id("x")), Inc(y),
         OpAsg(Lookup("y", <<Lookup("m", <<Id("x")>>)>>), num)}
Inner == {<<>>} \cup {<<s>> : s \in Uses} \cup {<<s, t>> : s, t \in Uses}
           \cup {<<s, j, t>> : s, t \in Uses, j \in {Ret(num), Jump("continue")}}
Blocks(in) ==
  {For(Pre(Bin("<", y, num)), Asg(y, num), Bin("<", y, num), Inc(y), Body(in)),
   For(None, None, true, None, Body(<<If(None, true, Body(<<Jump("break")>>), Body(in))>>))}
Scopes ==
  {Program(int, <<s, b, t, Ret(Id("x"))>>) :
     s \in {Def("y", int, None), Def("y", ints, NewArr(num)), Def("x", int, None)},
     b \in UNION {Blocks(in) : in \in Inner}, t \in Uses}

MCPrograms == Typed \cup Scopes

\* int[] p = int[128]   p[s[x] - 'a']++
CountChars ==
  {Program(int, Locals \o <<st, Ret(Id("i"))>>) :
     st \in {Inc(Lookup("p", <<Bin("+", e, Const(char))>>)) : e \in {Lookup("s", <<Id("x")>>), Const(char)}}}
=============================================================================
