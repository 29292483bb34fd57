-------------------------------- MODULE Output --------------------------------
(***************************************************************************)
(* What the user gets: the command line (tool/main.cpp), the loop over the *)
(* tests and the JSON text (DGen.cpp generate_json, gather_res and         *)
(* gather_rec; serialize in Symbol.cpp).                                   *)
(*                                                                         *)
(* How a run comes to the values it reads is in Concolic, how it fails in  *)
(* Concolic, AllocTable and Conditions: here a run gives some symbols any  *)
(* value they can have, then returns any result of the function's type, or *)
(* throws.  A text is a sequence of tokens, see JsonReader; line breaks    *)
(* and tabs between them are left out.                                     *)
(***************************************************************************)
EXTENDS SymbolTree, SequencesExt, TLC

CONSTANTS Programs,      \* records [name, args]: the d_gen functions
          Name,          \* the name of each input, as characters
          Texts,         \* the inputs whose scalars are strings: the last
                         \* dimension of such an input is that of its characters
          Chars,         \* the character of each number a char can be
          Control,       \* the characters JSON asks to be escaped as \u..
          KnownVals,     \* what a run may give a scalar of each kind
          Results,       \* Results[p]: what p may return
          CommandLines   \* sequences of options [opt, val]

ASSUME OutputAssumption ==
  /\ Texts \subseteq {i \in Inputs : Depth[i] > 0 /\ Kind[i] = "char"}
  /\ KnownVals \in [Kinds -> SUBSET Int]
  /\ \A k \in Kinds : RandVals[k] \subseteq KnownVals[k]
  /\ \A p \in Programs : p.args \in Seq(Inputs) /\ Len(p.args) > 0

VARIABLES pc,       \* args, build, run, gather, reset, report, exit
          prog,     \* the program
          num,      \* tests_num
          binding,  \* the values the symbols of the inputs have
          result,   \* what the run returned
          text,     \* the members of the test gathered so far
          tests,    \* DGen::tests
          runs,     \* history: the values and results behind them
          out       \* what is printed

test == <<binding, result, text>>
vars == <<pc, prog, num, test, tests, runs, out>>

Quote == "\""
NoResult == [lit |-> "null"]
Printed(kind, t) == [kind |-> kind, text |-> t]

-----------------------------------------------------------------------------
(* Texts of values *)

Quoted(s) == <<Quote>> \o s \o <<Quote>>
Join(ts, sep) == FoldLeft(LAMBDA t, u : IF t = <<>> THEN u ELSE t \o sep \o u, <<>>, ts)

\* serialize() of the symbol s: a char is written as a signed number, a string
\* character by character, as they are.
IsString(s) == s.in \in Texts /\ Len(s.path) = Depth[s.in] - 1
Element(s, i) == [s EXCEPT !.path = Append(@, i - 1)]

ScalarText(kind, v) ==
  IF kind = "bool" THEN <<IF v = 1 THEN "true" ELSE "false">> ELSE <<ToString(v)>>

\* An array is written with a comma after each element; then the last
\* character, a comma unless there was no element, is replaced.
ListText(ts) ==
  LET all == FoldLeft(LAMBDA t, u : t \o u \o <<",">>, <<"[">>, ts)
  IN  [all EXCEPT ![Len(all)] = "]"]

RECURSIVE SymbolText(_)
SymbolText(s) ==
  IF ~IsArray(s) THEN ScalarText(Kind[s.in], binding[s])
  ELSE IF IsString(s) THEN Quoted([i \in 1 .. binding[s] |-> Chars[binding[Element(s, i)]]])
  ELSE ListText([i \in 1 .. binding[s] |-> SymbolText(Element(s, i))])

\* gather_rec of a value [int], [char], [bool], [string] or [array]; the byte
\* of a char is read unsigned and written as a signed char.
Signed(ch) == IF ch < Half["char"] THEN ch ELSE ch - 2 * Half["char"]

RECURSIVE ResultText(_)
ResultText(v) ==
  CASE DOMAIN v = {"int"}    -> ScalarText("int", v.int)
    [] DOMAIN v = {"char"}   -> ScalarText("char", Signed(v.char))
    [] DOMAIN v = {"bool"}   -> ScalarText("bool", v.bool)
    [] DOMAIN v = {"string"} -> Quoted([i \in DOMAIN v.string |-> Chars[Signed(v.string[i])]])
    [] DOMAIN v = {"array"}  ->
         <<"[">> \o Join([i \in DOMAIN v.array |-> ResultText(v.array[i])], <<",">>) \o <<"]">>

Member(name, t) == Quoted(name) \o <<":">> \o t

\* Mutant of Report: a comma after every test.
ReportTrailingComma(ts) ==
  <<"{">> \o Member(<<"tests">>, <<"[">> \o FlattenSeq([k \in DOMAIN ts |-> Append(ts[k], ",")])
                              \o <<"]">>) \o <<"}">>

\* The tests, a comma after each but the last.
Report(ts) == <<"{">> \o Member(<<"tests">>, <<"[">> \o Join(ts, <<",">>) \o <<"]">>) \o <<"}">>

-----------------------------------------------------------------------------
(* The command line *)

Given(args, opt) == {j \in DOMAIN args : args[j].opt = opt}
\* The last one counts.
Option(args, opt) ==
  args[CHOOSE j \in Given(args, opt) : \A k \in Given(args, opt) : k <= j].val

Init ==
  /\ pc = "args" /\ prog \in Programs /\ num = 0
  /\ binding = NoBinding /\ result = NoResult /\ text = <<>>
  /\ tests = <<>> /\ runs = <<>> /\ out = Printed("none", <<>>)

\* parse_args and the checks of main; an option that is not known is passed
\* over.  Without a path or a number the usage is printed, a file that cannot
\* be read is an exception.
ParseArgs(args) ==
  /\ pc = "args"
  /\ IF Given(args, "f") = {} \/ Given(args, "n") = {}
     THEN pc' = "exit" /\ out' = Printed("usage", <<>>) /\ UNCHANGED num
     ELSE IF Option(args, "f") = "missing"
     THEN pc' = "exit" /\ out' = Printed("error", <<>>) /\ UNCHANGED num
     ELSE pc' = "build" /\ num' = Option(args, "n") /\ UNCHANGED out
  /\ UNCHANGED <<prog, test, tests, runs>>

\* Mutant of NextRun: the loop runs once more.
NextRunOneMore(n) == IF n <= num THEN "run" ELSE "report"

\* The loop over the tests, n of which are there.
NextRun(n) == IF n < num THEN "run" ELSE "report"

\* The program is compiled, or a BuildError or another exception is reported;
\* then tests.reserve(tests_num) throws for a negative number.
Build(kind) ==
  /\ pc = "build"
  /\ IF kind # "built" \/ num < 0
     THEN pc' = "exit" /\ out' = Printed(IF kind = "built" THEN "error" ELSE kind, <<>>)
     ELSE pc' = NextRun(0) /\ UNCHANGED out
  /\ UNCHANGED <<prog, num, test, tests, runs>>

Arguments == ToSet(prog.args)

\* A symbol that has no value yet, and one it can get.
Draw(vals, i) ==
  \E s \in Frontier(binding, Root(i)) :
    \E v \in IF IsArray(s) THEN RandLens ELSE vals[Kind[s.in]] :
       binding' = Assign(binding, s, v)

\* The run reads an input, or the solver gives it a value.
Learn ==
  /\ pc = "run"
  /\ \E i \in Arguments : Draw(KnownVals, i)
  /\ UNCHANGED <<pc, prog, num, result, text, tests, runs, out>>

\* Mutant of Throw: the tests there are are printed.
ThrowKeepsTests ==
  /\ pc = "run"
  /\ pc' = "exit" /\ out' = Printed("tests", Report(tests))
  /\ UNCHANGED <<prog, num, test, tests, runs>>

\* The run throws: main prints the message and no test.
Throw ==
  /\ pc = "run"
  /\ pc' = "exit" /\ out' = Printed("error", <<>>)
  /\ UNCHANGED <<prog, num, test, tests, runs>>

\* The run returns v: gather_res is called.
Return(v) ==
  /\ pc = "run"
  /\ pc' = "gather" /\ result' = v
  /\ UNCHANGED <<prog, num, binding, text, tests, runs, out>>

\* The input whose member is written next.
Input == prog.args[Len(text) + 1]
Writing == pc = "gather" /\ Len(text) < Len(prog.args)

\* Serializing it generates what the run left open ...
Force ==
  /\ Writing /\ Draw(RandVals, Input)
  /\ UNCHANGED <<pc, prog, num, result, text, tests, runs, out>>

\* ... and writes its member of the test.
WriteInput ==
  /\ Writing /\ Frontier(binding, Root(Input)) = {}
  /\ text' = Append(text, Member(Name[Input], SymbolText(Root(Input))))
  /\ UNCHANGED <<pc, prog, num, binding, result, tests, runs, out>>

\* The result comes last, under the name of the function.
WriteResult ==
  /\ pc = "gather" /\ ~Writing
  /\ tests' = Append(tests, <<"{">> \o Join(Append(text, Member(prog.name, ResultText(result))),
                                            <<",">>) \o <<"}">>)
  /\ runs' = Append(runs, [binding |-> binding, result |-> result])
  /\ text' = <<>>
  /\ pc' = "reset"
  /\ UNCHANGED <<prog, num, binding, result, out>>

\* DGen::reset, and the next turn of the loop.
Reset ==
  /\ pc = "reset"
  /\ binding' = NoBinding /\ result' = NoResult
  /\ pc' = NextRun(Len(tests))
  /\ UNCHANGED <<prog, num, text, tests, runs, out>>

\* generate_json returns and main prints.
Show ==
  /\ pc = "report"
  /\ pc' = "exit" /\ out' = Printed("tests", Report(tests))
  /\ UNCHANGED <<prog, num, test, tests, runs>>

Done == pc = "exit" /\ UNCHANGED vars

Next ==
  \/ \E args \in CommandLines : ParseArgs(args)
  \/ \E kind \in {"built", "errors", "error"} : Build(kind)
  \/ Learn \/ Throw
  \/ \E v \in Results[prog] : Return(v)
  \/ Force \/ WriteInput \/ WriteResult \/ Reset \/ Show \/ Done

Spec == Init /\ [][Next]_vars

-----------------------------------------------------------------------------
(* What the printed text should mean *)

Numbers == {ToString(n) : n \in -2 * Half["int"] .. 2 * Half["int"]}
Reader == INSTANCE JsonReader

ScalarMeaning(kind, v) ==
  IF kind = "bool" THEN [lit |-> IF v = 1 THEN "true" ELSE "false"] ELSE [num |-> ToString(v)]

\* The value of the symbol s in b.
RECURSIVE Meaning(_, _)
Meaning(b, s) ==
  IF ~IsArray(s) THEN ScalarMeaning(Kind[s.in], b[s])
  ELSE IF IsString(s) THEN [str |-> [i \in 1 .. b[s] |-> Chars[b[Element(s, i)]]]]
  ELSE [arr |-> [i \in 1 .. b[s] |-> Meaning(b, Element(s, i))]]

RECURSIVE ResultMeaning(_)
ResultMeaning(v) ==
  CASE DOMAIN v = {"int"}    -> ScalarMeaning("int", v.int)
    [] DOMAIN v = {"char"}   -> ScalarMeaning("char", Signed(v.char))
    [] DOMAIN v = {"bool"}   -> ScalarMeaning("bool", v.bool)
    [] DOMAIN v = {"string"} -> [str |-> [i \in DOMAIN v.string |-> Chars[Signed(v.string[i])]]]
    [] DOMAIN v = {"array"}  -> [arr |-> [i \in DOMAIN v.array |-> ResultMeaning(v.array[i])]]

\* The members of a test: every input and the result, by name.
Facts(r) ==
  {<<Name[i], Meaning(r.binding, Root(i))>> : i \in Arguments}
    \cup {<<prog.name, ResultMeaning(r.result)>>}
\* No two members of one name differ.
Unambiguous(r) == \A m, n \in Facts(r) : m[1] = n[1] => m[2] = n[2]
\* The object v holds just the members of the test.
Recovers(v, r) ==
  /\ DOMAIN v = {"obj"} /\ DOMAIN v.obj = {m[1] : m \in Facts(r)}
  /\ \A m \in Facts(r) : v.obj[m[1]] = m[2]

\* No empty array that is no string among the inputs.
NoEmptyList(b) == \A s \in DOMAIN b : IsArray(s) /\ ~IsString(s) => b[s] # 0

\* No character in a string that JSON wants escaped.
Special == {Quote, "\\"} \cup Control
RECURSIVE NoSpecial(_)
NoSpecial(m) ==
  CASE DOMAIN m = {"str"} -> \A i \in DOMAIN m.str : m.str[i] \notin Special
    [] DOMAIN m = {"arr"} -> \A i \in DOMAIN m.arr : NoSpecial(m.arr[i])
    [] OTHER -> TRUE

Writable(r) ==
  Unambiguous(r) /\ NoEmptyList(r.binding) /\ \A m \in Facts(r) : NoSpecial(m[2])

-----------------------------------------------------------------------------
\* The state the variables range over.
TypeOK ==
  /\ pc \in {"args", "build", "run", "gather", "reset", "report", "exit"}
  /\ prog \in Programs /\ num \in Int
  /\ IsBinding(binding) /\ Closed(binding)
  /\ result \in Results[prog] \cup {NoResult}
  /\ Len(text) <= Len(prog.args)
  /\ Len(tests) = Len(runs) /\ (pc \notin {"reset", "report", "exit"} => Len(tests) < num \/ num <= 0)
  /\ out.kind \in {"none", "usage", "errors", "error", "tests"}

\* A reader of the report finds the values behind the tests, all of them and
\* nothing else, exactly when every test could be written: one empty list, one
\* character to be escaped or one name used for two values spoils it
\* (serialize, gather_rec, gather_res, generate_json).
ReadsBack ==
  out.kind = "tests" =>
    LET v == Reader!Read(out.text)
        list == v.obj[<<"tests">>].arr
        recovered ==
          /\ DOMAIN v = {"obj"} /\ Len(list) = Len(runs)
          /\ \A k \in DOMAIN runs : Recovers(list[k], runs[k])
    IN  recovered <=> \A k \in DOMAIN runs : Writable(runs[k])

\* The tests are printed exactly when all that were asked for have been run: a
\* generation that fails in the middle shows none, and none are made up for a
\* number that is negative (DGen.cpp generate_json, main.cpp main).
AllOrNothing ==
  /\ out.kind = "tests" => Len(runs) = num
  /\ pc = "exit" /\ num > 0 /\ Len(runs) = num => out.kind = "tests"
=============================================================================
