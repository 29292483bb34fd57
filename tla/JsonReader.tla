------------------------------ MODULE JsonReader ------------------------------
(***************************************************************************)
(* What a reader of JSON (RFC 8259) makes of a text, given as a sequence   *)
(* of tokens without blanks: punctuation, quotes, the characters of        *)
(* strings, whole numbers and literals.  It is the measure for what d_gen  *)
(* prints, and is written without looking at how d_gen prints it.          *)
(*                                                                         *)
(* A value is [num |-> text], [lit |-> text], [str |-> characters],        *)
(* [arr |-> values] or [obj |-> a function on names], the last member of a *)
(* name being the one that counts.                                         *)
(***************************************************************************)
EXTENDS Integers, Sequences

CONSTANTS Numbers,  \* the tokens that are numbers
          Control   \* the characters that may not stand in a string

Quote == "\""
Escape == "\\"
Literal == {"true", "false", "null"}
\* What an escape and a character stand for.
Escapable == {Quote, Escape}

\* A result [at, val]: the reading goes on at token at, 0 if it has failed.
Fail == [at |-> 0, val |-> [lit |-> "null"]]
Got(at, val) == [at |-> at, val |-> val]

Token(t, i) == IF i \in 1 .. Len(t) THEN t[i] ELSE "end"

\* The rest of a string of which s has been read.
RECURSIVE Characters(_, _, _)
Characters(t, i, s) ==
  LET c == Token(t, i)
  IN  IF c = Quote THEN Got(i + 1, [str |-> s])
      ELSE IF c = Escape
           THEN IF Token(t, i + 1) \in Escapable
                THEN Characters(t, i + 2, Append(s, t[i + 1])) ELSE Fail
      ELSE IF i > Len(t) \/ c \in Control THEN Fail
      ELSE Characters(t, i + 1, Append(s, c))

RECURSIVE Value(_, _), Elements(_, _, _), Members(_, _, _)

\* The rest of an array of which a has been read.
Elements(t, i, a) ==
  LET v == Value(t, i)
  IN  IF v.at = 0 THEN Fail
      ELSE CASE Token(t, v.at) = "," -> Elements(t, v.at + 1, Append(a, v.val))
             [] Token(t, v.at) = "]" -> Got(v.at + 1, [arr |-> Append(a, v.val)])
             [] OTHER -> Fail

\* The rest of an object of which o has been read.
Members(t, i, o) ==
  LET n == IF Token(t, i) = Quote THEN Characters(t, i + 1, <<>>) ELSE Fail
      v == IF n.at # 0 /\ Token(t, n.at) = ":" THEN Value(t, n.at + 1) ELSE Fail
  IN  IF v.at = 0 THEN Fail
      ELSE LET with == [x \in DOMAIN o \cup {n.val.str} |->
                          IF x = n.val.str THEN v.val ELSE o[x]]
           IN  CASE Token(t, v.at) = "," -> Members(t, v.at + 1, with)
                 [] Token(t, v.at) = "}" -> Got(v.at + 1, [obj |-> with])
                 [] OTHER -> Fail

Value(t, i) ==
  LET c == Token(t, i)
  IN  CASE c = Quote -> Characters(t, i + 1, <<>>)
        [] c \in Numbers -> Got(i + 1, [num |-> c])
        [] c \in Literal -> Got(i + 1, [lit |-> c])
        [] c = "[" -> IF Token(t, i + 1) = "]" THEN Got(i + 2, [arr |-> <<>>])
                      ELSE Elements(t, i + 1, <<>>)
        [] c = "{" -> IF Token(t, i + 1) = "}" THEN Got(i + 2, [obj |-> <<>>])
                      ELSE Members(t, i + 1, <<>>)
        [] OTHER -> Fail

\* The value that the whole text is; none if it is no JSON.
Read(t) == LET v == Value(t, 1) IN IF v.at = Len(t) + 1 THEN v.val ELSE Fail.val
=============================================================================
