----------------------------- MODULE TestOracle -----------------------------
(***************************************************************************)
(* What generating tests promises, whatever reads the inputs and in        *)
(* whatever order: within one test a symbol gets its value once and keeps  *)
(* it, a test is written only when every symbol of every input has a value *)
(* and with these very values, and the next test starts from nothing.      *)
(***************************************************************************)
EXTENDS SymbolTree

VARIABLES known,     \* the values given out for the current test
          emitted,   \* the current test has been written
          tests      \* the tests written so far

vars == <<known, emitted, tests>>

Init == known = NoBinding /\ emitted = FALSE /\ tests = <<>>

Learn ==
  /\ ~emitted
  /\ Extends(known', known)
  /\ UNCHANGED <<emitted, tests>>

Emit ==
  /\ ~emitted
  /\ Complete(known)
  /\ tests' = Append(tests, known)
  /\ emitted' = TRUE
  /\ UNCHANGED known

Forget ==
  /\ emitted
  /\ known' = NoBinding
  /\ emitted' = FALSE
  /\ UNCHANGED tests

Next == Learn \/ Emit \/ Forget

Spec == Init /\ [][Next]_vars
=============================================================================
