---------------------------- MODULE MCAllocTable ----------------------------
(***************************************************************************)
(* Instances of AllocTable: a few addresses that malloc reuses, one string *)
(* literal, arrays of at most two elements.                                *)
(***************************************************************************)
EXTENDS AllocTable

CONSTANTS a1, a2, lit, v1, v2, garbage

TwoAddrs == {a1, a2}
OneLiteral == {lit}
MCLitLen == [l \in OneLiteral |-> 2]
TwoLocals == {v1, v2}
Short == {-1, 0, 1, 2}
=============================================================================
