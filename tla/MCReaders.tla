------------------------------ MODULE MCReaders -----------------------------
(* Small instances of SysparamReaders for TLC.                             *)
EXTENDS SysparamReaders, TLC

CONSTANTS a, b, v, w

TwoKeys == {a, b}
TwoValues == {v, w}
UnitKeyLen == [k \in Keys |-> 1]
UnitValLen == [y \in Values |-> 1]
LongValLen == [y \in Values |-> 3]

\* Keys are interchangeable, and so are values.
Symmetry == {p @@ q : p \in Permutations(Keys), q \in Permutations(Values)}

=============================================================================
