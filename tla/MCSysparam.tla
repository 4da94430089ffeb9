----------------------------- MODULE MCSysparam -----------------------------
(* Small instances of Sysparam for TLC.                                    *)
EXTENDS Sysparam, TLC

CONSTANTS a, b, c, v, w

TwoKeys == {a, b}
ThreeKeys == {a, b, c}
TwoValues == {v, w}

\* Every payload takes one word.
UnitKeyLen == [k \in Keys |-> 1]
UnitValLen == [y \in Values |-> 1]

\* A value too long to fit beside its own key.
HugeValLen == [y \in Values |-> IF y = w THEN 6 ELSE 1]

\* The second value is a word longer than the first.
MixedValLen == [y \in Values |-> IF y = w THEN 2 ELSE 1]

\* Keys of one length are interchangeable, and so are values of one length.
Symmetry == {p @@ q : p \in Permutations(Keys), q \in Permutations(Values)}
=============================================================================
