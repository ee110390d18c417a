--------------------------- MODULE MCHashGroupBy ---------------------------
(* Instances of HashGroupBy for TLC: words of four bits, int32 keys that lie *)
(* half a word lower, NaN a number outside of both.                          *)
EXTENDS HashGroupBy

MCEmpty == 15

MCKeys == {-5, -1, 0, 3, 4, 100}

MCPowers == {1, 2, 4, 8, 16}

\* as_type<uint>(i) ^ 0x80000000, with four bits; a NaN lies behind +inf.
ToKey == [k \in Keys |-> IF k = 100 THEN 14 ELSE k + 8]

Itself == [k \in Keys |-> k]

R(k, v) == [key |-> k, val |-> v]

Input(rs, m, f) == [rows |-> rs, masked |-> m, isFloat |-> f]

\* Keys -5 and 3 share a home slot in every table of up to eight slots, -1 and 3
\* the last one of a table of four.  The sums of the int32 columns stay within
\* the width.
IntRows ==
  {<<R(-5, 1), R(3, -2), R(-5, -2)>>, <<R(3, 2), R(3, 1), R(3, 2)>>,
   <<R(-1, 1), R(3, 2)>>, << >>}

FloatRows == {<<R(3, 2), R(3, -2), R(3, 1)>>, <<R(-1, 2), R(3, 1), R(-1, 1)>>}

\* Missing keys and values, but no group without a value.  They carry masks: the
\* engine is called with series made with nulls.
NullRows ==
  {<<R(100, 1), R(3, 2), R(3, 1)>>, <<R(3, 1), R(3, 100), R(4, 2)>>, <<R(100, 1)>>}

MCInputs ==
  {Input(rs, FALSE, FALSE) : rs \in IntRows}
    \cup {Input(rs, FALSE, TRUE) : rs \in FloatRows}
    \cup {Input(rs, TRUE, TRUE) : rs \in NullRows}

SameKey == {Input(<<R(3, 1), R(3, 1)>>, FALSE, FALSE)}

\* The DataFrame's group-by: a missing value, and a missing key, without a mask.
BareNull == {Input(<<R(3, 1), R(3, 100)>>, FALSE, TRUE), Input(<<R(3, 1), R(100, 2)>>, FALSE, TRUE)}

AllNull == {Input(<<R(3, 1), R(0, 100)>>, TRUE, TRUE)}
=============================================================================
