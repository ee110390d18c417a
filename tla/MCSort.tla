------------------------------- MODULE MCSort -------------------------------
(* Instances of DeviceSort for TLC: digits of two bits, so words of 4 and of *)
(* 16 patterns.  Columns with NaN, argsort of columns with the largest word  *)
(* and radix sorts of one pass are left to runs of their own.                *)
EXTENDS DeviceSort

Call(o, d, w, v, m, l) ==
  [op |-> o, dtype |-> d, words |-> w, valid |-> v, bitonic_max_n |-> m,
   local_sort_stages |-> l]

Network(o, d, w, l) == Call(o, d, w, DOMAIN w, 99, l)

Radixed(o, d, w) == Call(o, d, w, DOMAIN w, 1, 1)

Rotated(w, k) == [i \in DOMAIN w |-> w[((i + k) % Len(w)) + 1]]

\* Words of two kinds suffice for a network; up to eight cells in blocks of two,
\* or of four, take up to two stages over the column.
Networks ==
  {Network("sort", "int32", w, 1) : w \in UNION {[1 .. n -> {3, 12}] : n \in {0, 1, 4}}}
    \cup {Network("sort", "int8", Rotated(<<0, 3, 3, 2, 1, 3, 0, 2>>, k), 1) : k \in 0 .. 2}
    \cup {Network("sort", "uint8", Rotated(w, k), 2) :
            w \in {<<0, 3, 3, 0, 1, 3, 0>>, <<1, 2, 3, 1, 2>>}, k \in 0 .. 3}
    \cup {Network("argsort", "int32", w, 1) : w \in [1 .. 3 -> {0, 6, 15}]}

\* Nulls among infinities of both signs and zeros of both signs.
Nulls ==
  {Call("sort", "float32", w, v, m, 1) :
     w \in {<<6, 0, 8>>, <<14, 9, 6>>, <<0, 0, 0>>}, v \in SUBSET (1 .. 3), m \in {1, 99}}

\* Two digits that disagree, equal words, and the largest word beside padding.
Scatters ==
  {Radixed(o, d, w) : o \in {"sort", "argsort"}, d \in {"int32", "float32"},
                      w \in {<<6, 9, 1>>, <<12, 3, 12, 4>>}}
    \cup {Radixed("argsort", "int32", <<7, 8, 7>>), Radixed("argsort", "float32", <<6, 14, 6>>)}

MCRequests == Networks \cup Nulls \cup Scatters

\* The largest word beside padding, in a network; one pass; NaN.
LargestWord == {Network("argsort", "uint8", <<3, 0, 1>>, 2)}
OnePass == {Radixed("sort", "int8", <<1, 0>>)}
WithNaN == {Radixed("sort", "float32", <<7, 0, 1>>)}
=============================================================================
