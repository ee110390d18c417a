------------------------- MODULE MCStreamCompaction -------------------------
(* Instances of StreamCompaction for TLC: NaN is a number outside of the    *)
(* values.                                                                  *)
EXTENDS StreamCompaction

\* A column of 64-bit numbers, or of floats: sums wrap, here and in pandas.
Run(o, c, s) == [op |-> o, column |-> c, size |-> s, acc |-> Word]

\* A column of narrow integers, whose sums pandas widens.
NarrowSum(c, s) == [op |-> "sum", column |-> c, size |-> s, acc |-> 8 * Word]

\* Five cells in groups of two take three levels, of five, three and two cells;
\* of seven cells, two groups of partials take their prefixes from a third level.
Deep ==
  {Run("sum", <<2, 3, 1, 1, 3, 2, 1>>, 2), Run("min", <<3, 2, 3, 1, 2>>, 2),
   Run("max", <<1, 0, 2, 1, 3>>, 2), Run("ffill", <<1, 9, 9, 9, 9>>, 2),
   Run("ffill", <<9, 2, 9, 9, 3>>, 2), Run("compact", <<0, 1, 1, 0, 1>>, 2),
   Run("compact", <<0, 0, 0, 0, 0>>, 2)}

\* A group of four takes two rounds, one of eight takes three.
Wide ==
  {Run("sum", <<1, 2, 0, 1, 3, 1, 2>>, 8), Run("sum", <<1, 2, 3, 1>>, 4),
   Run("ffill", <<9, 1, 9>>, 4), Run("max", <<0, 2, 1, 3>>, 4), NarrowSum(<<1, 1, 2, 2, 1>>, 4)}

\* Mirrored, with a valid value in every group or in one group alone.
Backward ==
  {Run("bfill", <<9, 1, 9>>, 4), Run("bfill", <<9, 1, 9, 2>>, 2),
   Run("bfill", <<9, 9, 9, 2>>, 2)}

NoRows == {Run("sum", << >>, 2), Run("compact", << >>, 2)}

MCCalls == Deep \cup Wide \cup Backward \cup NoRows

\* The sum of narrow integers that does not fit their width.
Overflowing == {NarrowSum(<<3, 3, 3>>, 2)}

\* The last group has no valid value, the one before it has.
MissingTail == {Run("bfill", <<1, 9, 9, 9>>, 2)}
=============================================================================
