------------------------------ MODULE MCSeries ------------------------------
(* Instances of DeviceSeries for TLC: three rows, and masks with two bits to  *)
(* a byte, so that the last byte has a bit behind the end.                    *)
EXTENDS DeviceSeries

Column(dtype, s, contiguous) ==
  [dtype |-> dtype, values |-> [i \in 0 .. Len(s) - 1 |-> s[i + 1]], contiguous |-> contiguous]

X == Column("float32", <<NaN, 2, 3>>, FALSE)
Y == Column("float32", <<4, 5, NaN>>, FALSE)
Z == Column("float32", <<1, 0, 2>>, TRUE)
K == Column("int32", <<3, 1, 2>>, TRUE)
T == Column("datetime", <<5, 7, 9>>, FALSE)
D == Column("timedelta", <<1, 1, 2>>, TRUE)

MCFrames == {[x |-> X, y |-> Y], [x |-> X, z |-> Z], [k |-> K, z |-> Z], [t |-> T, d |-> D]}

Same == [i \in Rows |-> i]
Reversed == [i \in Rows |-> NumRows - 1 - i]

Ask(op, args, by, match) == [op |-> op, args |-> args, by |-> by, match |-> match]

Distances == {-1, 0, 1, 4}

\* min_periods as given, or the length of the window.
Windows(agg, window, min_periods) ==
  [agg |-> agg, window |-> window, min_periods |-> min_periods]

Aggregations == {"sum", "mean", "min", "max", "count"}

MCRequests ==
  {Ask("add", <<"x", "y">>, 0, Same), Ask("sub", <<"z", "x">>, 0, Same),
   Ask("lt", <<"x", "y">>, 0, Same), Ask("eq", <<"z", "x">>, 0, Reversed),
   Ask("ne", <<"z", "x">>, 0, Same),
   Ask("add", <<"k", "z">>, 0, Same), Ask("div", <<"k", "k">>, 0, Same),
   Ask("mul", <<"k", "k">>, 0, Same),
   Ask("sub", <<"t", "d">>, 0, Same), Ask("sub", <<"t", "t">>, 0, Same),
   Ask("fillna", <<"x">>, 7, Same), Ask("fillna", <<"k">>, 7, Same),
   Ask("abs", <<"k">>, 0, Same), Ask("trunc", <<"k">>, 0, Same),
   Ask("values", <<"z", "x">>, 0, Same), Ask("values", <<"z", "z">>, 0, Same)}
    \cup {Ask("rolling", <<"z">>, Windows(agg, 2, 2), Same) : agg \in Aggregations}
    \cup {Ask("rolling", <<n>>, Windows("sum", w, 1), Same) : n \in {"x", "z"}, w \in {1, 2, 4}}
    \cup {Ask("rolling", <<"z">>, Windows("mean", 3, 2), Same)}
    \cup {Ask("shift", <<n>>, p, Same) : n \in {"x", "k", "t"}, p \in Distances}

MCBinary(op, a, b) ==
  CASE op = "add" -> a + b [] op = "sub" -> a - b [] op = "mul" -> a * b
    [] op = "div" -> (10 * a) \div b
    [] op = "eq" -> (IF a = b THEN 1 ELSE 0) [] op = "ne" -> (IF a # b THEN 1 ELSE 0)
    [] op = "lt" -> (IF a < b THEN 1 ELSE 0)

MCUnary(op, a) == IF op = "abs" /\ a < 0 THEN -a ELSE a
=============================================================================
