------------------------------ MODULE MCReduce ------------------------------
(* Instances of DeferredReduction for TLC: GPUs of four threads with two     *)
(* reads, or two threads with one; SIMD-groups of two.                       *)
EXTENDS DeferredReduction

Newer == [threads |-> 4, reads |-> 2]
Older == [threads |-> 2, reads |-> 1]
Lowest == -9

Machine(f, m) == [family |-> f, metallib |-> m]

\* Binaries that load have the tuning of older GPUs.
MCMachines ==
  {Machine("apple7", "absent"), Machine("apple9", "refused"), Machine("unknown", "loads")}
LoadingBinary == {Machine("apple7", "loads")}

Column(s) == [i \in 0 .. Len(s) - 1 |-> s[i + 1]]

Plain(o, d, s) == [op |-> o, dtype |-> d, values |-> Column(s), valid |-> 0 .. Len(s) - 1]
Nullable(o, s, v) == [op |-> o, dtype |-> "float32", values |-> Column(s), valid |-> v]

\* Nine elements take two passes of the newer tuning, and four of the older one.
Nine == <<3, 1, 2, 0, 3, 2, 1, -1, 2>>

MCRequests ==
  {Plain(o, "float32", Nine) : o \in {"sum", "min", "max", "mean"}}
    \cup {Plain(o, "int8", Nine) : o \in {"sum", "max"}}
    \cup {Plain("sum", "int64", Nine), Plain("min", "int64", <<2, 1, 3>>),
          Plain("mean", "uint32", <<3, 3, 2>>)}
    \cup {Nullable("mean", Nine, {0, 4, 7}), Nullable("sum", Nine, {8}),
          Nullable("min", <<0, 0, 3>>, {2}), Nullable("max", <<0, 0>>, {})}
    \cup {Plain("sum", "datetime", <<1, 2>>), Plain("max", "float32", << >>),
          Plain("sum", "int8", << >>)}

-----------------------------------------------------------------------------
MCBinary(op, a, b) ==
  IF a = NaN \/ b = NaN THEN NaN
  ELSE CASE op = "add" -> a + b [] op = "sub" -> a - b [] op = "mul" -> a * b

MCUnary(op, a) ==
  IF a = NaN THEN NaN
  ELSE CASE op = "neg" -> 0 - a [] op = "abs" -> (IF a < 0 THEN 0 - a ELSE a)
         [] op = "sin" -> (a * a) % 3

\* One unit is half of the eighth decimal.
MCFormatted(v) == v - (v % 2)

A == LoadColumn("a")
B == LoadColumn("b")

Work(o, t, x, y, n) ==
  [op |-> o, tree |-> t, columns |-> [a |-> Column(x), b |-> Column(y)], size |-> n]

Trees ==
  {BinaryOp("sub", A, UnaryOp("neg", B)), BinaryOp("sub", BinaryOp("mul", B, A), B),
   BinaryOp("sub", LoadScalar(2), BinaryOp("sub", A, B)), UnaryOp("abs", BinaryOp("sub", B, A))}

MCJobs ==
  {Work(o, t, <<3, 1, 2, 0, 3>>, <<1, 2, 2, 0, 1>>, 5) :
     o \in {"values", "sum", "min", "mean"}, t \in Trees}
    \cup {Work("values", UnaryOp("sin", BinaryOp("add", A, B)), <<2, 1>>, <<1, 1>>, 2),
          Work("max", BinaryOp("sub", A, B), <<NaN, 1, 2>>, <<1, NaN, 3>>, 3),
          Work("values", BinaryOp("add", A, B), << >>, << >>, 0),
          Work("sum", A, <<1, 2>>, <<0, 0>>, 2)}
    \cup {[op |-> o, tree |-> BinaryOp("add", BinaryOp("add", A, B), LoadColumn("c")), size |-> 1,
            columns |-> [s \in {"a", "b", "c"} |-> Column(<<1>>)]] : o \in {"values", "max"}}

NoRequests == {}
NoJobs == {}

\* A sum over an operator of one interpreter only.
SumOfSine == {Work("sum", UnaryOp("sin", BinaryOp("add", A, B)), <<2, 1>>, <<1, 1>>, 2)}
=============================================================================
