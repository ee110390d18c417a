----------------------------- MODULE FrameData -----------------------------
(***************************************************************************)
(* The data the data-frame modules share: columns, series with their       *)
(* index, element-wise expressions and pandas' alignment by label.         *)
(*                                                                         *)
(* A column is the sequence of its values, one per row of the frame; a     *)
(* ProxySeries is a value sequence with the labels of its rows.  What an   *)
(* expression computes in one row is the constant Apply: only the way the  *)
(* program moves series and expressions around is modelled here.           *)
(***************************************************************************)
EXTENDS Integers, Sequences, FiniteSets

CONSTANTS
  Cols,         \* column names the user works with
  Vals,         \* element values, NaN and Junk among them
  NaN,          \* the missing value
  Junk,         \* what a kernel reads behind the end of an input buffer
  Absent,       \* stands for "no such column"
  Index,        \* the row labels of the frame
  Fns,          \* arithmetic expressions, up to their input columns
  Apply,        \* Apply[f][args]: the value of expression f in one row
  MaxLoads      \* largest number of LoadColumn leaves of one expression

NumRows == Len(Index)

\* A default pandas RangeIndex of n rows.
RangeIndex(n) == [i \in 1 .. n |-> i - 1]

Content == [1 .. NumRows -> Vals]

Column == Content \cup {Absent}

Frames == [Cols -> Column]

\* Mutant: the values are stored by position, whatever their labels.
Unaligned(s) == s.val

(***************************************************************************)
(* pd.DataFrame.__setitem__ with a Series: its rows are matched to those   *)
(* of the frame by label, and a label the series lacks becomes NaN.        *)
(***************************************************************************)
Reindex(s) ==
  [i \in 1 .. NumRows |->
     IF \E j \in DOMAIN s.val : s.idx[j] = Index[i]
       THEN s.val[CHOOSE j \in DOMAIN s.val : s.idx[j] = Index[i]]
       ELSE NaN]

\* What the leaves of an expression can be in one row.
Args == UNION {[1 .. n -> Vals] : n \in 1 .. MaxLoads}

\* Thread i of a kernel reads element i of an input buffer; nothing checks
\* that the buffer is that long.
Load(s, i) == IF i \in DOMAIN s.val THEN s.val[i] ELSE Junk

\* Expression f over the series ins, computed in rows 1..n.
Evaluate(f, ins, n) ==
  [i \in 1 .. n |-> Apply[f][[k \in DOMAIN ins |-> Load(ins[k], i)]]]

\* Expression f over the series ins as pandas stores it: an operation matches
\* its operands by label, and a row one of them lacks is missing.
EagerColumn(f, ins) ==
  [i \in 1 .. NumRows |-> Apply[f][[k \in DOMAIN ins |-> Reindex(ins[k])[i]]]]

(* What a call returned to the user. *)
None == [kind |-> "none"]
Raised == [kind |-> "raised"]
ColumnRet(v) == [kind |-> "column", value |-> v]
FrameRet(f) == [kind |-> "frame", value |-> f]

ASSUME DataAssumption ==
  /\ MaxLoads \in Nat \ {0}
  /\ NaN \in Vals /\ Junk \in Vals
  /\ Index \in Seq(Int)
  /\ \A i, j \in 1 .. Len(Index) : Index[i] = Index[j] => i = j
  /\ Absent \notin Content
  /\ Apply \in [Fns -> [Args -> Vals]]
  /\ \A f \in Fns, args \in Args :
       (\E k \in DOMAIN args : args[k] = NaN) => Apply[f][args] = NaN
=============================================================================
