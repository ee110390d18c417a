--------------------------- MODULE SequentialScan ---------------------------
(***************************************************************************)
(* What pandas answers to s.cumsum(), cummin(), cummax(), ffill(), bfill() *)
(* and s[mask]: one sequence, computed from the column by its definition.  *)
(* A filtered series is given by the numbers of the rows that are kept.    *)
(* call.acc is the width np.cumsum adds up in: that of the dtype when it   *)
(* has 64 bits, and 64 bits when it is a narrower integer.                 *)
(***************************************************************************)
EXTENDS Integers, Sequences

CONSTANT
  NaN      \* the missing value, a number that is no value

VARIABLES
  call,    \* the operation, its column and acc; of a filter, the mask
  answer   \* NoAnswer, or the one-element sequence of the result

vars == <<call, answer>>

NoAnswer == << >>

Rows == DOMAIN call.column

UpTo(i) == 1 .. i

SumTo(i) ==
  LET f[k \in 0 .. Len(call.column)] ==
        IF k = 0 THEN 0 ELSE f[k - 1] + call.column[k]
  IN  f[i]

LeastOf(I) ==
  CHOOSE v \in {call.column[j] : j \in I} : \A j \in I : v <= call.column[j]

GreatestOf(I) ==
  CHOOSE v \in {call.column[j] : j \in I} : \A j \in I : v >= call.column[j]

Valid(I) == {j \in I : call.column[j] # NaN}

\* The last valid value of rows I, which lie before a row, and the first one
\* of those behind it.
LastValid(I) ==
  IF Valid(I) = {} THEN NaN
  ELSE call.column[CHOOSE j \in Valid(I) : \A k \in Valid(I) : k <= j]

FirstValid(I) ==
  IF Valid(I) = {} THEN NaN
  ELSE call.column[CHOOSE j \in Valid(I) : \A k \in Valid(I) : j <= k]

\* The numbers of the rows up to i that are kept.
KeptTo(i) ==
  LET f[k \in 0 .. Len(call.column)] ==
        IF k = 0 THEN << >>
        ELSE IF call.column[k] = 1 THEN Append(f[k - 1], k) ELSE f[k - 1]
  IN  f[i]

Expected ==
  CASE call.op = "sum" -> [i \in Rows |-> SumTo(i) % call.acc]
    [] call.op = "min" -> [i \in Rows |-> LeastOf(UpTo(i))]
    [] call.op = "max" -> [i \in Rows |-> GreatestOf(UpTo(i))]
    [] call.op = "ffill" -> [i \in Rows |-> LastValid(UpTo(i))]
    [] call.op = "bfill" -> [i \in Rows |-> FirstValid({j \in Rows : i <= j})]
    [] call.op = "compact" -> KeptTo(Len(call.column))

Init == answer = NoAnswer

Answer ==
  /\ answer = NoAnswer
  /\ answer' = <<Expected>>
  /\ UNCHANGED call

\* The caller is blocked until it has its answer, so there has to be one.
Spec == Init /\ [][Answer]_vars /\ <>(answer # NoAnswer)
=============================================================================
