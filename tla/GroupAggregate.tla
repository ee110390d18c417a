--------------------------- MODULE GroupAggregate ---------------------------
(***************************************************************************)
(* What df.groupby(key)[val].<op>() promises in pandas: one answer, with   *)
(* one entry for every key that occurs, and in it the aggregate of the     *)
(* values that are not missing; rows whose key is missing form no group.   *)
(* The order of the entries is left open here.                             *)
(***************************************************************************)
EXTENDS Integers, Sequences, FiniteSets, Functions

CONSTANTS
  Class,   \* Class[k]: keys of one class are equal to pandas; NaN if missing
  NaN      \* the missing value, a number no value is equal to

VARIABLES
  rows,    \* the key and the value of every row
  op,      \* "sum", "count", "min", "max" or "mean"
  answer   \* NoAnswer, or the one-element sequence of the entries returned

vars == <<rows, op, answer>>

NoAnswer == << >>

Groups == {Class[rows[i].key] : i \in DOMAIN rows} \ {NaN}

Members(g) == {i \in DOMAIN rows : Class[rows[i].key] = g /\ rows[i].val # NaN}

SumOf(I) == FoldFunctionOnSet(+, 0, [i \in DOMAIN rows |-> rows[i].val], I)

\* The value of an entry is a tuple, so that a mean can be its two parts.
Aggregate(I) ==
  CASE op = "sum" -> <<SumOf(I)>>
    [] op = "count" -> <<Cardinality(I)>>
    [] op # "sum" /\ op # "count" /\ I = {} -> <<NaN>>
    [] op = "mean" /\ I # {} -> <<SumOf(I), Cardinality(I)>>
    [] op = "min" /\ I # {} ->
         <<rows[CHOOSE i \in I : \A j \in I : rows[i].val <= rows[j].val].val>>
    [] op = "max" /\ I # {} ->
         <<rows[CHOOSE i \in I : \A j \in I : rows[j].val <= rows[i].val].val>>

Entry(g) == [key |-> g, val |-> Aggregate(Members(g))]

\* pandas' own answer, in ascending order of the keys.
Sorted ==
  [i \in 1 .. Cardinality(Groups) |->
     Entry(CHOOSE g \in Groups : Cardinality({h \in Groups : h <= g}) = i)]

Answered ==
  /\ Len(answer) = 1
  /\ Len(answer[1]) = Cardinality(Groups)
  /\ {answer[1][i] : i \in DOMAIN answer[1]} = {Entry(g) : g \in Groups}

Init == answer = NoAnswer

Answer ==
  /\ answer = NoAnswer
  /\ Answered'
  /\ UNCHANGED <<rows, op>>

\* The caller is blocked until it has its answer, so there has to be one.
Spec == Init /\ [][Answer]_vars /\ <>(answer # NoAnswer)
=============================================================================
