----------------------------- MODULE PandasMerge -----------------------------
(***************************************************************************)
(* What pandas.merge on one key column promises: the columns of both       *)
(* frames, those with a name in common under two names, and a row for each *)
(* pair of rows with equal keys, and for each row without a partner that   *)
(* `how' keeps, exactly once each.  The order of the rows is left open.    *)
(* A cell is the key, or stands for the row and column it was copied from. *)
(***************************************************************************)
EXTENDS Integers, Sequences, FiniteSets, Functions

CONSTANTS
  Class,   \* keys of one class are equal to pandas
  NaN

VARIABLES
  left, right,   \* key columns
  call,          \* [how, lkey, rkey, lcols, rcols]
  answer         \* NoAnswer, or [name -> cells] of the resulting frame

vars == <<left, right, call, answer>>

NoAnswer == << >>

Cell(side, keys, key, n, i) ==
  IF n = key THEN <<"key", keys[i]>> ELSE <<side, n, i>>

LeftCell(n, i) == Cell("left", left, call.lkey, n, i)
RightCell(n, j) == Cell("right", right, call.rkey, n, j)

\* A key column of one name belongs to both frames.
Shared(n) == n = call.lkey /\ n = call.rkey

Overlap == {n \in Range(call.lcols) \cap Range(call.rcols) : ~Shared(n)}

LeftNames == {<<n, IF n \in Overlap THEN "_x" ELSE "">> : n \in Range(call.lcols)}
RightNames ==
  {<<n, IF n \in Overlap THEN "_y" ELSE "">> : n \in {m \in Range(call.rcols) : ~Shared(m)}}

Matches ==
  {m \in (DOMAIN left) \X (DOMAIN right) : Class[left[m[1]]] = Class[right[m[2]]]}

LeftAlone == {i \in DOMAIN left : \A m \in Matches : m[1] # i}
RightAlone == {j \in DOMAIN right : \A m \in Matches : m[2] # j}

\* Where the rows come from; 0 is no row of that side.
Origins ==
  Matches
    \cup (IF call.how \in {"left", "outer"} THEN LeftAlone \X {0} ELSE {})
    \cup (IF call.how \in {"right", "outer"} THEN {0} \X RightAlone ELSE {})

CellOf(c, o) ==
  CASE c \in LeftNames /\ o[1] # 0 -> LeftCell(c[1], o[1])
    [] c \in LeftNames /\ o[1] = 0 -> IF Shared(c[1]) THEN RightCell(c[1], o[2]) ELSE NaN
    [] c \in RightNames -> IF o[2] # 0 THEN RightCell(c[1], o[2]) ELSE NaN

RowOf(o) == [c \in LeftNames \cup RightNames |-> CellOf(c, o)]

\* The frame is as long in each column as there are rows, and has each row as
\* often as it comes up.
Answered ==
  /\ DOMAIN answer = LeftNames \cup RightNames
  /\ \A c \in DOMAIN answer : Len(answer[c]) = Cardinality(Origins)
  /\ \A o \in Origins :
       Cardinality({p \in 1 .. Cardinality(Origins) :
                      RowOf(o) = [c \in DOMAIN answer |-> answer[c][p]]})
         = Cardinality({q \in Origins : RowOf(q) = RowOf(o)})

Init == answer = NoAnswer

Answer ==
  /\ answer = NoAnswer
  /\ Answered'
  /\ UNCHANGED <<left, right, call>>

\* The caller is blocked until it has its answer, so there has to be one.
Spec == Init /\ [][Answer]_vars /\ <>(answer # NoAnswer)
=============================================================================
