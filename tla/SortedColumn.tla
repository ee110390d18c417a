---------------------------- MODULE SortedColumn ----------------------------
(***************************************************************************)
(* What a sort promises: one answer, which holds the values that are       *)
(* present in ascending order and as often as they occur, with the missing *)
(* ones behind them; or, of argsort, every row number once, in an order    *)
(* that sorts the column.  Rows with equal values may come in any order.   *)
(***************************************************************************)
EXTENDS Integers, Sequences, FiniteSets, SortWords

VARIABLES
  request,  \* the call: its operation, its column and the rows with a value
  answer    \* << >>, or the one-element sequence of what is returned

vars == <<request, answer>>

Rows == DOMAIN request.words

Missing(i) == i \notin request.valid \/ IsNaN(request.dtype, request.words[i])

\* Row i may come before row j.
MayPrecede(i, j) ==
  \/ Missing(j)
  \/ ~Missing(i) /\ ~Above(request.dtype, request.words[i], request.words[j])

\* The rows in ascending order, equal ones as they come: the row at place p.
Rank(i) ==
  1 + Cardinality({j \in Rows : \/ ~MayPrecede(i, j)
                                \/ MayPrecede(j, i) /\ j < i})

RowAt(p) == CHOOSE i \in Rows : Rank(i) = p

\* The answer of pandas.
PandasAnswer ==
  IF request.op = "argsort"
    THEN [words |-> [p \in Rows |-> RowAt(p) - 1], valid |-> Rows]
    ELSE [words |-> [p \in Rows |-> request.words[RowAt(p)]],
          valid |-> 1 .. Cardinality(request.valid)]

Ascending(words, places) ==
  \A p, q \in places :
    p < q => ~Above(request.dtype, words[p], words[q])

Occurrences(words, places, w) == Cardinality({p \in places : words[p] = w})

SortedValues(a) ==
  /\ a.valid = 1 .. Cardinality(request.valid)
  /\ Ascending(a.words, a.valid)
  /\ \A w \in 0 .. Words(request.dtype) - 1 :
       Occurrences(a.words, a.valid, w)
         = Occurrences(request.words, request.valid, w)

SortingRows(a) ==
  /\ {a.words[p] + 1 : p \in Rows} = Rows
  /\ \A p, q \in Rows : p < q => MayPrecede(a.words[p] + 1, a.words[q] + 1)

Answered ==
  /\ Len(answer) = 1
  /\ DOMAIN answer[1].words = Rows
  /\ IF request.op = "argsort" THEN SortingRows(answer[1]) ELSE SortedValues(answer[1])

Init == answer = << >>

Answer ==
  /\ answer = << >>
  /\ Answered'
  /\ UNCHANGED request

\* The caller is blocked until the answer is there.
Spec == Init /\ [][Answer]_vars /\ <>(answer # << >>)
=============================================================================
