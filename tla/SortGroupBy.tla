---------------------------- MODULE SortGroupBy -----------------------------
(***************************************************************************)
(* Group-by of long columns (rust/src/kernels/groupby.rs, metal/groupby/   *)
(* sort_agg.metal): rows with a null are left out, the keys go through the *)
(* radix sort of DeviceSort together with their row numbers, a kernel      *)
(* brings the values into the same order, and in the next kernel the first *)
(* thread of every run of equal keys folds the values of its run, draws    *)
(* the number of the group and writes its entry.                           *)
(***************************************************************************)
EXTENDS DeviceSort, SequencesExt

CONSTANTS
  Null,   \* a key or a value that is missing, no word and no sum
  Junk    \* what a buffer holds that nobody has written

ASSUME JunkAssumption == Junk \notin Nat

VARIABLES
  values,   \* the values in the order of the sorted keys
  counter,  \* the number the next group gets
  active,   \* the threads that have not returned
  number,   \* of every thread: the number it has drawn
  entries   \* the entries written

groupVars == <<values, counter, active, number, entries>>
allVars == <<sortVars, groupVars>>

\* filter_nulls_for_groupby: the valid rows in their order; without a mask all are.
Kept(rows, masked) ==
  LET valid_indices == {i \in DOMAIN rows :
                          ~masked \/ (rows[i].key # Null /\ rows[i].val # Null)}
  IN  [p \in 1 .. Cardinality(valid_indices) |->
         rows[CHOOSE i \in valid_indices :
                Cardinality({j \in valid_indices : j <= i}) = p]]

\* metal_groupby_dispatch and metal_groupby_mean for more than HASH_MAX_LEN rows.
GroupCall(agg, d, rows, masked) ==
  LET kept == Kept(rows, masked)
  IN  [op |-> "groupby", agg |-> agg, dtype |-> d, rows |-> rows,
       words |-> [i \in DOMAIN kept |-> kept[i].key],
       vals |-> [i \in DOMAIN kept |-> kept[i].val],
       valid |-> DOMAIN kept, bitonic_max_n |-> 0, local_sort_stages |-> 0]

GroupBy == request.op = "groupby"

\* pandas compares keys as numbers.
ClassOf ==
  [k \in DTypes \X ({Null} \cup 0 .. Words("int32") - 1) |->
     IF k[2] = Null THEN Null ELSE Number(k[1], k[2])]

Column ==
  IF GroupBy
    THEN [i \in DOMAIN request.rows |->
            [key |-> <<dtype, request.rows[i].key>>, val |-> request.rows[i].val]]
    ELSE << >>

Groups ==
  INSTANCE GroupAggregate
    WITH Class <- ClassOf, NaN <- Null, rows <- Column,
         op <- (IF GroupBy THEN request.agg ELSE "sum"),
         answer <- (IF ~GroupBy /\ pc = "done" THEN << << >> >> ELSE answer)

\* The sort inside a group-by: its column is there when the values are gathered.
KeySort ==
  INSTANCE SortedColumn
    WITH answer <- (IF ~GroupBy THEN answer
                    ELSE IF pc = "gather" \/ values # << >> THEN <<DeviceAnswer>>
                    ELSE IF pc = "done" THEN <<Result!PandasAnswer>> ELSE << >>)

GroupInit ==
  /\ Init
  /\ values = << >> /\ counter = 0
  /\ active = {} /\ number = << >> /\ entries = << >>

RowThreads == 0 .. Length - 1

StartGather ==
  /\ pc = "wait" /\ GroupBy
  /\ pc' = "gather"
  /\ UNCHANGED <<request, answer, keys, indices, radixVars, bitonicVars, groupVars>>

\* work_values has the column in its first cells and nothing in the padding.
GatheredValue(c) ==
  IF indices[0][c] < Length THEN request.vals[indices[0][c] + 1] ELSE Junk

\* gather_impl; every thread writes the cell of its own number.
GatherValues ==
  /\ pc = "gather"
  /\ values' = [c \in Cells |-> GatheredValue(c)]
  /\ entries' = [g \in RowThreads |-> Junk]
  /\ active' = RowThreads
  /\ number' = [t \in RowThreads |-> Junk]
  /\ counter' = 0
  /\ pc' = "lead"
  /\ UNCHANGED <<request, answer, keys, indices, radixVars, bitonicVars>>

SameKey(b, c) == Number(dtype, keys[0][b]) = Number(dtype, keys[0][c])

IsLeader(t) == t > 0 => ~SameKey(t, t - 1)

Run(t) == {c \in t .. Length - 1 : \A b \in t .. c : SameKey(t, b)}

FoldRun(t) ==
  LET vals == [c \in Run(t) |-> values[c]]
      sum == FoldFunction(+, 0, vals)
  IN  CASE request.agg = "sum" -> <<sum>>
        [] request.agg = "count" -> <<Cardinality(Run(t))>>
        [] request.agg = "mean" -> <<sum, Cardinality(Run(t))>>
        [] request.agg = "min" -> <<CHOOSE v \in Range(vals) : \A u \in Range(vals) : v <= u>>
        [] request.agg = "max" -> <<CHOOSE v \in Range(vals) : \A u \in Range(vals) : u <= v>>

\* Only the thread at the start of a run goes on.
ReturnAtOnce(t) ==
  /\ pc = "lead" /\ t \in active /\ ~IsLeader(t)
  /\ active' = active \ {t}
  /\ UNCHANGED <<sortVars, values, counter, number, entries>>

\* Mutant: read and write of the counter in one thread, not atomically.
CounterKept == counter

CounterNext == counter + 1

\* atomic_fetch_add on the group counter, after the values have been folded.
DrawNumber(t) ==
  /\ pc = "lead" /\ t \in active /\ number[t] = Junk /\ IsLeader(t)
  /\ number' = [number EXCEPT ![t] = counter]
  /\ counter' = CounterNext
  /\ UNCHANGED <<sortVars, values, active, entries>>

WriteEntry(t) ==
  /\ pc = "lead" /\ t \in active /\ number[t] # Junk
  /\ entries' = [entries EXCEPT ![number[t]] = [key |-> Number(dtype, keys[0][t]),
                                                val |-> FoldRun(t)]]
  /\ active' = active \ {t}
  /\ UNCHANGED <<sortVars, values, counter, number>>

KernelEnds == pc = "lead" /\ active = {}

\* The host reads the counter and cuts the buffers off there.
ReturnGroups ==
  /\ KernelEnds
  /\ answer' = << [i \in 1 .. counter |-> entries[i - 1]] >>
  /\ pc' = "read"
  /\ UNCHANGED <<request, keys, indices, radixVars, bitonicVars, groupVars>>

\* The command buffer of both kernels ends in an error.
GroupError ==
  /\ DeviceFails /\ KernelEnds
  /\ pc' = "failed"
  /\ UNCHANGED <<request, answer, keys, indices, radixVars, bitonicVars, groupVars>>

\* ProxyGroupBy replays the aggregation on pandas.
FallBackGroups ==
  /\ pc = "failed" /\ GroupBy
  /\ answer' = <<Groups!Sorted>>
  /\ pc' = "done"
  /\ UNCHANGED <<request, keys, indices, radixVars, bitonicVars, groupVars>>

GroupStep ==
  \/ StartGather
  \/ GatherValues
  \/ \E t \in RowThreads : ReturnAtOnce(t) \/ DrawNumber(t) \/ WriteEntry(t)
  \/ ReturnGroups
  \/ FallBackGroups

Progress == (SortStep /\ UNCHANGED groupVars) \/ GroupStep

DeviceErrors == (DeviceError /\ UNCHANGED groupVars) \/ GroupError

AllDone == pc \in {"done", "read"} /\ UNCHANGED allVars

GroupNext == Progress \/ DeviceErrors \/ AllDone

GroupSpec == GroupInit /\ [][GroupNext]_allVars /\ WF_allVars(Progress)

-----------------------------------------------------------------------------
(* Properties *)

\* The states of a sort, and of the kernels behind it: numbers below the counter,
\* no more groups than rows.
GroupSortTypeOK ==
  /\ SortTypeOK
  /\ counter \in 0 .. Length
  /\ active \subseteq RowThreads
  /\ pc \in {"lead", "read"} =>
       /\ DOMAIN values = Cells
       /\ \A t \in RowThreads : number[t] = Junk \/ number[t] \in 0 .. counter - 1
       /\ DOMAIN entries = RowThreads

\* Sorting on the device, or on pandas after an error, gives one answer that is
\* right, and gives it; inside a group-by, the keys are sorted when the values are
\* gathered.
ColumnIsSorted == KeySort!Spec

\* The group-by of a long column gives what pandas gives, in any order of the
\* groups, and it always gives an answer.
SortGroupByIsCorrect == Groups!Spec
=============================================================================
