---------------------------- MODULE DeviceSeries ----------------------------
(***************************************************************************)
(* Element-wise calls on columns, and the memory behind them.  A series    *)
(* made of a NumPy array shares its memory without keeping it; one with    *)
(* missing floats, and every result, has memory of the device, kept by the *)
(* series and by each array handed out over it.  A block of memory that    *)
(* nothing keeps is free at once, and the next allocation may get it.      *)
(* Other Python threads may drop what they refer to at any time, and write *)
(* into results, while a handler goes from statement to statement.         *)
(***************************************************************************)
EXTENDS Integers, Sequences, FiniteSets, Functions

CONSTANTS
  Frames,       \* what columns there may be: name -> [dtype, values, contiguous]
  Requests,     \* [op, args, by, match]: by is a fill value, a distance or what
                \* a window is like, [agg, window, min_periods], and match pairs
                \* rows of two operands by their index labels
  NumRows,
  ByteWidth,    \* bits in a byte of a mask
  BinaryValue(_, _, _),  \* of two values; comparisons are 1 or 0
  UnaryValue(_, _),
  NaN, NaT,     \* a missing float, a missing time
  Junk,         \* what is read from memory that is not allocated
  Written,      \* what threads write in place
  MaxCalls,     \* bound on the calls of a run
  DeviceFails,  \* whether a kernel may fail
  Nothing

VARIABLES
  memory,    \* block -> cells, of the blocks in use
  columns,   \* name -> [dtype, contiguous, block, holds], of those not dropped
  results,   \* arrays handed out and not dropped: [block, holds]
  calls,     \* number of calls so far
  call,      \* the request that is served
  stage,     \* "idle", "run", "made" or "pandas"
  operands,  \* the columns a handler was called with, which it refers to
  arrays,    \* blocks of the arrays extracted from them
  bound,     \* the places of those that a local variable still refers to
  series,    \* made of them so far: [block, mask, device]
  made       \* the series a kernel returned

vars == <<memory, columns, results, calls, call, stage, operands, arrays, bound,
          series, made>>

Rows == 0 .. NumRows - 1

-----------------------------------------------------------------------------
(* Null masks: a byte is the set of its bits.                              *)

Bytes == 0 .. (NumRows + ByteWidth - 1) \div ByteWidth - 1
Bits == 0 .. ByteWidth - 1

\* All bits are set before those of missing values are cleared.
from_numpy_nans(values) ==
  [k \in Bytes |-> {b \in Bits : k * ByteWidth + b \in Rows =>
                                   values[k * ByteWidth + b] # NaN}]

is_valid(mask, i) == (i % ByteWidth) \in mask[i \div ByteWidth]

\* Mutant: the bit of the row instead of the bit in its byte.
PackedByRow(valid) ==
  [k \in Bytes |-> {b \in Bits : b \in Rows /\ valid[b]}]

\* All bits are clear before those of valid elements are set.
pack_validity_to_mask(valid) ==
  [k \in Bytes |-> {b \in Bits : k * ByteWidth + b \in Rows /\ valid[k * ByteWidth + b]}]

-----------------------------------------------------------------------------
(* What pandas answers.                                                    *)

Comparisons == {"eq", "ne", "lt"}
Arithmetic == {"add", "sub", "mul", "div"}
Unary == {"abs", "neg", "trunc"}
Times == {"datetime", "timedelta"}

Combined(op, a, b) ==
  IF a = NaN \/ b = NaN
  THEN IF op \in Comparisons THEN (IF op = "ne" THEN 1 ELSE 0) ELSE NaN
  ELSE BinaryValue(op, a, b)

Missing(dtype) == IF dtype \in Times THEN NaT ELSE NaN

Aggregate(agg, window) ==
  LET total == FoldFunction(+, 0, window)
      n == Cardinality(DOMAIN window)
      values == Range(window)
  IN CASE agg = "sum" -> total
       [] agg = "count" -> n
       [] agg = "mean" -> BinaryValue("div", total, n)
       [] agg = "min" -> CHOOSE v \in values : \A w \in values : v <= w
       [] agg = "max" -> CHOOSE v \in values : \A w \in values : w <= v

PandasWindow(w, a, i) ==
  LET observed == {j \in Rows : i - w.window < j /\ j <= i /\ a[j] # NaN}
  IN IF Cardinality(observed) < w.min_periods THEN NaN
     ELSE Aggregate(w.agg, [j \in observed |-> a[j]])

PandasAnswer(c, given) ==
  [i \in Rows |->
     LET a == given[1].holds IN
     CASE c.op = "fillna" -> IF a[i] = NaN THEN c.by ELSE a[i]
       [] c.op = "shift"  -> IF i - c.by \in Rows THEN a[i - c.by] ELSE Missing(given[1].dtype)
       [] c.op = "rolling" -> PandasWindow(c.by, a, i)
       [] c.op = "values" -> Combined("add", a[i], given[2].holds[i])
       [] c.op \in Arithmetic \cup Comparisons -> Combined(c.op, a[i], given[2].holds[c.match[i]])
       [] OTHER -> UnaryValue(c.op, a[i])]

-----------------------------------------------------------------------------
(* Memory: who keeps a block.                                              *)

\* The device memory of a series, and of its mask.
DeviceBlocks(s) ==
  (IF s.device THEN {s.block} ELSE {}) \cup (IF s.mask = Nothing THEN {} ELSE {s.mask})

\* Mutant: to_numpy hands out a view without the capsule.
NotKept(r) == {}

\* An array handed out keeps the buffer it views by a capsule.
Kept(r) == {r.block}

Live ==
  UNION ({Kept(r) : r \in results}
           \cup {{columns[n].block} : n \in DOMAIN columns}
           \cup {{operands[i].block} : i \in DOMAIN operands}
           \cup {{arrays[i]} : i \in bound}
           \cup {DeviceBlocks(series[i]) : i \in DOMAIN series}
           \cup (IF stage = "made" THEN {DeviceBlocks(made)} ELSE {}))

\* The first free block, so that what is freed is used again at once.
Allocated(used) ==
  CHOOSE b \in 0 .. Cardinality(used) : b \notin used /\ 0 .. b - 1 \subseteq used

NewBlock == Allocated(DOMAIN memory)
NextBlock == Allocated(DOMAIN memory \cup {NewBlock})

\* Of the memory there was and what was allocated or written, what is still kept.
Settle(m) == memory' = [b \in DOMAIN m \cap Live' |-> m[b]]

Cell(b, i) ==
  IF b \in DOMAIN memory /\ i \in DOMAIN memory[b] THEN memory[b][i] ELSE Junk

Storing(m, b, cells) ==
  [x \in DOMAIN m \cup {b} |-> IF x = b THEN cells ELSE m[x]]

Fresh(b, cells) == Storing(memory, b, cells)

-----------------------------------------------------------------------------
\* Any places will do.
Place(f) ==
  CHOOSE p \in [DOMAIN f -> 1 .. Cardinality(DOMAIN f)] :
    \A m, n \in DOMAIN f : m # n => p[m] # p[n]

Init ==
  /\ \E f \in Frames :
       /\ columns = [n \in DOMAIN f |->
            [dtype |-> f[n].dtype, contiguous |-> f[n].contiguous,
             block |-> Place(f)[n], holds |-> f[n].values]]
       /\ memory = [b \in {Place(f)[n] : n \in DOMAIN f} |->
                      f[CHOOSE n \in DOMAIN f : Place(f)[n] = b].values]
  /\ results = {} /\ calls = 0 /\ call = Nothing /\ stage = "idle"
  /\ operands = << >> /\ arrays = << >> /\ bound = {} /\ series = << >> /\ made = Nothing

\* What other threads do.
DropColumn(n) ==
  /\ columns' = [m \in DOMAIN columns \ {n} |-> columns[m]]
  /\ UNCHANGED <<results, calls, call, stage, operands, arrays, bound, series, made>>
  /\ Settle(memory)

DropResult(r) ==
  /\ results' = results \ {r}
  /\ UNCHANGED <<columns, calls, call, stage, operands, arrays, bound, series, made>>
  /\ Settle(memory)

Overwritten(cells) == [cells EXCEPT ![0] = Written]

WriteResult(r) ==
  /\ results' = (results \ {r}) \cup {[r EXCEPT !.holds = Overwritten(r.holds)]}
  /\ UNCHANGED <<columns, calls, call, stage, operands, arrays, bound, series, made>>
  /\ Settle([memory EXCEPT ![r.block] = Overwritten(memory[r.block])])

\* Only between calls: what a call makes of a column that changes is not defined.
WriteColumn(n) ==
  /\ stage = "idle"
  /\ columns' = [columns EXCEPT ![n].holds = Overwritten(columns[n].holds)]
  /\ UNCHANGED <<results, calls, call, stage, operands, arrays, bound, series, made>>
  /\ Settle([memory EXCEPT ![columns[n].block] = Overwritten(memory[columns[n].block])])

Others ==
  \/ \E n \in DOMAIN columns : DropColumn(n) \/ WriteColumn(n)
  \/ \E r \in results : DropResult(r) \/ WriteResult(r)

-----------------------------------------------------------------------------
DatetimeRules ==
  {<<"datetime", "sub", "datetime">>, <<"datetime", "add", "timedelta">>,
   <<"datetime", "sub", "timedelta">>, <<"timedelta", "add", "datetime">>,
   <<"timedelta", "add", "timedelta">>, <<"timedelta", "sub", "timedelta">>}

SameIndex(c) == c.match = [i \in Rows |-> i]

Incomparable(c) == c.op \in Comparisons /\ ~SameIndex(c)

\* The guards of the handlers.
Served(c, given) ==
  LET a == given[1].dtype
      b == given[2].dtype
  IN CASE c.op = "fillna" -> a = "float32"
       [] c.op \in {"shift", "values"} -> TRUE
       [] c.op = "rolling" -> a = "float32" /\ NaN \notin Range(given[1].holds)
       [] c.op \in Arithmetic ->
            /\ SameIndex(c)
            /\ IF {a, b} \cap Times # {} THEN <<a, c.op, b>> \in DatetimeRules
               ELSE a = b /\ (c.op = "div" => a = "float32")
       [] c.op \in Comparisons -> SameIndex(c) /\ a = b
       [] OTHER -> TRUE

Call(c) ==
  /\ stage = "idle" /\ calls < MaxCalls
  /\ \A i \in DOMAIN c.args : c.args[i] \in DOMAIN columns
  /\ calls' = calls + 1
  /\ call' = c
  /\ operands' = [i \in DOMAIN c.args |-> columns[c.args[i]]]
  /\ stage' = IF Served(c, operands') THEN "run" ELSE "pandas"
  /\ UNCHANGED <<memory, columns, results, arrays, bound, series, made>>

\* Mutant: one variable for all arrays, in every handler.
OneVariable(i) == {i}

\* _materialize goes through its columns in a loop, with one variable.
Bound(i) == IF call.op = "values" THEN {i} ELSE bound \cup {i}

\* The next array: all before the first series is made, or one by one in a loop
\* that makes a series of each.
Extract(block) ==
  /\ arrays' = Append(arrays, block)
  /\ bound' = Bound(Len(arrays) + 1)
  /\ UNCHANGED <<columns, results, calls, call, stage, operands, series, made>>

NextOperand == operands[Len(arrays) + 1]

Extracts ==
  /\ stage = "run" /\ Len(arrays) < Len(operands)
  /\ call.op = "values" => Len(series) = Len(arrays)

ExtractView ==
  /\ Extracts /\ NextOperand.contiguous
  /\ Extract(NextOperand.block)
  /\ Settle(memory)

ExtractCopy ==
  /\ Extracts /\ ~NextOperand.contiguous
  /\ Extract(NewBlock)
  /\ Settle(Fresh(NewBlock, [i \in Rows |-> Cell(NextOperand.block, i)]))

Extracted == stage = "run" /\ (call.op = "values" \/ Len(arrays) = Len(operands))

Source == arrays[Len(series) + 1]

\* _make_series_with_nulls, in arithmetic on floats alone.
HasNulls ==
  /\ call.op \in Arithmetic
  /\ operands[1].dtype = "float32"
  /\ \E i \in Rows : Cell(Source, i) = NaN

from_numpy ==
  /\ Extracted /\ Len(series) < Len(arrays) /\ ~HasNulls
  /\ series' = Append(series, [block |-> Source, mask |-> Nothing, device |-> FALSE])
  /\ UNCHANGED <<memory, columns, results, calls, call, stage, operands, arrays, bound, made>>

Cleaned(i) == IF Cell(Source, i) = NaN THEN 0 ELSE Cell(Source, i)

from_numpy_with_nulls ==
  /\ Extracted /\ Len(series) < Len(arrays) /\ HasNulls
  /\ series' = Append(series, [block |-> NewBlock, mask |-> NextBlock, device |-> TRUE])
  /\ UNCHANGED <<columns, results, calls, call, stage, operands, arrays, bound, made>>
  /\ Settle(Storing(Fresh(NewBlock, [i \in Rows |-> Cleaned(i)]),
                    NextBlock, from_numpy_nans([i \in Rows |-> Cell(Source, i)])))

-----------------------------------------------------------------------------
Input(k, i) == Cell(series[k].block, i)

\* An operand without a mask has none bound, and is valid everywhere.
Valid(k, i) ==
  \/ series[k].mask = Nothing
  \/ series[k].mask \in DOMAIN memory /\ is_valid(memory[series[k].mask], i)

AllValid(i) == \A k \in DOMAIN series : Valid(k, i)

Ready == stage = "run" /\ Len(series) = Len(operands)

Masked == \E k \in DOMAIN series : series[k].mask # Nothing

\* A thread for each element, and a new buffer for what they write.
dispatch_elementwise(cells) ==
  /\ made' = [block |-> NewBlock, mask |-> Nothing, device |-> TRUE]
  /\ stage' = "made"
  /\ UNCHANGED <<columns, results, calls, call, operands, arrays, bound, series>>
  /\ Settle(Fresh(NewBlock, cells))

\* Validity leaves the kernel as a byte per element and is packed on the host.
dispatch_elementwise_masked(cells) ==
  /\ made' = [block |-> NewBlock, mask |-> NextBlock, device |-> TRUE]
  /\ stage' = "made"
  /\ UNCHANGED <<columns, results, calls, call, operands, arrays, bound, series>>
  /\ Settle(Storing(Fresh(NewBlock, cells),
                    NextBlock, pack_validity_to_mask([i \in Rows |-> AllValid(i)])))

metal_binary_op ==
  /\ Ready /\ call.op \in Arithmetic
  /\ IF Masked
     THEN dispatch_elementwise_masked(
            [i \in Rows |-> IF AllValid(i) THEN BinaryValue(call.op, Input(1, i), Input(2, i))
                                          ELSE 0])
     ELSE dispatch_elementwise([i \in Rows |-> Combined(call.op, Input(1, i), Input(2, i))])

\* Integers have kernels for two unary operators.
HasKernel == call.op \in {"abs", "neg"}

metal_unary_op ==
  /\ Ready /\ call.op \in Unary /\ HasKernel
  /\ dispatch_elementwise([i \in Rows |-> UnaryValue(call.op, Input(1, i))])

metal_compare_op ==
  /\ Ready /\ call.op \in Comparisons
  /\ dispatch_elementwise([i \in Rows |-> Combined(call.op, Input(1, i), Input(2, i))])

Filler == IF operands[1].dtype = "float32" THEN NaN ELSE 0

metal_shift ==
  /\ Ready /\ call.op = "shift"
  /\ dispatch_elementwise(
       [i \in Rows |-> IF i - call.by \in Rows THEN Input(1, i - call.by) ELSE Filler])

metal_fillna ==
  /\ Ready /\ call.op = "fillna"
  /\ dispatch_elementwise([i \in Rows |-> IF Input(1, i) = NaN THEN call.by ELSE Input(1, i)])

WindowStart(i) == IF i + 1 >= call.by.window THEN i + 1 - call.by.window ELSE 0

Window(i) == [j \in WindowStart(i) .. i |-> Input(1, j)]

Lesser(v, w) == IF v < w THEN v ELSE w
Greater(v, w) == IF v < w THEN w ELSE v

\* A thread goes through the window of its row.
RollingCell(agg, i) ==
  CASE agg = "sum" -> FoldFunction(+, 0, Window(i))
    [] agg = "min" -> FoldFunction(Lesser, Input(1, i), Window(i))
    [] agg = "max" -> FoldFunction(Greater, Input(1, i), Window(i))
    [] agg = "count" -> i - WindowStart(i) + 1

\* On the host, from the results of two kernels.
RollingMean(i) == BinaryValue("div", RollingCell("sum", i), RollingCell("count", i))

metal_rolling ==
  /\ Ready /\ call.op = "rolling"
  /\ dispatch_elementwise(
       [i \in Rows |-> IF call.by.agg = "mean" THEN RollingMean(i)
                                             ELSE RollingCell(call.by.agg, i)])

\* An expression: the sum of two columns, by whatever kernel evaluates it.
eval_expression ==
  /\ Ready /\ call.op = "values"
  /\ dispatch_elementwise([i \in Rows |-> Combined("add", Input(1, i), Input(2, i))])

Leave ==
  /\ stage' = "idle" /\ call' = Nothing
  /\ operands' = << >> /\ arrays' = << >> /\ bound' = {} /\ series' = << >> /\ made' = Nothing
  /\ UNCHANGED <<columns, calls>>

\* After a failure handlers ask pandas; reading an expression raises, and so does
\* pandas when it is asked to compare columns whose labels differ.
DispatchFails ==
  /\ Ready /\ call.op # "values"
  /\ DeviceFails \/ (call.op \in Unary /\ ~HasKernel)
  /\ stage' = "pandas"
  /\ arrays' = << >> /\ bound' = {} /\ series' = << >>
  /\ UNCHANGED <<columns, results, calls, call, operands, made>>
  /\ Settle(memory)

Raise ==
  /\ \/ Ready /\ DeviceFails /\ call.op = "values"
     \/ stage = "pandas" /\ Incomparable(call)
  /\ Leave
  /\ UNCHANGED results
  /\ Settle(memory)

-----------------------------------------------------------------------------
Answer(i) == Cell(made.block, i)

InFill(i) == i - call.by \notin Rows

\* Rows seen so far, up to the length of a window.
ValidCount(i) == IF i + 1 < call.by.window THEN i + 1 ELSE call.by.window

\* What handlers restore in the result of a kernel before they return it.
Restored(i) ==
  CASE made.mask # Nothing -> IF is_valid(memory[made.mask], i) THEN Answer(i) ELSE NaN
    [] call.op = "shift" /\ InFill(i) -> Missing(operands[1].dtype)
    [] call.op = "rolling" /\ ValidCount(i) < call.by.min_periods -> NaN
    [] OTHER -> Answer(i)

\* Where results change type, into masked floats, floats or Booleans.
Converts ==
  \/ made.mask # Nothing
  \/ call.op \in Comparisons
  \/ call.op = "rolling" /\ call.by.min_periods > 1
  \/ call.op = "shift" /\ call.by # 0 /\ operands[1].dtype \notin Times \cup {"float32"}

HandOut(b) ==
  /\ results' = results \cup {[block |-> b, holds |-> [i \in Rows |-> Restored(i)]]}
  /\ Leave
  /\ Settle(Fresh(b, [i \in Rows |-> Restored(i)]))

\* The array over the result itself, with missing times written into it.
ReturnView ==
  /\ stage = "made" /\ ~Converts
  /\ HandOut(made.block)

ReturnCopy ==
  /\ stage = "made" /\ Converts
  /\ HandOut(NewBlock)

AskPandas ==
  /\ stage = "pandas" /\ ~Incomparable(call)
  /\ results' = results \cup {[block |-> NewBlock, holds |-> PandasAnswer(call, operands)]}
  /\ Leave
  /\ Settle(Fresh(NewBlock, PandasAnswer(call, operands)))

Serve ==
  \/ ExtractView \/ ExtractCopy \/ from_numpy \/ from_numpy_with_nulls
  \/ metal_binary_op \/ metal_unary_op \/ metal_compare_op \/ metal_shift \/ metal_fillna
  \/ metal_rolling
  \/ eval_expression \/ DispatchFails \/ Raise \/ ReturnView \/ ReturnCopy \/ AskPandas

Next == (\E c \in Requests : Call(c)) \/ Serve \/ Others

Spec == Init /\ [][Next]_vars

-----------------------------------------------------------------------------
\* Until the kernel has run, what it will read is what the columns held when the
\* call was made, whatever other threads dropped since and whatever memory was
\* freed and used again: values, where there is no mask, and else values where
\* the mask says they are valid.
SeriesReadTheirColumn ==
  stage = "run" =>
    \A k \in DOMAIN series : \A i \in Rows :
      IF series[k].mask # Nothing /\ operands[k].holds[i] = NaN
      THEN ~Valid(k, i)
      ELSE Valid(k, i) /\ Input(k, i) = operands[k].holds[i]

\* Arrays handed out and columns keep what they hold, until somebody writes into
\* that very array: no call reuses, shares or changes their memory.
ArraysStand ==
  /\ \A r \in results : r.block \in DOMAIN memory /\ memory[r.block] = r.holds
  /\ \A n \in DOMAIN columns :
       columns[n].block \in DOMAIN memory /\ memory[columns[n].block] = columns[n].holds

\* A call hands out one new array with what pandas computes from the columns as
\* they were, or raises without one: where pandas does, and nowhere else but in
\* an expression that fails.
AnswersAgree ==
  [][(stage # "idle" /\ stage' = "idle") =>
       IF Incomparable(call) THEN results' = results
       ELSE \/ call.op = "values" /\ stage = "run" /\ results' = results
            \/ \E r \in results' : /\ results' = results \cup {r}
                                   /\ r.block \notin {q.block : q \in results}
                                   /\ r.holds = PandasAnswer(call, operands)]_vars

\* Every column of a frame has the rows of the frame.
ASSUME SeriesAssumption ==
  /\ NumRows \in Nat /\ ByteWidth \in Nat \ {0}
  /\ Nothing \notin Nat
  /\ \A f \in Frames :
       IsFiniteSet(DOMAIN f)
         /\ \A n \in DOMAIN f : f[n].values = [i \in Rows |-> f[n].values[i]]
  /\ \A c \in Requests : c.args \in Seq(STRING)
=============================================================================
