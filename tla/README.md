# metaldf: a verification project in TLA+

metaldf runs pandas programs on a Metal GPU: Python proxies of `DataFrame`,
`Series` and `GroupBy` defer, dispatch or hand on each call, and a Rust engine
runs compute kernels over buffers. Its README promises "Drop-in replacement --
no code changes required." This directory models the parts whose correctness is
hard to test, checks them with TLC and proves part of the results with TLAPS.

Paths below are relative to the repository.

## 1. Inventory

### 1.1 Components, their state and their operations

| Component | State | Operations | Interacts with |
|---|---|---|---|
| **ProxyDataFrame** and its queue (`src/metaldf/_wrappers.py`, `_deferred.py`) | inherited data, `_pandas_obj`, `_pending_assigns`, `_suppress_flush` | `__getitem__`, `__setitem__`, `columns`, `to_pandas`, `__getattr__`, `_flush_pending` | expression kernels; pandas |
| **Deferred expressions** (`_deferred.py`, `kernels/expression.rs`, `codegen.rs`, `expression/*.metal`) | expression trees, bytecode, generated kernels by hash | compile, interpret, generate, fused reduction | series buffers; reductions |
| **Hash join and merge** (`_metal_merge`, `kernels/join.rs`, `join/hash_join.metal`) | table of keys and rows, counts, offsets, index buffers, gathered columns | build, count, scan, write, gather, append unmatched rows | prefix scan; pandas as fallback |
| **Hash group-by** (`ProxyGroupBy`, `kernels/groupby.rs`, `groupby/hash.metal`) | table of keys and group numbers, group counter, accumulators, output | null filter, build, accumulate, compact | pandas as fallback |
| **Sort group-by** (`groupby.rs` 449-651, `sort_agg.metal`) | sorted keys, gathered values, group counter | sort, gather, aggregate per run of equal keys | sort kernels |
| **Sort** (`kernels/sort.rs`, `sort/*.metal`) | padded key and index buffers, counts, threadgroup memory | radix and bitonic sort, argsort, nulls last | series, group-by |
| **Scans** (`scan.rs`, `fill_scan.rs`, `scan/*.metal`) | block sums | cumulative operations, ffill, bfill, offsets | join, filter |
| **Filter** (`filter.rs`, `compact.metal`) | offsets | boolean mask to dense output | scan |
| **Reductions** (`reductions.rs`, `reduction/reduce.metal`) | buffers of partials, threadgroup totals | sum, min, max, mean | masks, expressions, tuning |
| **Element-wise, comparison, shift, fillna, rolling** (`kernels/*.rs`) | output buffers and masks | one kernel each | buffers and masks |
| **Strings** (`strings.rs`, `strings/*.metal`) | offsets and bytes, sizes | one kernel, or a size and a write kernel | `.str` accessor |
| **Series proxy and accessors** (`_wrappers.py` 602-1633) | `_pandas_obj`, cached string series | arithmetic, reductions, `str`, `dt` | engine registry |
| **Engine registry** (`_engine/__init__.py`, `_metal.py`) | dictionary of operations | register, execute; extract and restore | kernels |
| **Buffers and masks** (`buffer.rs`, `series.rs`) | shared memory, references, bit masks | from NumPy, to NumPy | NumPy |
| **Backend and caches** (`backend.rs`, `kernels/mod.rs`, `build.rs`) | device, queue, pipeline cache, tuning, debug mode | load library, look up pipeline | all kernels |
| **Accelerator** (`_accelerator.py`) | `sys.meta_path`, `sys.modules` | install, uninstall, module proxies | import system |
| **Datetime** (`datetime.rs`, `datetime/extract.metal`) | output buffers | one kernel a calendar field | nothing reaches it |

Kernels of one command buffer run one after the other; the threads of one kernel
run in any order and interleave at every access to device memory. Host methods
in Rust run under the GIL without giving it up; between two statements of a
Python handler other Python threads may run.

### 1.2 What is hard here

* **GPU threads racing for shared slots**: join and group-by build tables with
  relaxed atomics, followed by ordinary stores.
* **Passes that have to agree**: the join counts and writes in two walks of the
  table, with a prefix sum in between; string kernels measure and write in two
  walks of a string; a sort's passes rely on the order of the pass before.
* **Grids and kernels that have to agree**: how many elements a thread reads is
  compiled into a kernel, and computed anew by the host that launches it.
* **Deferred effects**: an assignment takes place at some later read, on one of
  two paths, perhaps after a failure, while other assignments have gone ahead.
* **Two copies of the data** in every wrapped frame.
* **Memory shared without ownership**: a series made from a NumPy array reads
  its memory and does not keep it.
* **Encodings and widths**: keys as 32-bit words with one word reserved, 32-bit
  sums of counts, signed zeros, NaN without masks, masks packed into bits,
  strings as bytes.
* **Fallback in the middle**: any kernel may fail; the answer is then pandas'.

`PROJECT.json` lists every hazard at its line, with the properties that cover
it, or says why none does.

### 1.3 What makes each component correct

* Queue: every call returns what eager pandas returns; a read never changes what
  the frame means, and one that answers has lost no assignment; the last
  assignment wins; both copies agree.
* Merge: exactly pandas' rows, each with its columns, once; the call returns.
* Group-by: exactly pandas' groups and aggregates; one slot and one number per
  key, no row lost from an accumulator; the call returns.
* Sort, scan, filter, reductions: the result is the sequential definition's, for
  every block size, padding, tuning and order of threads.
* Expressions: interpreters and generated code agree with the expression tree.
* Series: kernels read what the columns held, and answer what pandas answers;
  arrays handed out stay as they are.
* Strings: no thread writes into another one's row; answers are Python's.
* Caches: no stale pipeline is used.

## 2. Plan and what became of it

| Step | Modules | State |
|---|---|---|
| 1 | `FrameData`, `EagerFrame`, `DeferredFrame`, proofs | done |
| 2 | `HashKeys`, `HashJoin`, proofs (with those of step 9) | done |
| 3 | `GroupAggregate`, `HashGroupBy`, proofs | done |
| 4 | `SequentialScan`, `PrefixScan`, `StreamCompaction`, proofs | done |
| 5 | `SortWords`, `SortedColumn`, `DeviceSort`, `SortGroupBy`, proofs | done |
| 6 | `KernelLibrary`, `TreeReduction`, proofs; `Expressions`, `DeferredReduction` | done |
| 7 | `DeviceSeries`: element-wise kernels, masks, rolling windows and the memory behind them, proofs | done |
| 8 | `StringKernels`, `PandasStrings`, `DeviceStrings` | done |
| 9 | `PandasMerge`, `FrameMerge`, proofs: merges around the hash join | done |

Lemmas that several proofs use are in `CommonLemmas`. What is left out is in
section 7.

Abstract specifications: `EagerFrame` (pandas, one call at a time),
`PandasMerge`, `GroupAggregate` (implemented twice, by `HashGroupBy` and by
`SortGroupBy`), `SequentialScan` and `SortedColumn`. Each says what pandas
answers; the detailed module is shown to implement it with `INSTANCE` and a
`PROPERTY`. `Expressions` and `PandasStrings` are references of another kind:
operators that define the answer, against which the device's are compared.

Compositions: `FrameMerge` puts `merge()` around `HashJoin`; `StreamCompaction`
puts its callers around `PrefixScan`; `SortGroupBy` uses the radix sort of
`DeviceSort`; `TreeReduction` extends `KernelLibrary`, and `DeferredReduction`
adds expressions, whose partials go through the passes of `TreeReduction`;
`DeviceStrings` runs the operators of `StringKernels` in its threads. The sum in
`HashJoin` is the result of the scan of `PrefixScan`.

## 3. Modules and the code

### 3.1 `FrameData`, `EagerFrame`, `DeferredFrame`

A column is the sequence of its values; a series also has the labels of its
rows. What an expression computes in one row is the constant `Apply`; the model
follows how series and expressions are moved around.

| Model | Code |
|---|---|
| `own`, `obj`, `wrapped` | inherited data, `_pandas_obj`, `_pandas_obj is not self` |
| `pending` | `_pending_assigns`: pairs of key and `DeferredSeries` |
| `heap` | the series objects the user holds; expressions refer to them, as `LoadColumn` does |
| `CanDefer`, `Deferred` | `_indexes_align`: the first operation of an expression (`Seed`) compares the indexes of its operands and fixes the size; operands that are added later are not compared |
| `SetDeferred`, `SetSeries`, `SetScalar` | `__setitem__`, branch by branch |
| `GetColumn` | `__getitem__` with a name: flushes only when that name is queued |
| `ReadOwn`, `ReadObj` | reads through the proxy's own data and through `_pandas_obj` |
| `Flush`, `FlushFused`, `FlushSingly` | `_flush_pending`: queue cleared first, one kernel for all entries, or one per entry up to the first that fails |

The length of a result, its fresh `RangeIndex`, the alignment by label that
`pd.DataFrame.__setitem__` then does (`Reindex`), kernels without rows and
kernels with too many inputs are modelled, because properties depend on them.
`View` is the frame that pandas would have: the stored columns with every queued
assignment made at once, its operands aligned by label. `EagerRefinement` says
that with `frame <- View` the proxy implements `EagerFrame`, returned values
included. `AnswersLoseNothing` is about what that one excludes, kernels that fail
and calls past the queue: a read that answers leaves `View` as it is, in every
state in which the kernels can compute the queue at all (`QueueFits`: labels are
positions, and the sizes that kernels run with are the lengths of the operands,
`RunsOver`).
`OtherCalls` switches on calls that bypass the queue or change what it refers to:
`ReadInherited` (`df.values`), `SetListKey` (`df[['k']] = v`) and `ChangeSeries`
(`s.iloc[0] = v`). The refinement is checked without them; types, uniqueness of
the queue, the agreement of the copies and `AnswersLoseNothing` also with them.

Not in the model: the order of columns, assignment under a boolean mask, and the
frames inside groupby and rolling objects.

### 3.2 `HashKeys`, `HashJoin`, `PandasMerge`, `FrameMerge`

`HashKeys` has what both hash tables share: encoded keys, the sentinel word of
an empty slot, the table size, the probe sequence. `HashJoin` is
`metal_hash_join`, `FrameMerge` is `ProxyDataFrame.merge` with `_metal_merge`.

| Model | Code |
|---|---|
| `LoadSlot`, `Claim`, `LoseSlot`, `StoreRow`, `GiveUp` | one thread of `hash_join_build`, a step per access to the table |
| `CountMatches`, `WriteMatches` | a thread of the probe kernels; these only read the table and write cells of their own, so a thread is one step |
| `InclusiveSum`, `OffsetOf`, `Total` | the prefix sum and its use in `join.rs`, modulo `CountMod` (2^32 in the code) |
| `EmptySide`, `StartBuild`, `StartCount`, `NoMatches`, `StartWrite`, `Finish` | the host between kernels |
| `DeviceError`, `FallBack` | a command buffer that fails, and `merge()` answering with pandas |
| `Declined` | `how`, several keys, dtypes and arguments that go to pandas at once |
| `Gathered`, `Lengthened`, `WithLeftRows`, `WithRightRows`, `Assemble` | the columns of the result, and the rows without a partner behind them |
| `GatherFails`, `AskPandas` | an exception in `_metal_merge`, and the fallback |

A cell of a frame is the key, or the pair of row and column it was copied from,
so a value that ends up in another row or column is another value.
`PandasMerge` promises a frame with pandas' columns and, in any order, exactly
pandas' rows; `MergeIsCorrect` is that specification. `Stripped` is what
`col.rstrip("_x")` makes of a name: it strips letters, not a suffix, and the run
uses names of which it strips the suffix alone (see section 6).

### 3.3 `GroupAggregate`, `HashGroupBy`

The same for `metal_groupby_*` below `HASH_MAX_LEN` and `_try_metal_agg`:
`filter_nulls_for_groupby` gives `Threads`; `LoadSlot`, `Claim`, `LoseSlot`,
`ReloadSlot`, `DrawId`, `StoreId` are the build kernel, access by access;
`FetchAccumulate` is an atomic addition, minimum or maximum, and
`LoadAccumulator`, `Settle`, `Swap`, `LoseSwap` the loop that float minima and
maxima need; `CompactSlot` is a thread of the compact kernel. A mean runs two
accumulate passes over one table, and its two parts are kept apart (the division
is the host's). `GroupAggregate` is pandas' answer up to the order of groups.
`Inputs` is the set of column pairs a call can be made with: rows of key and
value, whether they carry a null mask, and whether the values are floats. The
DataFrame's group-by makes series without masks (`_metal.py:676-681`), so inputs
with a mask are calls of the engine itself, as its tests make them, and a NaN in a
DataFrame's column arrives without one. What becomes of it is not pandas' answer
(section 6); the run has no such input, and the proofs exclude it by `NoBareNaN`.

### 3.4 `SequentialScan`, `PrefixScan`, `StreamCompaction`

`PrefixScan` is `cumulative_scan` with the kernels of `scan.metal`, and
`fill_scan_dispatch` with those of `fill_scan.metal`, which have the same
structure; `Combine`, `Identity` and `Index` are where the five operations
differ.

| Model | Code |
|---|---|
| `levels` | the recursion: input, output and partials of each call on the stack |
| `at`, `shared`, `reg` | what each thread has done in the current kernel, threadgroup memory, the variable `val` |
| `LoadCell`, `ReadCells`, `WriteCell`, `Publish` | the four parts of pass 1, with a `Barrier` wherever the kernel has one |
| `Start`, `Recurse`, `Return` | the host: a call, the call for the partials, `return Ok(output)` and the dispatch of pass 2 |
| `Propagate` | a thread of pass 2 |
| `ScanError` | a command buffer that fails, at any depth |
| `HandBack`, `StartCompact`, `CompactRow`, `FinishCompact` | the dispatch functions and `metal_compact` |
| `RaiseScanError`, `CompactError`, `FallBack` | exceptions on their way to `ProxySeries`, which asks pandas |

Between two barriers a thread accesses threadgroup memory in one step: it only
reads, or only writes its own cell, so a finer grain adds no other outcome. The
width of a threadgroup, 256 in the code, belongs to the call (`size`), so that
small columns recurse; it is a power of two in the runs and any number above one
in the proofs. Values are integers modulo `Word`, and `NaN` is a number of its
own: the order in which a sum of floats is rounded is not in the model. A filter
returns the numbers of the rows it keeps.

A sum is taken in the width of the column, `Word`, and answered so; pandas adds
integers in 64 bits, which is the call's `acc` in `SequentialScan`. For a column
of eight bytes the two are equal. For a narrower one (`acc` above `Word`) they
differ as soon as a sum leaves the type (section 6).

`ScanIsCorrect` is `SequentialScan`: one answer, computed from the column by
the definition of the operation.

### 3.5 `SortWords`, `SortedColumn`, `DeviceSort`, `SortGroupBy`

`SortWords` has bit patterns of one or two digits of `RADIX_BITS` bits, each
with `NUM_BUCKETS` values: how they compare as numbers (two's complement; floats with two zeros, an infinity and a
NaN) and the key whose digits the radix sort goes by.

| Model | Code |
|---|---|
| `Padded`, `SetUp` | `alloc_padded_key_buffer`, the identity index buffer, nulls as largest word |
| `LoadBlock`, `StepBlock`, `StoreBlock` | a threadgroup of the bitonic block kernels, a network step at a time |
| `GlobalStep`, `EndBlocks`, `NextStage` | kernels over the whole column and the host's loops over stages |
| `BuildHistogram`, `Scatter`, `EndPass` | the CPU's counts, one thread of the scatter kernel, the swap of buffers |
| `Return`, `DeviceError`, `FallBack` | the first `len` keys or row numbers; errors, and pandas |
| `StartGather`, `GatherValues` | `groupby.rs`: values brought into the order of the keys |
| `ReturnAtOnce`, `DrawNumber`, `WriteEntry` | one thread of `sort_agg.metal`: not a leader; the atomic counter; the entry of its group |

Thresholds and the size of a block belong to the call, so short columns go
through every kind of kernel. In a block all threads step together between
barriers: pairs are disjoint, each is exchanged by one thread.
`ColumnIsSorted` is `SortedColumn`, which leaves the order of equal rows open;
`SortGroupByIsCorrect` is `GroupAggregate`, the specification of the hash path.

### 3.6 `KernelLibrary`, `TreeReduction`, `Expressions`, `DeferredReduction`

`KernelLibrary` is `GpuTuning`, `load_library`, the pipeline cache and debug
mode: a pipeline remembers the tuning and the mode it was built with.
`TreeReduction` is `dispatch_reduction` with its kernels.

| Model | Code |
|---|---|
| `Ask`, `Refuse`, `AnswerAllNull`, `SetUp`, `CompileFails` | a call up to its pipelines, with every early return |
| `Element`, `Input`, `ThreadTotal`, `LaunchPass` | what a thread reads, with the mask in the first pass only |
| `TreeRound`, `SimdRound`, `StorePartials` | threadgroup memory folded in halves, or by SIMD groups; a partial per group |
| `ReadScalar`, `ReadUnwritten`, `CommandBufferError`, `AskPandas` | the result, an empty narrow sum, errors, the fallback |
| `SetDebug` | `set_debug_enabled`, between calls |
| `compile_bytecode`, `eval_program`, `RunGenerated` | `_compile_bytecode`, the interpreters' stack machine, the generated expression |
| `Defer`, `LaunchFused`, `EndFused`, `FusedRaises`, `FusedFailed` | a reduction of a deferred series by the fused kernel |
| `RunCodegen`, `CodegenFails`, `RunInterpreter`, `InterpreterFails`, `Raise` | reading a deferred series: generated kernel, interpreter, exception |

`AnswersAgree` compares each answer with the expression tree, evaluated row by
row and reduced as pandas does. `Formatted` is what a scalar is after the
generator has printed it with eight decimals.

### 3.7 `DeviceSeries`

Element-wise calls one Python statement at a time, with other Python threads in
between, and the memory behind them. A block of memory is in use while something
keeps it (`Live`); else it is free at once and the next allocation gets the
lowest free block, the choice that exposes a use after free soonest.

| Model | Code |
|---|---|
| `columns`, `results`, `operands`, `arrays`, `bound` | who refers to which memory: the user's columns, arrays handed out, a handler's arguments and its local variables |
| `Call`, `ExtractView`, `ExtractCopy` | `_try_metal_or_fallback` with the guards of the handlers; `_extract_array`, which copies when an array is not contiguous or of another type |
| `from_numpy`, `from_numpy_with_nulls` | a buffer over the array's memory; a copy with a mask |
| `metal_binary_op`, `metal_compare_op`, `metal_shift`, `metal_fillna`, `metal_rolling`, `metal_unary_op`, `eval_expression` | the kernels, with masks packed from bytes to bits |
| `ReturnView`, `ReturnCopy`, `Restored` | results as views of device memory, or converted, with NaN and NaT put back and `min_periods` applied |
| `DispatchFails`, `Raise`, `AskPandas` | errors and the fallback, which raises itself when columns with different labels are compared (`Incomparable`) |
| `DropColumn`, `DropResult`, `WriteResult`, `WriteColumn` | other threads; columns are written between calls only |

### 3.8 `StringKernels`, `PandasStrings`, `DeviceStrings`

A string is a sequence of code points to Python and of UTF-8 bytes to the
kernels. `StringKernels` is what a kernel computes for one row, size and write
kernels apart; `PandasStrings` is what Python's methods answer.

| Model | Code |
|---|---|
| `ForPandas`, `Decline`, `StartKernel` | the guards of the `.str` methods; `_metal_string_series` with its cache |
| `FirstThread`, `LayOut`, `SecondThread` | a thread of the size, or only, kernel; offsets summed on the host; a thread of the write kernel, at its offset |
| `ReadAnswer`, `ReadFails`, `AskPandas` | results read as UTF-8, or refused; the fallback |
| `ChangeInPlace` | a series written before its first string call, or with `ChangeAnyTime` at any time |

### 3.9 Abstractions shared by the hash modules

* Words have four bits, with the order and the sign flip of the code's encoding.
* `WeakCas` says whether a compare-and-swap may fail while the slot is as
  expected. Metal has only the weak form, so TRUE is what the language allows;
  FALSE is the usual assumption about hardware, and what the runs assume.
* Fresh device memory holds anything (`Garbage`); rows of a free slot are never
  read by the join, and its `tableRows` starts at `NoRow`.
* A thread step on a variable of its own is not separated from the access to
  shared memory before it.

## 4. Runs

`PROJECT.json` has a sentence for each. The longest takes a minute and a half
with two workers.

| Run | Bounds | Why they are enough |
|---|---|---|
| `frame_queue` | 2 rows, 2 columns, 2 series, expressions of up to 2 operands, index 0, 1 | two rows tell a reversed or shortened column from the right one; two names and two entries give a queued column a before and an after, overwritten or read in between |
| `frame_faults` | 2 rows beside a series of one row; three expressions, which compare indexes or take an operand unchecked; kernels that take one input; kernels that fail anywhere; the other calls | every way in which a flush can stop half-way, with and without earlier columns stored; sizes of one and two rows in one queue, in either order |
| `join` | inner merges up to 3 x 3 rows (`LeftSides`, `RightSides`), all other merges for up to 3 rows in both frames (`MCCallsOn`), tables of up to 8 slots, device errors | either side is built, a probe sequence wraps, keys share a home slot, threads race for one slot, duplicate keys, empty sides; rows without a partner on one side, both and none, with one and two key names and with overlapping columns |
| `group` | up to 3 rows (`MCInputs`), five operations, garbage 1, device errors | threads race for a slot, for numbers and for an accumulator; a number left in fresh memory is a valid one (two groups) or not (one group) |
| `scan` | up to 7 cells (`MCCalls`), groups of 2, 4 and 8 threads, values below 8, device errors | one, two and three rounds between barriers; one, two and three levels of recursion; a last group that is not full; NaN at every position that matters; a mask with no row and with several |
| `sort` | up to 8 cells, blocks of 2 and 4, words of one and two digits of four values (`MCCalls`), group-bys of up to 4 rows, device errors | up to two stages over the column after the blocks; a column that is not a power of two; two digits that disagree; equal keys apart and together, both zeros, the largest word beside padding |
| `reduce` | two calls of up to 9 elements or expressions of up to two operators, three machines, 2 or 4 threads, SIMD groups of two, stack of 3 | one to four passes, last groups that are not full, masks with no, one and several rows; each evaluator and each fallback between them; a pipeline built before debug mode changed |
| `series` | two calls on 3 rows, mask bytes of two bits, four pairs of columns, windows of 1 to 4 | a last byte that is not full; a block freed and used again within one call; two operands of which one is dropped; windows shorter and longer than the column |
| `strings` | two calls, every string of up to three characters out of four, columns of up to three strings (`MCColumns`) | matches that overlap, touch and end the string; a character of two bytes cut in half; empty strings and empty results beside others |

The runs that end in a violation check one property each, with one part of the
environment changed:

| Run | What is changed |
|---|---|
| `bug_bfill` | a column whose last threadgroup has no valid value |
| `bug_argsort` | the bitonic argsort of a column that holds the largest number of its dtype |
| `bug_metallib` | a precompiled library that loads on a newer GPU |

Deadlock is checked in `frame_*`, `join`, `group`, `scan` and `sort`: a call that
has returned stutters by an action of its own (`Returned`, `Idle`, ...), and a
frame always has another call. The other runs end after `MaxCalls` calls, so
they really stop and say so; that no call stops in the middle is `CallsAnswered`
for reductions.

Liveness is part of `MergeIsCorrect`, `GroupByIsCorrect`, `ScanIsCorrect`,
`ColumnIsSorted` and `SortGroupByIsCorrect`, whose abstract specifications
promise that the call answers, and is `CallsAnswered` for reductions. The hash
modules assume weak fairness of the host (it waits for command buffers and goes
on) and of each thread of a kernel (no thread waits for another, and the device
runs every thread to its end, or reports an error). A swap that fails spuriously
for ever is excluded: by the fairness of the step that succeeds it, and in the
accumulator loop by leaving the spurious failure, which changes nothing, out.
The others assume less: while a call can go on, something of it does
(`Progress`, `SortStep`, `Serve`). For the scan this shows that no group of
threads waits at a barrier for ever, for reductions that the loop over passes
ends. `DeviceSeries` and `DeviceStrings` state no fairness: their calls have a
fixed number of steps.

## 5. Proofs

Each theorem holds for every value of the constants that meets the ASSUMEs of
the modules and, where it names one, a condition of its own.

| Module | Theorems | Condition |
|---|---|---|
| `DeferredFrame_proofs` | `TypeCorrect`, `QueueUnique`, `CopiesAlwaysAgree`, `AnswersNeverLose` | none |
| | `ReadsOnlyRead` | `FrameLong`, `KernelsWork`, `OneIndex` |
| | `ConcreteAlwaysWins` | no assignment with a list key |
| | `ProxyIsEager` | `FrameLong`, `KernelsWork`, `OneIndex`, `OtherCalls = {}` |
| `FrameMerge_proofs` | `JoinTypes`, `JoinNoHole`, `JoinRowsStored`, `JoinProbesFindRows`, `MergeTypes`, `MergeNoHole`, `MergeProbesFindRows` | `SoundTable` |
| | `JoinWritesInBounds`, `MergeWritesInBounds` | and `FewMatches` |
| | `JoinListsMatches` | and `EncodesClasses` |
| | `MergeAnswersPandas` | and `SoundCalls` |
| `HashGroupBy_proofs` | `GroupTypes`, `GroupKeyHasOneSlot`, `GroupRowsFindGroups`, `GroupNumbers`, `GroupCounterFits` | `SoundTable` |
| | `GroupAccumulates` | and `NoBareNaN`, `NaNApart` |
| | `GroupByAnswersPandas` | and `SoundGroups` |
| `StreamCompaction_proofs` | `ScanTypes`, `ScanLockstep`, `ScanPrefixes`, `PlacesAlwaysApart` | none |
| | `PrefixesAlwaysFolded` | `Forward` |
| | `ScanImplementsSequential` | `Alike`: `Forward` and `SumsFit` |
| `SortGroupBy_proofs` | `GroupSortAlwaysTyped`, `RowsAlwaysWhole`, `DigitsAlwaysSorted` | none |
| | `RunsAlwaysSorted` | `NetworksCompareNumbers` |
| | `SortsAnswerPandas` | `SortableColumns` |
| | `GroupsAnswerPandas` | and `SoundGroupCalls` |
| `TreeReduction_proofs` | `PipelinesOfTheMode` | none |
| | `PassesReadOnce` | `MatchingBinaries` |
| | `TotalsAlwaysKept`, `ReductionsAnswerPandas` | `SoundReductions` |
| `DeviceSeries_proofs` | `ArraysKeepTheirValues` | none |
| | `KernelsReadTheirColumns` | `OnlyLastIsCopied` |
| | `SeriesAnswerPandas` | and `SoundRequests`, `SoundFloats` |

What the conditions say, and where the code meets them or does not:

* `FrameLong`: a frame with rows, and series as long as it; `KernelsWork`: no
  kernel fails and one entry fits a kernel; `OneIndex`: the frame has the default
  index, and so have the series. The code checks none of the three. It stores
  other columns than pandas when one is not met (section 6), so these theorems
  say for which frames the queue is right.
* `SoundTable`: swaps fail only for a reason, as on the hardware (section 3.9),
  and no key encodes to the word of an empty slot. The second is true of every
  key but the largest of its type. Neither can be dropped: `WeakCas = TRUE`, or
  keys up to the largest (`KeysToMax` with the columns `Largest` in
  `MCFrameMerge`), give counterexamples.
* `FewMatches`: fewer than 2^32 pairs, more of which no device can hold.
  `EncodesClasses`: keys are equal to pandas if and only if they encode alike.
  `SoundCalls`: the key columns are there, and no overlapping name ends in a
  letter of its suffix (section 6).
* `NaNApart`: NaN is none of the numbers. `NoBareNaN`: a missing key or value
  carries a mask. The code does not see to that: the DataFrame's group-by makes no
  mask, so of its calls the theorems cover integers and floats without NaN; calls
  with masks are the engine's own. `BareNull` of `MCHashGroupBy` gives
  counterexamples without it. `SoundGroups`: encodings tell groups apart, each
  group has a value, and no sum of integers overflows; elsewhere code and pandas
  differ (section 6).
* `Forward`: a backward fill fits one threadgroup; `bug_bfill` is a longer one.
  The other operations may take any number of groups and levels. `SumsFit`: no
  cumulative sum leaves the type of its column, unless pandas adds in that type
  too. The code does not look; `Overflowing` of `MCStreamCompaction` gives a
  counterexample.
* `SoundReductions`: columns hold values of their type; threads per group are a
  power of two and at most `SimdWidth` SIMD groups, 256 and 32 in the code;
  `MatchingBinaries`, a binary loads only where its tuning applies, which
  `bug_metallib` gives up.
* `NetworksCompareNumbers`: a column that goes through the bitonic network holds
  no NaN, but for rows that a sort takes for nulls. The kernel compares with `>`,
  which is no order on NaN, so it promises nothing of runs that hold one.
* `SortableColumns`: no value is NaN; only a sort looks at the mask; no argsort
  through a network holds the largest word, and a radix sort takes two passes.
  Elsewhere the answer is wrong (section 6): `WithNaN`, `LargestWord` and
  `OnePass` of `MCSort` give a counterexample each. All columns of the run `sort`
  meet it. A digit has more than one bit, or a float would have no exponent.
* `SoundGroupCalls`: a group-by is called with what the engine makes of rows of
  the column's type, every key comes with a value, and a row that lacks its key or
  its value is marked by a mask (`NoBareNull`). The last two are not seen to by the
  code: the DataFrame's group-by makes no mask, so of its calls the theorem covers
  those without NaN. Elsewhere code and pandas differ (section 6). All calls of
  the run `sort` meet it.
* `OnlyLastIsCopied`: of the columns of an expression only the last may be
  strided; with any other, the loop frees a copy that a series is still to read
  (section 6).
* `SoundRequests`: handlers get the one or two columns they take, and windows
  have one of the aggregations of `ProxyRolling` and at least one row (the engine
  refuses others, `check_window`). `SoundFloats`: a float, also one that is
  written in place, is a number or missing; the least and the greatest of a window
  need an order. The run `series` meets these and `OnlyLastIsCopied`.

**`CommonLemmas`.** The library's induction theorems take an operator, which the
provers cannot instantiate, so induction is stated for sets of numbers
(`SetInduction`) or of subsets (`SubsetInduction`). On it rests the one recursive
notion the components share: `FoldOf(op, V, zero, f, S)`, the values of a function
over a finite set combined in any order. For a `Monoid` it does not depend on the
order (`FoldOfFacts`), goes over to a renamed set (`FoldMapped`), to unions and
to partitions (`FoldUnion`, `FoldParts`), and ignores neutral cells
(`FoldNeutral`). That is the argument by which blocks, threads, atomics and the
rounds of a tree all compute one sum. Proofs first show that a recursive
function of a module, or a fold of the community modules, is such a fold
(`ReducedIsFolded`, `FoldOfFunction`); nothing is proved by unrolling.

**Frame.** The invariant `IInv` is the conjunction of the types, `PendingUnique`
and `CopiesAgree`. `Without` removes one entry, which removes the key only if it
is queued once, so types and uniqueness are proved together; `StoreBoth` is the
one operator that writes the copies, and preserves their equality. What the
queue means is in two parts. A kernel of `n` threads whose expression `RunsOver`
`n` computes the column that pandas would (`KernelIsEager`): rows that an operand
lacks are missing either way. So a flush that stores every entry, on whichever
path, stores the columns of `View`, and a flush that returns without an exception
has stored every entry, or the read would have raised (`FlushKeepsMeaning`);
`AnswersNeverLose` needs nothing else. That every read answers rests on `SameRows`
besides, that expressions are as long as the frame, on `SameIndex`, that series
have its index, and on kernels that work. `ProxyIsEager` is the whole safety half
of `EagerRefinement`, one abstract step or none for every call.

**Hash tables.** `NoHole` is not inductive by itself. The invariant adds that a
thread which has claimed a slot has its key there, that different rows have
different slots (join) or that equal keys have one slot (group-by), and that an
occupied slot belongs to some thread. The last gives an injection of occupied
slots into rows; by the pigeonhole principle at most half of the table is
occupied, so no thread runs out of slots (`NeverFull`), and every row is stored.
For the group-by the numbers drawn are moreover shown to be distinct, below the
counter, and all of them drawn by a thread that holds a slot; the counter is then
bounded by the number of threads.

**Join and merge.** `BufferInv` follows the kernels behind the table: a thread
that has counted has counted all rows with its key, the offsets are sums of
those counts that do not wrap, and the cells of a thread that has written hold
its pairs. Offsets that differ by a count make the stretches of two threads
disjoint, so the pairs are an enumeration of all matches (`Joined`). The
invariant of the join is one of the merge, whose steps are steps of the join or
leave its table alone; an assembled frame lists, in some order, the rows of
`PandasMerge` (`ListsOrigins`), and so does the one that pandas is asked for.

**Group-by.** `AccumInv` has a clause per pass: later ones have untouched
accumulators, earlier ones are complete, and each cell of the current one is the
fold of the rows whose threads have returned. A swap succeeds only over the
value it was computed from (`SwapsFollow`), so no row gets lost. `OutInv` says
that an entry is in place once the thread of its slot has run; the numbers being
without gap, the entries are all groups, each once.

**Scan.** `OnePrefixPerGroup` needs the shape of the whole stack: a call's output
has a cell per cell of its input, its partials one per group, and the input of
the call above it is as long as those partials (`StackShape`). A call that
returns then leaves the one below with a prefix per group, at any depth.
`Lockstep` is inductive: a thread passes a barrier when nobody of its group is
behind it. `FoldInv` says which stretch of the column each thread has folded
after each of its rounds, and that a call on partials works on the folds of the
groups below; folds of adjacent stretches combine (`StretchFold`: the cells stay
in their order, since fills do not commute). A filter writes row `i` to the place its
prefix sum gives, which grows with every row kept: two rows never share a place.

**Sorts.** The network exchanges cells in pairs that do not overlap, so rows stay
whole and none is lost (`BlocksWhole`), whatever the block. A pass of the radix
sort gives each row the count of the rows that go before it (`Scattered`): a
permutation which keeps the order among equal digits. With the digits before
sorted (`InOrder`) the next ones are. The words are bits, so the order of the
digits is that of `SortWords` by arithmetic only. Of the network, `Sorting` says
how far the merge of the current stage has got. Before the exchange at distance
`2^d`, each part of `2^(d+1)` cells rises and falls at most once, as a ring, and the
parts are in order (`Merged`); the exchange leaves that true of the halves
(`HalfCleaned`). Parts of one cell in order are sorted runs, and two neighbouring
runs, one upwards and one downwards, turn once (`RunsMakeBitonic`). A block is
loaded, stepped and stored apart from the others, so `Sorting` speaks of the key
of each cell where it is at the moment (`Current`), and of each block's steps.
That the answer is right (`SortsAnswerPandas`, the refinement of `SortedColumn`
but for its promise to answer) then is about the cut. The keys of the radix sort
are in the order of the numbers (`KeysFollowNumbers`), and nothing but NaN is
above the word that pads (`MaxIsOnly`). So the sorted cells begin with the rows
that hold less than it (`Listing`), and of the rest, which hold that word, any
cells are as good as others: each word is there as often as among the valid rows
(`ListingCounts`). An argsort has to keep the padding itself behind the rows,
which is where the ties of the radix sort, and the ban on the largest word in a
network, are needed. `PandasAnswer` is right because the ranks of rows are a
permutation (`RanksOrder`). After an even number of passes the answer is in the
first buffers (`Placed`).

The group-by goes on from there (`GroupsAnswerPandas`, the safety half of
`SortGroupByIsCorrect`). The sorted cells begin with the rows that have key and
value (`RowsInFront`), and the gathered values are theirs (`CellsKnown`). Cells in
order have one leader per key, and its run is all cells of that key
(`LeadersAndRuns`, `RunIsGroup`): the rows of the group under other numbers, over
which the fold is the same (`FoldRunAggregates`, by `FoldMapped`). `Led` follows
the threads: numbers drawn are distinct and without gap, only leaders have one,
and a leader that has returned has written its entry. So the list that is cut off
at the counter names each group once (`LeadersList`).

**Reductions.** `PipelinesFollowDebug` is inductive with the type of `debug`: the
cache is emptied when the mode changes, and filled with what `LoadedBuild`
returns. `EachElementReadOnce` needs that kernels read as much as the grid
assumes (`KernelsMatch`, `PassMatches`) and that buffers are indexed from 0
(`BuffersIndexed`), and then arithmetic: an element below `num_threadgroups`
times the elements of a group has exactly one group, thread and read
(`SlotOfElement`, from the uniqueness of quotient and remainder). `TotalsInv`
adds that the cells a pass reads, the sums of its threads and the lanes that are
left after each round have one fold, that of the column: an element is in
exactly one thread (`LaunchFolded`), a round in halves or by SIMD groups is a
partition (`HalvesFolded`, `LanesFolded`). At the end one cell is left, and
every answer is the one of `PandasReduction`, save a sum of no values (section
6).

**Series.** `ArraysStand` needs that no two columns or arrays handed out share a
block (`BlocksApart`) and that a result that is made but not yet returned is in a
block of none of them (`MadeApart`). Both rest on `NewBlocks`: an allocation takes
a block that is not in use, and what is kept is in use. `SeriesReadTheirColumn`
follows a handler instead: every operand, every array that still has a variable
or is a view of its column, and every series made of one holds what the column
held, in a block that no array handed out has (`ReadInv`, by the lemma `HoldsOn`
for each of them). What a mask says is arithmetic on quotient and remainder
(`BitOfRow`), for bytes of any width.

`AnswersAgree` adds `AnswerInv`: what is served has passed the handler's guards,
a mask is made if and only if arithmetic on floats meets a missing one
(`MasksFollow`), and a result that is made restores to what pandas answers
(`MadeRight`) for as long as it is neither returned nor dropped (`MadeLasts`: its
blocks are kept, and no array that could be written is in them). Each kernel then
has one lemma about a row. A validity that is packed into bits is found in them
again (`PackTells`); a window without missing values is an interval of rows
(`WindowRows`), and the least value that a thread folds is the one pandas chooses
(`FoldPicks`, by induction on the subsets of the window).

Only model-checked: liveness, that is `CallsAnswered` and the promise of every
refinement that its call answers (the prover has neither fairness nor ENABLED);
and everything about expressions and strings (`AnswersAgree` of
`DeferredReduction`, `SizesKept` and `StringsAgree` of `DeviceStrings`), for
`Expressions` and `StringKernels` follow trees and strings with RECURSIVE
operators, which the prover cannot reach.

## 6. What the code does differently from what it says

Shown by runs; `PROJECT.json` quotes the sentence each one contradicts.

* `bug_bfill`: a backward fill over more than 256 rows can fill a missing value
  from an earlier row.
* `bug_argsort`: the argsort of a short column that holds the largest number of
  its dtype names a row of the padding.
* `bug_metallib`: a library compiled for older GPUs leaves elements out on a
  newer one.

Known from the models, and outside the inputs of the passing runs. The constant
that brings each into a run is named; the property of that run then fails.

| Behaviour | Constant |
|---|---|
| an expression with more inputs than a kernel takes is lost by the flush that fails | `MaxCols` below `MaxLoads` in `frame_queue` |
| results are stored under the wrong labels if the frame's index is not 0 .. n - 1 | `Index <- Reversed2` |
| `a + (b + 1)` is deferred, and pairs rows by position, although the labels of `a` and `b` differ (`_wrappers.py:37`) | `InitHeap <- OtherLabels` |
| a list key leaves a stale expression that overwrites the column later | `OtherCalls` with `"list key"` |
| `df.values` and other inherited reads do not flush; a series changed in place changes an assignment made earlier | `OtherCalls` |
| a frame without rows: no results, and the queue is already empty (`codegen.rs:257`) | `InitFrames <- Start0`, `Index <- Range0`, `InitHeap <- NoHeap` |
| queued expressions of different lengths run with the length of the first (`_wrappers.py:134`) | `InitHeap <- OneOfOneRow` |
| rows with key 2147483647 vanish from merges and have no group | `KeysToMax` with `Largest`; `Inputs` with that key |
| a swap that fails spuriously hides a row, or lets a key enter two slots | `WeakCas`; in the group-by with `SameKey` |
| 2^32 pairs are none | `CountMod = 4` with `Twice` on both sides |
| a left or right merge fills unmatched rows of an overlapping column whose name ends in a letter of the suffix, such as `max`, with NaN (`_wrappers.py:555`, 570: `rstrip`) | `CallsOn <- EndingInX`, `Stripped <- CutLetters` |
| a group of nulls only is missing | `Inputs <- AllNull` |
| the DataFrame's group-by marks no NaN: a missing value is added or compared, a missing key is a group (`_metal.py:678`) | `Inputs <- BareNull` |
| -0.0 and 0.0 are different keys of the hash tables | `Class` |
| cumulative sums of integers below 64 bits wrap around in the width of the column (`_metal.py:238-244`), where pandas widens | `Calls <- Overflowing` |
| the sum or mean of large int32 values wraps around in the hash group-by | `Inputs` with larger values |
| a NaN of an unmasked float column may be sorted behind the padding, where it is cut off | `Requests <- WithNaN` |
| a long column of an 8-bit type comes back unsorted: its only pass leaves the answer in the second buffers (`sort.rs:260`) | `Requests <- OnePass` |
| a reduction of an expression with an operator only the newer interpreter has raises nothing and is wrong | `Jobs <- SumOfSine` |
| `str.len`, `get`, `slice`, `find`, `pad`, `isalpha` count and test bytes (`docs/FEATURE_GAP.md:40-42` says "literal, ASCII") | `CallsOn <- ByteCalls` |
| letters beyond ASCII keep their case; whitespace beyond ASCII is not stripped | `Columns <- LatinColumns`, `CallsOn <- LatinCalls` |
| replacing the empty pattern does nothing | `CallsOn <- EmptyPattern` |
| the device copy of a string series outlives changes of the series (`_wrappers.py:639`) | `ChangeAnyTime = TRUE` |

Known from reading the code and not in a model:

* `insert()` writes one copy of a frame only;
* on the sort path a NaN in a DataFrame's group-by carries no mask either, and
  takes part in the sort and in its group's aggregate;
* groups come in the order threads drew their numbers, where pandas sorts them
  (left open by `GroupAggregate`); rows of a merge come in an order of their own,
  those without a partner at the end (left open by `PandasMerge`);
* suffixes that make two columns of one name overwrite one, where pandas raises;
* `ffill(limit=n)` and `bfill(limit=n)` drop their arguments
  (`_wrappers.py:920-924`);
* `_materialize` (`_deferred.py:205-213`) and `_flush_pending`
  (`_wrappers.py:127-131`) bind the extracted array of each column to one loop
  variable: an array that had to be copied is freed while the series over its
  memory is still to be read. In `DeviceSeries` this is `Bound`; the run's
  expressions have to copy their last column only, as `OnlyLastIsCopied` says;
* NaT in datetime arithmetic and comparisons is an ordinary number;
* batched binary operations ignore masks, although `elementwise.rs:295` says
  "Same as `dispatch_binary_inner`"; only tests make batches;
* sums and means of uint32 wrap around; the sum of a column of nulls is NaN where
  pandas gives 0; an empty narrow sum reads a buffer nobody wrote (`ReadUnwritten`);
* a fused reduction does not skip NaN that the expression makes of values that
  are present;
* the interpreters' stack of eight values is not checked (`StackSize`);
* generated kernels print scalars with eight decimals (`Formatted`);
* min, max and mean of datetime columns lose their type;
* a deferred series without rows or with more than eight inputs raises;
* a `min_periods` above the window answers NaN where pandas raises; a rolling
  result stays float32 when `min_periods` is at most 1;
* `str.contains` and `count` search for the literal pattern, where pandas takes a
  regular expression by default; the comment at `_wrappers.py:1217`, that an access
  in range yields one character, is about bytes.

## 7. Not modelled, and why

* **Datetime kernels**: nothing reaches them, because the `.dt` accessor hands
  them an array type that extraction refuses and always falls back; each is
  calendar arithmetic on one cell.
* **Import accelerator**: a few sequential steps on Python's import machinery,
  whose rules would be the model.
* **Engine registry**: a dictionary filled at import; the lookup with its
  fallback is one step of the callers in `DeviceSeries`.
* **String sorting, comparing and grouping** (`strings.rs` 157-187, 1347-2427) and
  rolling kernels of integers: no Python call reaches them.
* **Arithmetic of single cells**, rounding of float sums, and the text of
  generated kernels beyond the expression: constants of the models.
* **Element-wise**: batched encoders, logical operators, operations with a scalar
  and masked unary kernels; they are the same dispatch with other cells. `fillna`
  of a series that already has a mask is not reached from Python.
* **`ProxyGroupBy`**: column selection and attribute fallthrough are pandas calls.
* **Columns in order, labels of results**: a frame is a function of column names;
  operations on indices that differ go to pandas at once (`SameIndex`).
* **Build script, binding tables, benchmarks**: no state of their own, except the
  tuning of a precompiled library, which is in `KernelLibrary`.
