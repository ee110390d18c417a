----------------------------- MODULE DeviceSort -----------------------------
(***************************************************************************)
(* metal_sort and metal_argsort (rust/src/kernels/sort.rs, metal/sort).    *)
(* The column is copied, nulls become the largest word, and the copy is    *)
(* padded with the largest word to a power of two.  Short columns go       *)
(* through a bitonic network: blocks of cells are sorted in the memory of  *)
(* a threadgroup, longer runs are merged by kernels over the whole column  *)
(* and finished in blocks again.  Long columns go through a radix sort:    *)
(* for each digit the CPU counts and a kernel scatters keys and row        *)
(* numbers into the other pair of buffers.  If the device reports an error *)
(* the wrapper lets pandas sort.                                           *)
(***************************************************************************)
EXTENDS Integers, Sequences, FiniteSets, SortWords

CONSTANTS
  Requests,    \* the calls, each with the thresholds of the build and device
  DeviceFails  \* whether command buffers may end in an error

\* A buffer holds words of its dtype, and a mask has one entry for each.
ASSUME RequestAssumption ==
  \A r \in Requests :
    /\ r.op \in {"sort", "argsort", "groupby"}
    /\ r.dtype \in DTypes
    /\ r.words \in Seq(0 .. Words(r.dtype) - 1)
    /\ r.valid \subseteq DOMAIN r.words
    /\ r.bitonic_max_n \in Nat /\ r.local_sort_stages \in Nat

VARIABLES
  request,  \* the call: operation, dtype, words, valid rows and the thresholds
  answer,   \* << >>, or the one-element sequence of what is returned
  pc,       \* what the host waits for or does next
  keys,     \* the two key buffers, 0 and 1, as functions on cells
  indices,  \* the two buffers of row numbers
  from,     \* radix: the buffers that are read, 1 - from being written
  pass,     \* radix: the digit
  offsets,  \* radix: the tables the CPU has counted
  todo,     \* radix: the threads that have not scattered their cell
  stage,    \* bitonic: runs of 2^(stage + 1) cells are being made
  step,     \* bitonic: cells 2^step apart are compared next, over the column
  at,       \* bitonic: what every threadgroup of a block kernel has done
  lk,       \* threadgroup memory: the keys of the blocks
  li        \* threadgroup memory: their row numbers

radixVars == <<from, pass, offsets, todo>>
bitonicVars == <<stage, step, at, lk, li>>
sortVars == <<request, answer, pc, keys, indices, radixVars, bitonicVars>>

Result == INSTANCE SortedColumn

Rows == DOMAIN request.words

-----------------------------------------------------------------------------
(* Buffers *)

dtype == request.dtype

Length == Len(request.words)

next_power_of_two(len) ==
  CHOOSE p \in {2 ^ k : k \in 0 .. len} :
    /\ len <= p
    /\ \A q \in {2 ^ k : k \in 0 .. len} : len <= q => p <= q

Size == next_power_of_two(Length)

Cells == 0 .. Size - 1

\* build_null_sentinel_buffer; argsort does not look at the mask.
SentinelWord(i) ==
  IF request.op = "sort" /\ i \notin request.valid
    THEN MaxWord(dtype) ELSE request.words[i]

\* alloc_padded_key_buffer.
Padded == [c \in Cells |-> IF c < Length THEN SentinelWord(c + 1) ELSE MaxWord(dtype)]

Init ==
  /\ request \in Requests
  /\ answer = << >>
  /\ pc = "call"
  /\ keys = << >> /\ indices = << >>
  /\ from = 0 /\ pass = 0 /\ offsets = << >> /\ todo = {}
  /\ stage = 0 /\ step = 0 /\ at = << >> /\ lk = << >> /\ li = << >>

SetUp ==
  /\ keys' = [b \in {0, 1} |-> IF b = 0 THEN Padded ELSE [c \in Cells |-> 0]]
  /\ indices' = [b \in {0, 1} |-> [c \in Cells |-> IF b = 0 THEN c ELSE 0]]

-----------------------------------------------------------------------------
(* Bitonic sort *)

BlockSize == 2 ^ request.local_sort_stages

NumStages == CHOOSE s \in 0 .. Size : 2 ^ s = Size

Blocks == 0 .. ((Size + BlockSize - 1) \div BlockSize) - 1

\* The threads of a dispatch; those beyond the column hold padding.
Threads == 0 .. Cardinality(Blocks) * BlockSize - 1

BlockOf(t) == t \div BlockSize

StartBitonic ==
  /\ pc = "call" /\ Length < request.bitonic_max_n /\ request.op # "groupby"
  /\ SetUp
  /\ pc' = "local"
  /\ at' = [g \in Blocks |-> 0]
  /\ lk' = [t \in Threads |-> MaxWord(dtype)] /\ li' = [t \in Threads |-> t]
  /\ UNCHANGED <<request, answer, radixVars, stage, step>>

\* The network of a block kernel: the stage and the distance of its k-th step.
LocalStage(k) ==
  CHOOSE s \in 0 .. k : (s * (s + 1)) \div 2 <= k /\ k < ((s + 1) * (s + 2)) \div 2

BlockNetwork ==
  IF pc = "local"
    THEN [k \in 0 .. (request.local_sort_stages * (request.local_sort_stages + 1)) \div 2 - 1 |->
            LET s == LocalStage(k)
            IN  [stage |-> s, step |-> s - (k - (s * (s + 1)) \div 2)]]
    ELSE [k \in 0 .. request.local_sort_stages - 1 |->
            [stage |-> stage, step |-> request.local_sort_stages - 1 - k]]

Lower(t, d) == IF (t \div 2 ^ d) % 2 = 0 THEN t ELSE t - 2 ^ d

Partner(t, d) == IF t = Lower(t, d) THEN t + 2 ^ d ELSE t - 2 ^ d

\* Mutant: every run is sorted upwards.
AlwaysAscending(t, s) == TRUE

RunAscends(t, s) == (t \div 2 ^ (s + 1)) % 2 = 0

Swaps(ks, t, s, d) ==
  LET lower == Lower(t, d)
  IN  IF RunAscends(lower, s)
        THEN Above(dtype, ks[lower], ks[lower + 2 ^ d])
        ELSE Above(dtype, ks[lower + 2 ^ d], ks[lower])

\* Of every pair, the lower thread compares and exchanges; pairs are disjoint.
Exchanged(values, ks, T, s, d) ==
  [t \in DOMAIN values |->
     IF t \in T /\ Swaps(ks, t, s, d) THEN values[Partner(t, d)] ELSE values[t]]

BlockThreads(g) == {t \in Threads : BlockOf(t) = g}

InKernel == pc \in {"local", "merge"}

LoadBlock(g) ==
  /\ InKernel /\ at[g] = 0
  /\ lk' = [t \in Threads |->
              IF BlockOf(t) # g THEN lk[t]
              ELSE IF t < Size THEN keys[0][t] ELSE MaxWord(dtype)]
  /\ li' = [t \in Threads |->
              IF BlockOf(t) # g THEN li[t]
              ELSE IF t < Size THEN indices[0][t] ELSE t]
  /\ at' = [at EXCEPT ![g] = 1]
  /\ UNCHANGED <<request, answer, pc, keys, indices, radixVars, stage, step>>

\* One step of the network, between two barriers of the threadgroup.
StepBlock(g) ==
  /\ InKernel /\ at[g] - 1 \in DOMAIN BlockNetwork
  /\ LET n == BlockNetwork[at[g] - 1]
     IN  /\ lk' = Exchanged(lk, lk, BlockThreads(g), n.stage, n.step)
         /\ li' = Exchanged(li, lk, BlockThreads(g), n.stage, n.step)
  /\ at' = [at EXCEPT ![g] = @ + 1]
  /\ UNCHANGED <<request, answer, pc, keys, indices, radixVars, stage, step>>

Stored == Cardinality(DOMAIN BlockNetwork) + 2

StoreBlock(g) ==
  /\ InKernel /\ at[g] = Stored - 1
  /\ keys' = [keys EXCEPT ![0] = [c \in Cells |-> IF BlockOf(c) = g THEN lk[c] ELSE @[c]]]
  /\ indices' = [indices EXCEPT ![0] = [c \in Cells |-> IF BlockOf(c) = g THEN li[c] ELSE @[c]]]
  /\ at' = [at EXCEPT ![g] = Stored]
  /\ UNCHANGED <<request, answer, pc, radixVars, stage, step, lk, li>>

NextStage == IF pc = "local" THEN request.local_sort_stages ELSE stage + 1

\* All blocks of a kernel are through: the next kernel of the command buffer.
EndBlocks ==
  /\ InKernel /\ \A g \in Blocks : at[g] = Stored
  /\ IF NextStage < NumStages
       THEN pc' = "global" /\ stage' = NextStage /\ step' = NextStage
       ELSE pc' = "wait" /\ UNCHANGED <<stage, step>>
  /\ at' = [g \in Blocks |-> 0]
  /\ UNCHANGED <<request, answer, keys, indices, radixVars, lk, li>>

AnotherGlobalStep == step > request.local_sort_stages

\* bitonic_sort_impl; the distance is a block or more.
GlobalStep ==
  /\ pc = "global"
  /\ keys' = [keys EXCEPT ![0] = Exchanged(@, @, Cells, stage, step)]
  /\ indices' = [indices EXCEPT ![0] = Exchanged(@, keys[0], Cells, stage, step)]
  /\ IF AnotherGlobalStep
       THEN step' = step - 1 /\ UNCHANGED pc
       ELSE pc' = "merge" /\ UNCHANGED step
  /\ UNCHANGED <<request, answer, radixVars, stage, at, lk, li>>

-----------------------------------------------------------------------------
(* Radix sort *)

\* next_power_of_two and two pairs of buffers, as for a group-by of any length.
StartRadix ==
  /\ pc = "call" /\ (Length >= request.bitonic_max_n \/ request.op = "groupby")
  /\ SetUp
  /\ pc' = "count"
  /\ UNCHANGED <<request, answer, radixVars, bitonicVars>>

DigitAt(c) == Digit(dtype, keys[from][c], pass)

\* Mutants: the counts include the cell itself, or those behind it.
CountsItself(c) == Cardinality({b \in Cells : b <= c /\ DigitAt(b) = DigitAt(c)})
CountsFromBehind(c) == Cardinality({b \in Cells : b > c /\ DigitAt(b) = DigitAt(c)})

LocalOffset(c) == Cardinality({b \in Cells : b < c /\ DigitAt(b) = DigitAt(c)})

BucketOffset(d) == Cardinality({b \in Cells : DigitAt(b) < d})

\* The CPU counts the digits of the buffer the last kernel has written.
BuildHistogram ==
  /\ pc = "count"
  /\ offsets' = [inBucket |-> [c \in Cells |-> LocalOffset(c)],
                 bucket |-> [d \in 0 .. NUM_BUCKETS - 1 |-> BucketOffset(d)]]
  /\ todo' = Cells
  /\ pc' = "scatter"
  /\ UNCHANGED <<request, answer, keys, indices, from, pass, bitonicVars>>

Position(c) == offsets.bucket[DigitAt(c)] + offsets.inBucket[c]

\* radix_scatter_impl, in any order of the threads.
Scatter(c) ==
  /\ pc = "scatter" /\ c \in todo
  /\ keys' = [keys EXCEPT ![1 - from][Position(c)] = keys[from][c]]
  /\ indices' = [indices EXCEPT ![1 - from][Position(c)] = indices[from][c]]
  /\ todo' = todo \ {c}
  /\ UNCHANGED <<request, answer, pc, from, pass, offsets, bitonicVars>>

Swapped == 1 - from

\* Mutant: one pass more than there are digits.
OnePassMore == pass < radix_passes(dtype)

MorePasses == pass + 1 < radix_passes(dtype)

EndPass ==
  /\ pc = "scatter" /\ todo = {}
  /\ from' = Swapped
  /\ pass' = pass + 1
  /\ pc' = IF MorePasses THEN "count" ELSE "wait"
  /\ UNCHANGED <<request, answer, keys, indices, offsets, todo, bitonicVars>>

-----------------------------------------------------------------------------
(* Answers *)

\* The first buffers, wherever the last pass has written; the padding is cut
\* off.  With nulls, a mask that marks the rows behind the valid ones.
DeviceAnswer ==
  IF request.op = "argsort"
    THEN [words |-> [p \in Rows |-> indices[0][p - 1]], valid |-> Rows]
    ELSE [words |-> [p \in Rows |-> keys[0][p - 1]],
          valid |-> 1 .. Cardinality(request.valid)]

Return ==
  /\ pc = "wait" /\ request.op # "groupby"
  /\ answer' = <<DeviceAnswer>>
  /\ pc' = "done"
  /\ UNCHANGED <<request, keys, indices, radixVars, bitonicVars>>

\* A command buffer ends in an error: of the bitonic sort there is one, of the
\* radix sort one for each pass.
DeviceError ==
  /\ DeviceFails
  /\ \/ pc = "wait" /\ from = 0 /\ pass = 0
     \/ pc = "scatter" /\ todo = {}
  /\ pc' = "failed"
  /\ UNCHANGED <<request, answer, keys, indices, radixVars, bitonicVars>>

\* Series.sort_values and argsort catch whatever the engine raises.
FallBack ==
  /\ pc = "failed" /\ request.op # "groupby"
  /\ answer' = <<Result!PandasAnswer>>
  /\ pc' = "done"
  /\ UNCHANGED <<request, keys, indices, radixVars, bitonicVars>>

SortStep ==
  \/ StartBitonic
  \/ \E g \in Blocks : LoadBlock(g) \/ StepBlock(g) \/ StoreBlock(g)
  \/ EndBlocks
  \/ GlobalStep
  \/ StartRadix
  \/ BuildHistogram
  \/ \E c \in Cells : Scatter(c)
  \/ EndPass
  \/ Return
  \/ FallBack

Finished == pc = "done" /\ UNCHANGED sortVars

Next == SortStep \/ DeviceError \/ Finished

\* Threadgroups are scheduled until they end, kernels and the host go on.
Spec == Init /\ [][Next]_sortVars /\ WF_sortVars(SortStep)

-----------------------------------------------------------------------------
(* Properties *)

\* The states of a sort: buffers of the padded size, threads and groups that
\* exist, offsets within the column.
SortTypeOK ==
  /\ request \in Requests
  /\ pc \in {"call", "local", "global", "merge", "count", "scatter", "wait",
             "gather", "lead", "read", "failed", "done"}
  /\ pc \notin {"call"} =>
       /\ keys \in [{0, 1} -> [Cells -> 0 .. Words(dtype) - 1]]
       /\ indices \in [{0, 1} -> [Cells -> Cells]]
  /\ from \in {0, 1} /\ pass \in 0 .. radix_passes(dtype)
  /\ todo \subseteq Cells
  /\ stage \in 0 .. NumStages /\ step \in 0 .. stage
  /\ InKernel => /\ at \in [Blocks -> 0 .. Stored]
                 /\ lk \in [Threads -> 0 .. Words(dtype) - 1]
                 /\ li \in [Threads -> Threads]
  /\ Len(answer) <= 1

\* Whatever has been exchanged or scattered, no row is lost or doubled and every
\* key travels with its row number.
RowsTravelWhole ==
  pc \notin {"call", "scatter"} =>
    /\ \A c \in Cells : \E b \in Cells : indices[from][b] = c
    /\ \A c \in Cells : keys[from][c] = Padded[indices[from][c]]

LowDigits(w, p) == RadixKey(dtype, w) % 2 ^ (RADIX_BITS * p)

\* After p passes the cells are sorted by their last p digits, and cells that
\* agree in them are in the order of their rows: what makes the next pass, and
\* cutting off the padding, right.
DigitsSorted ==
  pc = "count" \/ (pc \in {"wait", "gather", "lead"} /\ pass > 0) =>
    \A b, c \in Cells :
      b < c =>
        \/ LowDigits(keys[from][b], pass) < LowDigits(keys[from][c], pass)
        \/ /\ LowDigits(keys[from][b], pass) = LowDigits(keys[from][c], pass)
           /\ indices[from][b] < indices[from][c]

\* Between the stages of the network, runs of 2^stage cells are sorted, upwards
\* and downwards by turns.
RunsSorted ==
  pc = "global" /\ step = stage =>
    \A b, c \in Cells :
      b < c /\ b \div 2 ^ stage = c \div 2 ^ stage =>
        IF (b \div 2 ^ stage) % 2 = 0
          THEN ~Above(dtype, keys[0][b], keys[0][c])
          ELSE ~Above(dtype, keys[0][c], keys[0][b])

\* Sorting on the device, or on pandas after an error, gives one answer that is
\* right; and it gives it.
SortIsCorrect == Result!Spec
=============================================================================
