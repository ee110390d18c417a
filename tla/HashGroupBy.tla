---------------------------- MODULE HashGroupBy ----------------------------
(***************************************************************************)
(* metal_groupby_*, the hash path, and the ProxyGroupBy method that calls  *)
(* it.  One command buffer runs three kernels one after the other: build   *)
(* enters every key once into a hash table and numbers the groups,         *)
(* accumulate folds each row into its group's accumulator, compact copies  *)
(* keys and accumulators to dense buffers.  Mean accumulates twice, sums   *)
(* and counts, over the same table.                                        *)
(*                                                                         *)
(* The threads of a kernel interleave at every access to the table, to the *)
(* group counter and to an accumulator.  Rows with a null key or value are *)
(* taken out before the dispatch; the rows that stay keep their numbers    *)
(* here, and each is a thread of the first two kernels.                    *)
(***************************************************************************)
EXTENDS HashKeys, Sequences, Functions

CONSTANTS
  Inputs,       \* frames: [rows, masked, isFloat]; only calls of the engine
                \* itself carry masks, the DataFrame's group-by makes none
  Ops,          \* aggregations the user may ask for
  MaxRows,      \* bound: rows of a frame
  NaN,          \* the missing key and the missing value
  Half,         \* values and int sums lie in -Half .. Half - 1
  Garbage,      \* what fresh buffer memory may hold
  WeakCas,      \* TRUE: a compare-and-swap may fail without a reason
  DeviceFails   \* TRUE: a command buffer may end in an error

VARIABLES
  rows,              \* the key and the value of every row
  masked,            \* the two series carry null masks
  isFloat,           \* the columns are float32, not int32
  op,                \* the aggregation
  phase,             \* kernel on the device, or where the host is
  pass,              \* which accumulate kernel is running
  pc,                \* pc[b]: where thread b is in the current kernel
  at,                \* at[b]: probe number p of build thread b
  ids,               \* ids[b]: group number build thread b drew, or NoId
  tableKeys, tableGids,
  counter,           \* group_counter
  accum,             \* accum[p][g]: accumulator of group g in pass p
  expected,          \* what thread b last read from its accumulator
  compacting,        \* slots whose compact thread has still to run
  out                \* the buffers out_keys and out_vals, cell by cell

vars == <<rows, op, masked, isFloat, phase, pass, pc, at, ids, tableKeys, tableGids,
          counter, accum, expected, compacting, out>>

input == <<rows, op, masked, isFloat>>
table == <<tableKeys, tableGids, counter, ids, at>>
results == <<accum, expected, compacting, out>>

Values == (-Half .. Half - 1) \cup {NaN}

Row == [key : Keys, val : Values]

Columns == {f.rows : f \in Inputs}

ASSUME GroupAssumption ==
  /\ MaxRows \in Nat /\ Half \in Nat \ {0} /\ NaN \in Int
  /\ \A f \in Inputs :
       /\ f.rows \in Seq(Row) /\ Len(f.rows) <= MaxRows
       /\ f.masked \in BOOLEAN /\ f.isFloat \in BOOLEAN
  /\ Ops \subseteq {"sum", "count", "min", "max", "mean"}
  /\ WeakCas \in BOOLEAN /\ DeviceFails \in BOOLEAN
  /\ Garbage \subseteq Nat
  /\ \A n \in 0 .. MaxRows :
       \E t \in PowersOfTwo :
         /\ Least(2 * n) <= t
         /\ \A u \in PowersOfTwo : Least(2 * n) <= u => t <= u

NoId == -1

Groups ==
  INSTANCE GroupAggregate WITH answer <- IF phase = "done" THEN <<out>> ELSE << >>

-----------------------------------------------------------------------------
(* Threads and slots *)

\* filter_nulls_for_groupby: a mask marks the NaNs of its column.  Without a
\* mask a NaN is a key or a value like any other.
Threads ==
  IF masked
    THEN {i \in DOMAIN rows : Class[rows[i].key] # NaN /\ rows[i].val # NaN}
    ELSE DOMAIN rows

Size == TableSizeFor(Cardinality(Threads))

Slots == 0 .. Size - 1

Key(b) == rows[b].key

Slot(b) == SlotAt(Key(b), at[b], Size)

Returned(b) == pc' = [pc EXCEPT ![b] = "returned"]

AllReturned == \A b \in Threads : pc[b] = "returned"

-----------------------------------------------------------------------------
(* Build kernel *)

Init ==
  /\ \E f \in Inputs : rows = f.rows /\ masked = f.masked /\ isFloat = f.isFloat
  /\ op \in Ops
  /\ phase = "start"
  /\ pass = 0
  /\ pc = << >> /\ at = << >> /\ ids = << >>
  /\ tableKeys = << >> /\ tableGids = << >> /\ counter = 0
  /\ accum = << >> /\ expected = << >>
  /\ compacting = {} /\ out = << >>

Passes == IF op = "mean" THEN <<"sum", "count">> ELSE <<op>>

\* What init_accumulator writes; Half - 1 and -Half stand for the infinities
\* of float columns too.
Identity(p) ==
  CASE Passes[p] = "min" -> Half - 1
    [] Passes[p] = "max" -> -Half
    [] Passes[p] \in {"sum", "count"} -> 0

\* Accumulators and output buffers have a cell for every row.
Cells == 0 .. Cardinality(Threads) - 1

StartBuild ==
  /\ phase = "start"
  /\ phase' = "build"
  /\ pc' = [b \in Threads |-> "probe"]
  /\ at' = [b \in Threads |-> 0]
  /\ ids' = [b \in Threads |-> NoId]
  /\ tableKeys' = [s \in Slots |-> Empty]
  /\ \E g \in Garbage : tableGids' = [s \in Slots |-> g]
  /\ accum' = [p \in DOMAIN Passes |-> [g \in Cells |-> Identity(p)]]
  /\ UNCHANGED <<input, pass, counter, expected, compacting, out>>

Probing(b) == phase = "build" /\ pc[b] = "probe" /\ at[b] < Size

Advanced(b) == [at EXCEPT ![b] = @ + 1]

\* atomic_load of the next slot.
LoadSlot(b) ==
  /\ Probing(b)
  /\ CASE tableKeys[Slot(b)] = Encode[Key(b)] -> Returned(b) /\ UNCHANGED at
       [] tableKeys[Slot(b)] = Empty /\ Encode[Key(b)] # Empty ->
            pc' = [pc EXCEPT ![b] = "found"] /\ UNCHANGED at
       [] OTHER -> at' = Advanced(b) /\ UNCHANGED pc
  /\ UNCHANGED <<input, phase, pass, ids, tableKeys, tableGids, counter, results>>

\* The loop ends without a slot.
GiveUp(b) ==
  /\ phase = "build" /\ pc[b] = "probe" /\ at[b] = Size
  /\ Returned(b)
  /\ UNCHANGED <<input, phase, pass, table, results>>

\* Mutant: the slot is taken whatever it holds by now.
ClaimAnyway(b) == TRUE

MayClaim(b) == tableKeys[Slot(b)] = Empty

\* The compare-and-swap succeeds.
Claim(b) ==
  /\ phase = "build" /\ pc[b] = "found"
  /\ MayClaim(b)
  /\ tableKeys' = [tableKeys EXCEPT ![Slot(b)] = Encode[Key(b)]]
  /\ pc' = [pc EXCEPT ![b] = "claimed"]
  /\ UNCHANGED <<input, phase, pass, at, ids, tableGids, counter, results>>

\* It fails.
LoseSlot(b) ==
  /\ phase = "build" /\ pc[b] = "found"
  /\ tableKeys[Slot(b)] # Empty \/ WeakCas
  /\ pc' = [pc EXCEPT ![b] = "lost"]
  /\ UNCHANGED <<input, phase, pass, table, results>>

\* Mutant: the slot that was lost is not looked at again.
NeverSame(b) == FALSE

HoldsOwnKey(b) == tableKeys[Slot(b)] = Encode[Key(b)]

\* The slot is loaded again: the winner may have entered the same key.
ReloadSlot(b) ==
  /\ phase = "build" /\ pc[b] = "lost"
  /\ IF HoldsOwnKey(b)
       THEN Returned(b) /\ UNCHANGED at
       ELSE at' = Advanced(b) /\ pc' = [pc EXCEPT ![b] = "probe"]
  /\ UNCHANGED <<input, phase, pass, ids, tableKeys, tableGids, counter, results>>

\* Mutants: the counter is read and not advanced, or runs down.
CounterRead == counter
CounterDown == counter - 1

CounterNext == counter + 1

\* atomic_fetch_add on the group counter.
DrawId(b) ==
  /\ phase = "build" /\ pc[b] = "claimed"
  /\ ids' = [ids EXCEPT ![b] = counter]
  /\ counter' = CounterNext
  /\ pc' = [pc EXCEPT ![b] = "drawn"]
  /\ UNCHANGED <<input, phase, pass, at, tableKeys, tableGids, results>>

\* table_gids[slot] = g, an ordinary store.
StoreId(b) ==
  /\ phase = "build" /\ pc[b] = "drawn"
  /\ tableGids' = [tableGids EXCEPT ![Slot(b)] = ids[b]]
  /\ Returned(b)
  /\ UNCHANGED <<input, phase, pass, at, ids, tableKeys, counter, results>>

BuildStep(b) ==
  \/ LoadSlot(b) \/ GiveUp(b) \/ Claim(b) \/ LoseSlot(b) \/ ReloadSlot(b)
  \/ DrawId(b) \/ StoreId(b)

-----------------------------------------------------------------------------
(* Accumulate kernels *)

StartAccumulate ==
  /\ \/ phase = "build"
     \/ phase = "accumulate" /\ pass < Len(Passes)
  /\ AllReturned
  /\ phase' = "accumulate"
  /\ pass' = pass + 1
  /\ pc' = [b \in Threads |-> "probe"]
  /\ expected' = [b \in Threads |-> 0]
  /\ UNCHANGED <<input, table, accum, compacting, out>>

\* Mutant: a probe looks at its home slot only.
HitsAtHome(k) == {p \in {0} : tableKeys[SlotAt(k, 0, Size)] = Encode[k]}

\* hash_probe goes on over empty slots.
Hits(k) == {p \in 0 .. Size - 1 : tableKeys[SlotAt(k, p, Size)] = Encode[k]}

FirstHit(k) == CHOOSE p \in Hits(k) : \A q \in Hits(k) : p <= q

GroupOf(b) == tableGids[SlotAt(Key(b), FirstHit(Key(b)), Size)]

\* A group number that nobody stored may lie behind the accumulators.
Accumulator(b) == IF GroupOf(b) \in Cells THEN accum[pass][GroupOf(b)] ELSE 0

SetAccumulator(b, v) ==
  accum' = [accum EXCEPT ![pass] =
              [g \in Cells |-> IF g = GroupOf(b) THEN v ELSE accum[pass][g]]]

\* int32 addition wraps around.
Wrapped(n) == ((n + Half) % (2 * Half)) - Half

Plus(x, v) ==
  IF NaN \in {x, v} THEN NaN ELSE IF isFloat THEN x + v ELSE Wrapped(x + v)

\* The test of the minimum and maximum loops: with a NaN it fails.
Keeps(o, x, v) ==
  x # NaN /\ v # NaN /\ (IF o = "min" THEN x <= v ELSE x >= v)

Combined(o, x, v) ==
  CASE o = "sum" -> Plus(x, v)
    [] o = "count" -> x + 1
    [] o \in {"min", "max"} -> IF Keeps(o, x, v) THEN x ELSE v

Accumulating(b) ==
  phase = "accumulate" /\ pc[b] = "probe" /\ Hits(Key(b)) # {}

\* The row's key is not in the table.
SkipRow(b) ==
  /\ phase = "accumulate" /\ pc[b] = "probe" /\ Hits(Key(b)) = {}
  /\ Returned(b)
  /\ UNCHANGED <<input, phase, pass, table, results>>

Swaps(o) == isFloat /\ o \in {"min", "max"}

\* atomic_fetch_add, _min or _max on the accumulator.
FetchAccumulate(b) ==
  /\ Accumulating(b)
  /\ ~Swaps(Passes[pass])
  /\ SetAccumulator(b, Combined(Passes[pass], Accumulator(b), rows[b].val))
  /\ Returned(b)
  /\ UNCHANGED <<input, phase, pass, table, expected, compacting, out>>

\* float32 has no atomic minimum: a loop of load, compare and swap.
LoadAccumulator(b) ==
  /\ Accumulating(b)
  /\ Swaps(Passes[pass])
  /\ expected' = [expected EXCEPT ![b] = Accumulator(b)]
  /\ pc' = [pc EXCEPT ![b] = "swap"]
  /\ UNCHANGED <<input, phase, pass, table, accum, compacting, out>>

Swapping(b) == phase = "accumulate" /\ pc[b] = "swap"

\* current <= val (>= val): the loop ends.
Settle(b) ==
  /\ Swapping(b)
  /\ Keeps(Passes[pass], expected[b], rows[b].val)
  /\ Returned(b)
  /\ UNCHANGED <<input, phase, pass, table, results>>

\* Mutant: the swap does not compare.
SwapsBlindly(b) == TRUE

MaySwap(b) == Accumulator(b) = expected[b]

Swap(b) ==
  /\ Swapping(b)
  /\ ~Keeps(Passes[pass], expected[b], rows[b].val)
  /\ MaySwap(b)
  /\ SetAccumulator(b, rows[b].val)
  /\ Returned(b)
  /\ UNCHANGED <<input, phase, pass, table, expected, compacting, out>>

\* A failed swap leaves the current contents in expected; one that failed
\* without a reason leaves everything as it was.
LoseSwap(b) ==
  /\ Swapping(b)
  /\ ~Keeps(Passes[pass], expected[b], rows[b].val)
  /\ Accumulator(b) # expected[b]
  /\ expected' = [expected EXCEPT ![b] = Accumulator(b)]
  /\ UNCHANGED <<input, phase, pass, pc, table, accum, compacting, out>>

AccumulateStep(b) ==
  \/ SkipRow(b) \/ FetchAccumulate(b)
  \/ LoadAccumulator(b) \/ Settle(b) \/ Swap(b) \/ LoseSwap(b)

-----------------------------------------------------------------------------
(* Compact kernel, and the host *)

\* The compact threads of empty slots return at once.
StartCompact ==
  /\ phase = "accumulate" /\ pass = Len(Passes) /\ AllReturned
  /\ phase' = "compact"
  /\ compacting' = {s \in Slots : tableKeys[s] # Empty}
  /\ out' = [i \in 1 .. counter |-> [key |-> NaN, val |-> <<NaN>>]]
  /\ UNCHANGED <<input, pass, pc, table, accum, expected>>

\* decode_hash_key: the encoding is a bijection; its inverse, up to the keys
\* pandas takes for equal.
Decoded(w) == Class[CHOOSE k \in Keys : Encode[k] = w]

\* Sums and counts of a mean stay apart here; the host divides them.
CompactSlot(s) ==
  LET g == tableGids[s] IN
  /\ phase = "compact" /\ s \in compacting
  /\ out' = [i \in DOMAIN out |->
               IF i = g + 1
                 THEN [key |-> Decoded(tableKeys[s]),
                       val |-> [p \in DOMAIN Passes |-> accum[p][g]]]
                 ELSE out[i]]
  /\ compacting' = compacting \ {s}
  /\ UNCHANGED <<input, phase, pass, pc, table, accum, expected>>

\* The command buffer has completed: the first group_counter cells are the
\* answer.
Finish ==
  /\ phase = "compact" /\ compacting = {}
  /\ phase' = "done"
  /\ UNCHANGED <<input, pass, pc, table, results>>

\* The command buffer reports an error: the call raises.
DeviceError ==
  /\ DeviceFails
  /\ phase \in {"build", "accumulate", "compact"}
  /\ phase' = "pandas"
  /\ UNCHANGED <<input, pass, pc, table, results>>

\* _try_metal_agg catches whatever was raised and replays on pandas.
FallBack ==
  /\ phase = "pandas"
  /\ phase' = "done"
  /\ out' = Groups!Sorted
  /\ UNCHANGED <<input, pass, pc, table, accum, expected, compacting>>

Idle == phase = "done" /\ UNCHANGED vars

HostStep ==
  StartBuild \/ StartAccumulate \/ StartCompact \/ Finish \/ FallBack

Next ==
  \/ HostStep
  \/ \E b \in Threads : BuildStep(b) \/ AccumulateStep(b)
  \/ \E s \in compacting : CompactSlot(s)
  \/ DeviceError
  \/ Idle

(* The host waits for its command buffer, and the device runs every thread  *)
(* of a kernel to its end.  A swap that keeps failing without a reason is    *)
(* not among the behaviours.                                                 *)
Fairness ==
  /\ WF_vars(HostStep)
  /\ \A i \in 1 .. MaxRows :
       WF_vars(i \in Threads /\ (BuildStep(i) \/ AccumulateStep(i)))
  /\ WF_vars(\E s \in compacting : CompactSlot(s))

Spec == Init /\ [][Next]_vars /\ Fairness

-----------------------------------------------------------------------------
(* Properties *)

InTable == phase \in {"build", "accumulate", "compact"}

\* Types of the threads' states, the table and the group numbers.
TypeOK ==
  /\ rows \in Columns /\ op \in Ops /\ masked \in BOOLEAN /\ isFloat \in BOOLEAN
  /\ phase \in {"start", "build", "accumulate", "compact", "pandas", "done"}
  /\ counter \in Nat
  /\ InTable =>
       /\ pc \in [Threads -> {"probe", "found", "lost", "claimed", "drawn",
                              "swap", "returned"}]
       /\ at \in [Threads -> 0 .. Size]
       /\ \A b \in Threads :
            pc[b] \in {"found", "lost", "claimed", "drawn"} => at[b] < Size
       /\ ids \in [Threads -> Nat \cup {NoId}]
       /\ tableKeys \in [Slots -> Words]
       /\ tableGids \in [Slots -> Nat]

\* However the build threads race, a key gets one slot: the thread that lost
\* a slot to its own key stops there.
KeyHasOneSlot ==
  InTable =>
    \A s, u \in Slots :
      tableKeys[s] = tableKeys[u] /\ tableKeys[s] # Empty => s = u

\* When the build kernel has completed, hash_probe finds every row's key:
\* no row is left without a group.
RowsFindGroups ==
  (phase = "build" /\ AllReturned) \/ phase \in {"accumulate", "compact"} =>
    \A b \in Threads : Hits(Key(b)) # {}

\* When the build kernel has completed, the numbers of the occupied slots are
\* exactly 0 .. counter - 1, each once: the dense buffers have no gap, no
\* group shares a cell with another, and hash_probe reads no number that was
\* not stored.
GroupsNumbered ==
  (phase = "build" /\ AllReturned) \/ phase \in {"accumulate", "compact"} =>
    /\ \A s \in Slots : tableKeys[s] # Empty => tableGids[s] \in 0 .. counter - 1
    /\ \A s, u \in Slots :
         /\ tableKeys[s] # Empty /\ tableKeys[u] # Empty
         /\ tableGids[s] = tableGids[u]
         => s = u
    /\ \A g \in 0 .. counter - 1 :
         \E s \in Slots : tableKeys[s] # Empty /\ tableGids[s] = g

\* No group number lies behind the buffers, which have a cell per row.
GroupsFit == InTable => counter <= Cardinality(Threads)

\* At every moment of an accumulate pass, an accumulator is the fold of the
\* rows of its group whose threads have returned: no row is lost to another
\* thread's update and none is counted twice.
Accumulated ==
  phase = "accumulate" =>
    \A s \in Slots : tableKeys[s] # Empty =>
      LET members == {b \in Threads : Encode[Key(b)] = tableKeys[s]
                                        /\ pc[b] = "returned"}
          vals == [b \in Threads |-> rows[b].val]
      IN  accum[pass][tableGids[s]] =
            FoldFunctionOnSet(LAMBDA v, x : Combined(Passes[pass], x, v),
                              Identity(pass), vals, members)

\* What the caller gets is pandas' answer up to the order of the groups; and
\* it gets it: no probe loop and no swap loop runs forever.
GroupByIsCorrect == Groups!Spec
=============================================================================
