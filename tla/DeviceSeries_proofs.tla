------------------------ MODULE DeviceSeries_proofs ------------------------
(***************************************************************************)
(* Arrays that were handed out, and the columns of the user, keep what     *)
(* they hold while calls allocate, free and use memory again; kernels read *)
(* what the columns held, provided that a deferred series has to copy the  *)
(* array of its last operand only; and what is handed out then is what     *)
(* pandas answers.                                                         *)
(***************************************************************************)
EXTENDS DeviceSeries, CommonLemmas, FunctionTheorems

-----------------------------------------------------------------------------
(* Allocation *)

\* The first number that is not used lies at most as high as numbers are used.
LEMMA FirstFree ==
  ASSUME NEW used \in SUBSET Nat, IsFiniteSet(used)
  PROVE  Allocated(used) \in Nat \ used
<1> DEFINE n == Cardinality(used)
           K == {k \in 0 .. n : 0 .. k - 1 \subseteq used}
           c == Cardinality(K)
<1>1. n \in Nat
  BY FS_CardinalityType
<1> HIDE DEF n
<1>2. IsFiniteSet(K) /\ c \in Nat
  <2>1. K \in SUBSET (0 .. n) /\ IsFiniteSet(0 .. n)
    BY <1>1, FS_Interval
  <2>2. IsFiniteSet(K)
    BY <2>1, FS_Subset
  <2> QED BY <2>2, FS_CardinalityType
<1>3. 0 \in K
  BY <1>1
<1>4. \A k \in K : 0 .. k \subseteq K
  BY <1>1
<1> HIDE DEF c
<1>5. \A k \in K : k < c
  <2> SUFFICES ASSUME NEW k \in K PROVE k < c
    OBVIOUS
  <2>1. Cardinality(0 .. k) <= c
    BY <1>2, <1>4, FS_Subset DEF c
  <2>2. Cardinality(0 .. k) = k + 1
    BY <1>1, FS_Interval
  <2> QED BY <1>1, <1>2, <2>1, <2>2
<1>6. K = 0 .. c - 1
  <2>1. K \in SUBSET (0 .. c - 1)
    BY <1>1, <1>2, <1>5
  <2>2. Cardinality(0 .. c - 1) = c /\ IsFiniteSet(0 .. c - 1)
    BY <1>2, <1>3, <1>5, FS_Interval
  <2> HIDE DEF K
  <2> QED BY <2>1, <2>2, FS_Subset DEF c
<1> DEFINE b == c - 1
<1>7. b \in 0 .. n /\ 0 .. b - 1 \subseteq used
  BY <1>2, <1>3, <1>5, <1>6
<1>8. b \notin used
  <2>1. CASE b < n
    <3>1. b + 1 \notin K
      BY <1>2, <1>6
    <3> QED BY <1>1, <1>7, <2>1, <3>1
  <2>2. CASE b = n
    <3>1. Cardinality(0 .. n - 1) = n
      BY <1>1, FS_Interval
    <3>2. used = 0 .. n - 1
      BY <1>7, <2>2, <3>1, FS_Subset DEF n
    <3> QED BY <1>1, <2>2, <3>2
  <2> QED BY <1>1, <1>7, <2>1, <2>2
<1>9. \E k \in 0 .. n : k \notin used /\ 0 .. k - 1 \subseteq used
  BY <1>7, <1>8
<1> QED BY <1>1, <1>9 DEF Allocated, n

\* Two blocks of one request are new and different.
LEMMA NewBlocks ==
  ASSUME IsFiniteSet(DOMAIN memory), DOMAIN memory \subseteq Nat
  PROVE  /\ NewBlock \in Nat \ DOMAIN memory
         /\ NextBlock \in Nat \ (DOMAIN memory \cup {NewBlock})
<1>1. NewBlock \in Nat \ DOMAIN memory
  BY FirstFree DEF NewBlock
<1>2. IsFiniteSet(DOMAIN memory \cup {NewBlock})
  BY FS_AddElement
<1>3. DOMAIN memory \cup {NewBlock} \in SUBSET Nat
  BY <1>1
<1> QED BY <1>1, <1>2, <1>3, FirstFree DEF NextBlock

\* A memory with one more block is one.
LEMMA AddingOne ==
  ASSUME NEW m, NEW b \in Nat, NEW cells, IsFiniteSet(DOMAIN m), DOMAIN m \subseteq Nat
  PROVE  IsFiniteSet(DOMAIN Storing(m, b, cells)) /\ DOMAIN Storing(m, b, cells) \subseteq Nat
<1>1. IsFiniteSet(DOMAIN m \cup {b})
  BY FS_AddElement
<1> QED BY <1>1 DEF Storing

\* A new block, and two of them.
LEMMA AddingNew ==
  ASSUME IsFiniteSet(DOMAIN memory), DOMAIN memory \subseteq Nat, NEW cells
  PROVE  LET k == Fresh(NewBlock, cells)
         IN  /\ IsFiniteSet(DOMAIN k) /\ DOMAIN k \subseteq Nat
             /\ DOMAIN k = DOMAIN memory \cup {NewBlock} /\ k[NewBlock] = cells
             /\ \A a \in DOMAIN memory : k[a] = memory[a]
<1> DEFINE n == NewBlock
<1>1. n \in Nat /\ n \notin DOMAIN memory
  BY NewBlocks
<1> HIDE DEF n
<1> SUFFICES LET k == Storing(memory, n, cells)
             IN  /\ IsFiniteSet(DOMAIN k) /\ DOMAIN k \subseteq Nat
                 /\ DOMAIN k = DOMAIN memory \cup {n} /\ k[n] = cells
                 /\ \A a \in DOMAIN memory : k[a] = memory[a]
  BY DEF Fresh, n
<1>2. IsFiniteSet(DOMAIN Storing(memory, n, cells)) /\ DOMAIN Storing(memory, n, cells) \subseteq Nat
  BY <1>1, AddingOne
<1>3. \A a \in DOMAIN memory : Storing(memory, n, cells)[a] = memory[a]
  BY <1>1 DEF Storing
<1>4. DOMAIN Storing(memory, n, cells) = DOMAIN memory \cup {n}
  BY DEF Storing
<1>5. Storing(memory, n, cells)[n] = cells
  BY DEF Storing
<1> QED BY <1>2, <1>3, <1>4, <1>5

LEMMA AddingTwo ==
  ASSUME IsFiniteSet(DOMAIN memory), DOMAIN memory \subseteq Nat, NEW cells, NEW bits
  PROVE  LET k == Storing(Fresh(NewBlock, cells), NextBlock, bits)
         IN  /\ IsFiniteSet(DOMAIN k) /\ DOMAIN k \subseteq Nat
             /\ DOMAIN k = DOMAIN memory \cup {NewBlock, NextBlock}
             /\ k[NewBlock] = cells /\ k[NextBlock] = bits
             /\ \A a \in DOMAIN memory : k[a] = memory[a]
<1> DEFINE n == NewBlock
           x == NextBlock
           f == Fresh(NewBlock, cells)
<1>1. n \in Nat /\ n \notin DOMAIN memory /\ x \in Nat /\ x \notin DOMAIN memory /\ x # n
  BY NewBlocks
<1>2. /\ IsFiniteSet(DOMAIN f) /\ DOMAIN f \subseteq Nat
      /\ DOMAIN f = DOMAIN memory \cup {n} /\ f[n] = cells
      /\ \A a \in DOMAIN memory : f[a] = memory[a]
  BY AddingNew
<1> SUFFICES LET k == Storing(f, x, bits)
             IN  /\ IsFiniteSet(DOMAIN k) /\ DOMAIN k \subseteq Nat
                 /\ DOMAIN k = DOMAIN memory \cup {n, x}
                 /\ k[n] = cells /\ k[x] = bits
                 /\ \A a \in DOMAIN memory : k[a] = memory[a]
  OBVIOUS
<1> HIDE DEF n, x, f
<1>3. IsFiniteSet(DOMAIN Storing(f, x, bits)) /\ DOMAIN Storing(f, x, bits) \subseteq Nat
  BY <1>1, <1>2, AddingOne
<1>4. /\ DOMAIN Storing(f, x, bits) = DOMAIN f \cup {x}
      /\ Storing(f, x, bits)[x] = bits
      /\ \A a \in DOMAIN f : a # x => Storing(f, x, bits)[a] = f[a]
  BY DEF Storing
<1> QED BY <1>1, <1>2, <1>3, <1>4

-----------------------------------------------------------------------------
(* Arrays and columns *)

MemoryFormed ==
  /\ IsFiniteSet(DOMAIN memory) /\ DOMAIN memory \subseteq Nat
  /\ memory = [b \in DOMAIN memory |-> memory[b]]

ColumnOf(c) ==
  [dtype |-> c.dtype, contiguous |-> c.contiguous, block |-> c.block, holds |-> c.holds]

RecordsFormed ==
  /\ \A r \in results : r = [block |-> r.block, holds |-> r.holds]
  /\ columns = [n \in DOMAIN columns |-> ColumnOf(columns[n])]

\* No two of those whose memory lasts have the same memory.
BlocksApart ==
  /\ \A r, q \in results : r.block = q.block => r = q
  /\ \A m, n \in DOMAIN columns : columns[m].block = columns[n].block => m = n
  /\ \A r \in results, n \in DOMAIN columns : r.block # columns[n].block

Taken == {r.block : r \in results} \cup {columns[n].block : n \in DOMAIN columns}

MadeApart == stage = "made" => made.block \in Nat \ Taken

StandInv == MemoryFormed /\ RecordsFormed /\ BlocksApart /\ MadeApart /\ ArraysStand

\* What is kept after a step.
LEMMA Keepers ==
  /\ \A r \in results' : r.block \in Live'
  /\ \A n \in DOMAIN columns' : columns'[n].block \in Live'
BY DEF Live, Kept

\* What is left of a finite memory is one.
LEMMA SettledFormed ==
  ASSUME NEW m, IsFiniteSet(DOMAIN m), DOMAIN m \subseteq Nat, Settle(m)
  PROVE  MemoryFormed'
<1>1. DOMAIN memory' = DOMAIN m \cap Live' /\ memory' = [b \in DOMAIN memory' |-> memory'[b]]
  BY DEF Settle
<1>2. DOMAIN memory' \in SUBSET DOMAIN m
  BY <1>1
<1>3. IsFiniteSet(DOMAIN memory')
  BY <1>2, FS_Subset
<1> QED BY <1>1, <1>2, <1>3 DEF MemoryFormed

\* A step that leaves columns and arrays, and what memory had, as they were.
LEMMA QuietStep ==
  ASSUME StandInv, UNCHANGED <<columns, results>>, NEW m, Settle(m),
         IsFiniteSet(DOMAIN m), DOMAIN m \subseteq Nat,
         \A b \in DOMAIN memory : b \in DOMAIN m /\ m[b] = memory[b]
  PROVE  MemoryFormed' /\ RecordsFormed' /\ BlocksApart' /\ ArraysStand'
<1>1. MemoryFormed'
  BY SettledFormed
<1>2. RecordsFormed' /\ BlocksApart'
  BY DEF StandInv, RecordsFormed, BlocksApart
<1>3. ArraysStand'
  BY Keepers DEF StandInv, ArraysStand, Settle
<1> QED BY <1>1, <1>2, <1>3

\* A step that hands out an array in a block of its own.
LEMMA HandOutStep ==
  ASSUME StandInv, NEW b \in Nat \ Taken, NEW cells,
         results' = results \cup {[block |-> b, holds |-> cells]},
         columns' = columns, Settle(Fresh(b, cells))
  PROVE  MemoryFormed' /\ RecordsFormed' /\ BlocksApart' /\ ArraysStand'
<1> DEFINE m == Fresh(b, cells)
<1>1. /\ IsFiniteSet(DOMAIN m) /\ DOMAIN m = DOMAIN memory \cup {b} /\ DOMAIN m \subseteq Nat
      /\ m[b] = cells
      /\ \A a \in DOMAIN memory : a # b => m[a] = memory[a]
  <2>1. IsFiniteSet(DOMAIN memory) /\ DOMAIN memory \subseteq Nat
    BY DEF StandInv, MemoryFormed
  <2>2. IsFiniteSet(DOMAIN m) /\ DOMAIN m \subseteq Nat
    BY <2>1, AddingOne DEF Fresh
  <2>3. /\ DOMAIN m = DOMAIN memory \cup {b} /\ m[b] = cells
        /\ \A a \in DOMAIN memory : a # b => m[a] = memory[a]
    BY DEF Storing, Fresh
  <2> QED BY <2>2, <2>3
<1> HIDE DEF m
<1>2. MemoryFormed'
  BY <1>1, SettledFormed DEF m
<1>3. RecordsFormed' /\ BlocksApart'
  BY DEF StandInv, RecordsFormed, BlocksApart, Taken
<1>4. memory' = [a \in DOMAIN m \cap Live' |-> m[a]]
  BY DEF Settle, m
<1>5. ArraysStand'
  <2>1. ASSUME NEW r \in results' PROVE r.block \in DOMAIN memory' /\ memory'[r.block] = r.holds
    BY <1>1, <1>4, Keepers DEF StandInv, ArraysStand, Taken
  <2>2. ASSUME NEW n \in DOMAIN columns'
        PROVE  /\ columns'[n].block \in DOMAIN memory'
               /\ memory'[columns'[n].block] = columns'[n].holds
    BY <1>1, <1>4, Keepers DEF StandInv, ArraysStand, Taken
  <2> QED BY <2>1, <2>2 DEF ArraysStand
<1> QED BY <1>2, <1>3, <1>5

-----------------------------------------------------------------------------
(* Steps *)

\* Steps of a handler that neither make nor hand out a result.
LEMMA PreparingSteps ==
  ASSUME StandInv,
         \/ \E c \in Requests : Call(c)
         \/ ExtractView \/ ExtractCopy \/ from_numpy \/ from_numpy_with_nulls
         \/ DispatchFails \/ Raise
  PROVE  StandInv'
<1>1. stage' # "made" => MadeApart'
  BY DEF MadeApart
<1>2. CASE memory' = memory /\ columns' = columns /\ results' = results /\ stage' # "made"
  BY <1>1, <1>2 DEF StandInv, MemoryFormed, RecordsFormed, BlocksApart, ArraysStand
<1>3. ASSUME NEW c \in Requests, Call(c)  PROVE StandInv'
  BY <1>2, <1>3 DEF Call
<1>4. CASE from_numpy
  BY <1>2, <1>4 DEF from_numpy, Extracted
<1>5. CASE Settle(memory) /\ columns' = columns /\ results' = results /\ stage' # "made"
  BY <1>1, <1>5, QuietStep DEF StandInv, MemoryFormed
<1>6. CASE ExtractView \/ DispatchFails \/ Raise
  BY <1>5, <1>6 DEF ExtractView, Extracts, Extract, DispatchFails, Raise, Leave
<1>7. CASE ExtractCopy
  <2> DEFINE m == Fresh(NewBlock, [i \in Rows |-> Cell(NextOperand.block, i)])
  <2>1. Settle(m) /\ columns' = columns /\ results' = results /\ stage' # "made"
    BY <1>7 DEF ExtractCopy, Extracts, Extract
  <2>2. /\ IsFiniteSet(DOMAIN m) /\ DOMAIN m \subseteq Nat
        /\ \A b \in DOMAIN memory : b \in DOMAIN m /\ m[b] = memory[b]
    BY AddingNew DEF StandInv, MemoryFormed
  <2> HIDE DEF m
  <2> QED BY <1>1, <2>1, <2>2, QuietStep DEF StandInv
<1>8. CASE from_numpy_with_nulls
  <2> DEFINE m == Storing(Fresh(NewBlock, [i \in Rows |-> Cleaned(i)]),
                          NextBlock, from_numpy_nans([i \in Rows |-> Cell(Source, i)]))
  <2>1. Settle(m) /\ columns' = columns /\ results' = results /\ stage' # "made"
    BY <1>8 DEF from_numpy_with_nulls, Extracted
  <2>2. /\ IsFiniteSet(DOMAIN m) /\ DOMAIN m \subseteq Nat
        /\ \A b \in DOMAIN memory : b \in DOMAIN m /\ m[b] = memory[b]
    BY AddingTwo DEF StandInv, MemoryFormed
  <2> HIDE DEF m
  <2> QED BY <1>1, <2>1, <2>2, QuietStep DEF StandInv
<1> QED BY <1>3, <1>4, <1>6, <1>7, <1>8

\* A result is made in a block that is new.
LEMMA Making ==
  ASSUME StandInv, NEW cells,
         dispatch_elementwise(cells) \/ dispatch_elementwise_masked(cells)
  PROVE  StandInv'
<1>1. IsFiniteSet(DOMAIN memory) /\ DOMAIN memory \subseteq Nat
  BY DEF StandInv, MemoryFormed
<1>2. columns' = columns /\ results' = results /\ made'.block = NewBlock
  BY DEF dispatch_elementwise, dispatch_elementwise_masked
<1>3. MadeApart'
  <2>1. Taken \subseteq DOMAIN memory
    BY DEF Taken, StandInv, ArraysStand
  <2>2. Taken' = Taken
    BY <1>2 DEF Taken
  <2>3. NewBlock \in Nat /\ NewBlock \notin DOMAIN memory
    BY <1>1, NewBlocks
  <2> QED BY <1>2, <2>1, <2>2, <2>3 DEF MadeApart
<1>4. CASE dispatch_elementwise(cells)
  <2> DEFINE m == Fresh(NewBlock, cells)
  <2>1. Settle(m)
    BY <1>4 DEF dispatch_elementwise
  <2>2. /\ IsFiniteSet(DOMAIN m) /\ DOMAIN m \subseteq Nat
        /\ \A b \in DOMAIN memory : b \in DOMAIN m /\ m[b] = memory[b]
    BY <1>1, AddingNew
  <2> HIDE DEF m
  <2> QED BY <1>2, <1>3, <2>1, <2>2, QuietStep DEF StandInv
<1>5. CASE dispatch_elementwise_masked(cells)
  <2> DEFINE bits == pack_validity_to_mask([i \in Rows |-> AllValid(i)])
             m == Storing(Fresh(NewBlock, cells), NextBlock, bits)
  <2>1. Settle(m)
    BY <1>5 DEF dispatch_elementwise_masked
  <2> HIDE DEF bits
  <2>2. /\ IsFiniteSet(DOMAIN m) /\ DOMAIN m \subseteq Nat
        /\ \A b \in DOMAIN memory : b \in DOMAIN m /\ m[b] = memory[b]
    BY <1>1, AddingTwo
  <2> HIDE DEF m
  <2> QED BY <1>2, <1>3, <2>1, <2>2, QuietStep DEF StandInv
<1> QED BY <1>4, <1>5

LEMMA MakingSteps ==
  ASSUME StandInv,
         \/ metal_binary_op \/ metal_unary_op \/ metal_compare_op \/ metal_shift
         \/ metal_fillna \/ metal_rolling \/ eval_expression
  PROVE  StandInv'
<1>1. CASE metal_binary_op
  <2> DEFINE c == [i \in Rows |-> IF AllValid(i)
                                  THEN BinaryValue(call.op, Input(1, i), Input(2, i)) ELSE 0]
             d == [i \in Rows |-> Combined(call.op, Input(1, i), Input(2, i))]
  <2>1. dispatch_elementwise_masked(c) \/ dispatch_elementwise(d)
    BY <1>1 DEF metal_binary_op
  <2> HIDE DEF c, d
  <2> QED BY <2>1, Making
<1>2. CASE metal_unary_op
  <2> DEFINE c == [i \in Rows |-> UnaryValue(call.op, Input(1, i))]
  <2>1. dispatch_elementwise(c)
    BY <1>2 DEF metal_unary_op
  <2> HIDE DEF c
  <2> QED BY <2>1, Making
<1>3. CASE metal_compare_op
  <2> DEFINE c == [i \in Rows |-> Combined(call.op, Input(1, i), Input(2, i))]
  <2>1. dispatch_elementwise(c)
    BY <1>3 DEF metal_compare_op
  <2> HIDE DEF c
  <2> QED BY <2>1, Making
<1>4. CASE metal_shift
  <2> DEFINE c == [i \in Rows |-> IF i - call.by \in Rows THEN Input(1, i - call.by) ELSE Filler]
  <2>1. dispatch_elementwise(c)
    BY <1>4 DEF metal_shift
  <2> HIDE DEF c
  <2> QED BY <2>1, Making
<1>5. CASE metal_fillna
  <2> DEFINE c == [i \in Rows |-> IF Input(1, i) = NaN THEN call.by ELSE Input(1, i)]
  <2>1. dispatch_elementwise(c)
    BY <1>5 DEF metal_fillna
  <2> HIDE DEF c
  <2> QED BY <2>1, Making
<1>6. CASE metal_rolling
  <2> DEFINE c == [i \in Rows |-> IF call.by.agg = "mean" THEN RollingMean(i)
                                  ELSE RollingCell(call.by.agg, i)]
  <2>1. dispatch_elementwise(c)
    BY <1>6 DEF metal_rolling
  <2> HIDE DEF c
  <2> QED BY <2>1, Making
<1>7. CASE eval_expression
  <2> DEFINE c == [i \in Rows |-> Combined("add", Input(1, i), Input(2, i))]
  <2>1. dispatch_elementwise(c)
    BY <1>7 DEF eval_expression
  <2> HIDE DEF c
  <2> QED BY <2>1, Making
<1> QED BY <1>1, <1>2, <1>3, <1>4, <1>5, <1>6, <1>7

\* A result is handed out: where it was made, or in a new block.
LEMMA ReturningSteps ==
  ASSUME StandInv, ReturnView \/ ReturnCopy \/ AskPandas
  PROVE  StandInv'
<1>1. NewBlock \in Nat \ Taken
  <2>1. IsFiniteSet(DOMAIN memory) /\ DOMAIN memory \subseteq Nat
    BY DEF StandInv, MemoryFormed
  <2>2. Taken \subseteq DOMAIN memory
    BY DEF Taken, StandInv, ArraysStand
  <2> QED BY <2>1, <2>2, NewBlocks
<1>2. ASSUME NEW b \in Nat \ Taken, NEW cells, Leave, Settle(Fresh(b, cells)),
             results' = results \cup {[block |-> b, holds |-> cells]}
      PROVE  StandInv'
  <2>1. columns' = columns /\ stage' = "idle"
    BY <1>2 DEF Leave
  <2>2. MemoryFormed' /\ RecordsFormed' /\ BlocksApart' /\ ArraysStand'
    BY <1>2, <2>1, HandOutStep
  <2> QED BY <2>1, <2>2 DEF StandInv, MadeApart
<1>3. ASSUME NEW b \in Nat \ Taken, HandOut(b)  PROVE StandInv'
  <2> DEFINE cells == [i \in Rows |-> Restored(i)]
  <2>1. Leave /\ Settle(Fresh(b, cells)) /\ results' = results \cup {[block |-> b, holds |-> cells]}
    BY <1>3 DEF HandOut
  <2> HIDE DEF cells
  <2> QED BY <1>2, <2>1
<1>4. CASE ReturnView
  BY <1>3, <1>4 DEF ReturnView, StandInv, MadeApart
<1>5. CASE ReturnCopy
  BY <1>1, <1>3, <1>5 DEF ReturnCopy
<1>6. CASE AskPandas
  <2> DEFINE cells == PandasAnswer(call, operands)
  <2>1. /\ Leave /\ Settle(Fresh(NewBlock, cells))
        /\ results' = results \cup {[block |-> NewBlock, holds |-> cells]}
    BY <1>6 DEF AskPandas
  <2> HIDE DEF cells
  <2> QED BY <1>1, <1>2, <2>1
<1> QED BY <1>4, <1>5, <1>6

\* What is done by other threads: columns and arrays are dropped, and written
\* into where they are.
LEMMA OtherSteps ==
  ASSUME StandInv, Others
  PROVE  StandInv'
<1>1. IsFiniteSet(DOMAIN memory) /\ DOMAIN memory \subseteq Nat
  BY DEF StandInv, MemoryFormed
<1>2. ASSUME NEW n \in DOMAIN columns, DropColumn(n)  PROVE StandInv'
  <2>1. MemoryFormed'
    BY <1>1, <1>2, SettledFormed DEF DropColumn
  <2>2. /\ columns' = [m \in DOMAIN columns \ {n} |-> columns[m]]
        /\ results' = results /\ stage' = stage /\ made' = made
    BY <1>2 DEF DropColumn
  <2>3. RecordsFormed' /\ BlocksApart'
    BY <2>2 DEF StandInv, RecordsFormed, BlocksApart, ColumnOf
  <2>4. MadeApart'
    BY <2>2 DEF StandInv, MadeApart, Taken
  <2>5. ArraysStand'
    BY <1>2, <2>2, Keepers DEF StandInv, ArraysStand, DropColumn, Settle
  <2> QED BY <2>1, <2>3, <2>4, <2>5 DEF StandInv
<1>3. ASSUME NEW r \in results, DropResult(r)  PROVE StandInv'
  <2>1. MemoryFormed'
    BY <1>1, <1>3, SettledFormed DEF DropResult
  <2>2. columns' = columns /\ results' = results \ {r} /\ stage' = stage /\ made' = made
    BY <1>3 DEF DropResult
  <2>3. RecordsFormed' /\ BlocksApart'
    BY <2>2 DEF StandInv, RecordsFormed, BlocksApart, ColumnOf
  <2>4. MadeApart'
    BY <2>2 DEF StandInv, MadeApart, Taken
  <2>5. ArraysStand'
    BY <1>3, <2>2, Keepers DEF StandInv, ArraysStand, DropResult, Settle
  <2> QED BY <2>1, <2>3, <2>4, <2>5 DEF StandInv
<1>4. ASSUME NEW r \in results, WriteResult(r)  PROVE StandInv'
  <2> DEFINE cells == Overwritten(r.holds)
             q == [block |-> r.block, holds |-> cells]
             m == [memory EXCEPT ![r.block] = Overwritten(memory[r.block])]
  <2>1. r.block \in DOMAIN memory /\ memory[r.block] = r.holds
    BY DEF StandInv, ArraysStand
  <2>2. /\ columns' = columns /\ stage' = stage /\ made' = made
        /\ results' = (results \ {r}) \cup {q} /\ Settle(m)
    <3>1. r = [block |-> r.block, holds |-> r.holds]
      BY DEF StandInv, RecordsFormed
    <3>2. [r EXCEPT !.holds = cells] = q
      BY <3>1
    <3> QED BY <1>4, <3>2 DEF WriteResult
  <2>3. /\ DOMAIN m = DOMAIN memory /\ m[r.block] = cells
        /\ \A b \in DOMAIN memory : b # r.block => m[b] = memory[b]
    BY <2>1
  <2> HIDE DEF m, cells
  <2>4. MemoryFormed'
    BY <1>1, <2>2, <2>3, SettledFormed
  <2>5. RecordsFormed' /\ BlocksApart'
    BY <2>2 DEF StandInv, RecordsFormed, BlocksApart, ColumnOf
  <2>6. MadeApart'
    BY <2>2 DEF StandInv, MadeApart, Taken
  <2>7. memory' = [b \in DOMAIN m \cap Live' |-> m[b]]
    BY <2>2 DEF Settle
  <2>8. ArraysStand'
    BY <2>1, <2>2, <2>3, <2>7, Keepers DEF StandInv, BlocksApart, ArraysStand
  <2> QED BY <2>4, <2>5, <2>6, <2>8 DEF StandInv
<1>5. ASSUME NEW n \in DOMAIN columns, WriteColumn(n)  PROVE StandInv'
  <2> DEFINE cells == Overwritten(columns[n].holds)
             m == [memory EXCEPT ![columns[n].block] = Overwritten(memory[columns[n].block])]
             c == [columns EXCEPT ![n].holds = cells]
  <2>1. columns[n].block \in DOMAIN memory /\ memory[columns[n].block] = columns[n].holds
    BY DEF StandInv, ArraysStand
  <2>2. results' = results /\ stage' # "made" /\ columns' = c /\ Settle(m)
    BY <1>5 DEF WriteColumn
  <2>3. /\ DOMAIN m = DOMAIN memory /\ m[columns[n].block] = cells
        /\ \A b \in DOMAIN memory : b # columns[n].block => m[b] = memory[b]
    BY <2>1
  <2>4. /\ c = [k \in DOMAIN columns |-> c[k]]
        /\ \A k \in DOMAIN columns : k # n => c[k] = columns[k]
        /\ c[n] = [ColumnOf(columns[n]) EXCEPT !.holds = cells]
    BY DEF StandInv, RecordsFormed
  <2> HIDE DEF m, cells, c
  <2>5. c[n].block = columns[n].block /\ c[n].holds = cells /\ ColumnOf(c[n]) = c[n]
    BY <2>4 DEF ColumnOf
  <2>6. MemoryFormed'
    BY <1>1, <2>2, <2>3, SettledFormed
  <2>7. RecordsFormed' /\ BlocksApart'
    BY <2>2, <2>4, <2>5 DEF StandInv, RecordsFormed, BlocksApart
  <2>8. memory' = [b \in DOMAIN m \cap Live' |-> m[b]]
    BY <2>2 DEF Settle
  <2>9. ArraysStand'
    BY <2>1, <2>2, <2>3, <2>4, <2>5, <2>8, Keepers DEF StandInv, BlocksApart, ArraysStand
  <2> QED BY <2>2, <2>6, <2>7, <2>9 DEF StandInv, MadeApart
<1> QED BY <1>2, <1>3, <1>4, <1>5 DEF Others

-----------------------------------------------------------------------------
(* The theorem *)

\* Columns start in different places.
LEMMA Placing ==
  ASSUME NEW f, IsFiniteSet(DOMAIN f)
  PROVE  /\ Place(f) \in [DOMAIN f -> Nat]
         /\ \A m, n \in DOMAIN f : m # n => Place(f)[m] # Place(f)[n]
<1> DEFINE D == DOMAIN f
           c == Cardinality(D)
<1>1. c \in Nat /\ ExistsBijection(1 .. c, D)
  BY FS_CardinalityType
<1> HIDE DEF c, D
<1>2. PICK p \in Bijection(D, 1 .. c) : TRUE
  BY <1>1, Fun_ExistsBijSymmetric DEF ExistsBijection
<1>3. p \in [D -> 1 .. c] /\ \A m, n \in D : m # n => p[m] # p[n]
  BY <1>2 DEF Bijection, Injection, IsInjective
<1> DEFINE q == Place(f)
<1>4. q \in [D -> 1 .. c] /\ \A m, n \in D : m # n => q[m] # q[n]
  BY <1>3 DEF Place, D, c
<1> HIDE DEF q
<1>5. q \in [D -> Nat]
  BY <1>1, <1>4
<1> QED BY <1>4, <1>5 DEF D, q

LEMMA InitStands == Init => StandInv
<1> SUFFICES ASSUME Init PROVE StandInv
  OBVIOUS
<1>1. PICK f \in Frames :
        /\ columns = [n \in DOMAIN f |->
             [dtype |-> f[n].dtype, contiguous |-> f[n].contiguous,
              block |-> Place(f)[n], holds |-> f[n].values]]
        /\ memory = [b \in {Place(f)[n] : n \in DOMAIN f} |->
                       f[CHOOSE n \in DOMAIN f : Place(f)[n] = b].values]
  BY DEF Init
<1>2. results = {} /\ stage = "idle"
  BY DEF Init
<1>3. IsFiniteSet(DOMAIN f)
  BY SeriesAssumption
<1> DEFINE p == Place(f)
<1>4. p \in [DOMAIN f -> Nat] /\ \A m, n \in DOMAIN f : m # n => p[m] # p[n]
  BY <1>3, Placing
<1>5. /\ DOMAIN columns = DOMAIN f
      /\ \A n \in DOMAIN f : columns[n] = [dtype |-> f[n].dtype, contiguous |-> f[n].contiguous,
                                           block |-> p[n], holds |-> f[n].values]
      /\ DOMAIN memory = {p[n] : n \in DOMAIN f}
      /\ \A b \in DOMAIN memory : memory[b] = f[CHOOSE n \in DOMAIN f : p[n] = b].values
      /\ columns = [n \in DOMAIN columns |-> columns[n]]
      /\ memory = [b \in DOMAIN memory |-> memory[b]]
  BY <1>1
<1> HIDE DEF p
<1>6. MemoryFormed
  <2>1. IsFiniteSet({p[n] : n \in DOMAIN f})
    <3>1. p \in Bijection(DOMAIN f, {p[n] : n \in DOMAIN f})
      BY <1>4 DEF Bijection, Injection, Surjection, IsInjective
    <3> QED BY <1>3, <3>1, FS_Bijection DEF ExistsBijection
  <2> QED BY <1>4, <1>5, <2>1 DEF MemoryFormed
<1>7. RecordsFormed
  <2>1. \A n \in DOMAIN columns : columns[n] = ColumnOf(columns[n])
    BY <1>5 DEF ColumnOf
  <2> QED BY <1>2, <1>5, <2>1 DEF RecordsFormed
<1>8. BlocksApart
  BY <1>2, <1>4, <1>5 DEF BlocksApart
<1>9. ArraysStand
  <2> SUFFICES ASSUME NEW n \in DOMAIN columns
               PROVE  columns[n].block \in DOMAIN memory /\ memory[columns[n].block] = columns[n].holds
    BY <1>2 DEF ArraysStand
  <2>1. (CHOOSE k \in DOMAIN f : p[k] = p[n]) = n
    BY <1>4, <1>5
  <2> QED BY <1>5, <2>1
<1> QED BY <1>2, <1>6, <1>7, <1>8, <1>9 DEF StandInv, MadeApart

LEMMA StandStep == StandInv /\ [Next]_vars => StandInv'
<1> SUFFICES ASSUME StandInv, [Next]_vars PROVE StandInv'
  OBVIOUS
<1>1. CASE UNCHANGED vars
  BY <1>1 DEF vars, StandInv, MemoryFormed, RecordsFormed, ColumnOf, BlocksApart, MadeApart,
              Taken, ArraysStand
<1>2. CASE Next
  BY <1>2, PreparingSteps, MakingSteps, ReturningSteps, OtherSteps DEF Next, Serve
<1> QED BY <1>1, <1>2

\* Whatever calls do and other threads drop, every array that was handed out and
\* every column keeps its memory and what it holds, unless somebody writes into
\* that very array: to_numpy's capsule, and buffers that are allocated anew, are
\* enough.
THEOREM ArraysKeepTheirValues == Spec => []ArraysStand
<1>1. StandInv => ArraysStand
  BY DEF StandInv
<1> QED BY InitStands, StandStep, <1>1, PTL DEF Spec

-----------------------------------------------------------------------------
(* What kernels read *)

\* The loop over the columns of an expression keeps the array of the last one
\* only: any other has to be a view of its column.
OnlyLastIsCopied ==
  \A f \in Frames, c \in Requests :
    c.op = "values" =>
      \A i \in DOMAIN c.args :
        i < Len(c.args) /\ c.args[i] \in DOMAIN f => f[c.args[i]].contiguous

\* A block has a value, and no array that was handed out is there to be written.
Holding(b, cells) ==
  b \in DOMAIN memory /\ memory[b] = cells /\ \A r \in results : r.block # b

OnRows(cells) == cells = [i \in Rows |-> cells[i]]

ColumnsRead ==
  /\ \A n \in DOMAIN columns : OnRows(columns[n].holds)
  /\ \A c \in Requests : c.op = "values" =>
       \A i \in DOMAIN c.args :
         i < Len(c.args) /\ c.args[i] \in DOMAIN columns => columns[c.args[i]].contiguous

\* How far a handler is.
Progress ==
  /\ Len(arrays) \in Nat /\ DOMAIN arrays = 1 .. Len(arrays)
  /\ Len(series) \in Nat /\ DOMAIN series = 1 .. Len(series)
  /\ Len(operands) \in Nat /\ DOMAIN operands = 1 .. Len(operands)
  /\ Len(series) <= Len(arrays) /\ Len(arrays) <= Len(operands)
  /\ arrays = [k \in 1 .. Len(arrays) |-> arrays[k]]
  /\ series = [k \in 1 .. Len(series) |-> series[k]]
  /\ bound \subseteq DOMAIN arrays
  /\ call.op # "values" => bound = DOMAIN arrays
  /\ call.op = "values" =>
       /\ Len(arrays) <= Len(series) + 1
       /\ Len(arrays) # 0 => Len(arrays) \in bound
       /\ \A k \in DOMAIN operands : k < Len(operands) => operands[k].contiguous

OperandsHold ==
  \A k \in DOMAIN operands :
    OnRows(operands[k].holds) /\ Holding(operands[k].block, operands[k].holds)

\* An array lasts that is a view of its column or has a variable.
ArrayHolds(k) ==
  /\ k \in bound \/ arrays[k] = operands[k].block
  /\ Holding(arrays[k], operands[k].holds)

ArraysHold ==
  \A k \in DOMAIN arrays :
    /\ operands[k].contiguous => arrays[k] = operands[k].block
    /\ k \in bound => Holding(arrays[k], operands[k].holds)

Clean(v) == IF v = NaN THEN 0 ELSE v

SeriesHold ==
  \A k \in DOMAIN series :
    \/ series[k].mask = Nothing /\ series[k].block = arrays[k] /\ ArrayHolds(k)
    \/ /\ series[k].device /\ series[k].mask # Nothing
       /\ Holding(series[k].block, [i \in Rows |-> Clean(operands[k].holds[i])])
       /\ Holding(series[k].mask, from_numpy_nans(operands[k].holds))

AtRest == arrays = << >> /\ series = << >> /\ bound = {}

ReadInv ==
  /\ ColumnsRead
  /\ stage = "idle" => AtRest
  /\ stage = "run" => Progress /\ OperandsHold /\ ArraysHold /\ SeriesHold

-----------------------------------------------------------------------------
(* Masks *)

\* The place of a row in a mask.
LEMMA BitOfRow ==
  ASSUME NEW i \in Rows
  PROVE  /\ i \div ByteWidth \in Bytes /\ i % ByteWidth \in Bits
         /\ (i \div ByteWidth) * ByteWidth + (i % ByteWidth) = i
<1> DEFINE w == ByteWidth
           n == NumRows + w - 1
           q == i \div w
           r == i % w
           u == n \div w
           t == n % w
<1>1. i \in Nat /\ NumRows \in Nat /\ i < NumRows /\ w \in Nat /\ w > 0 /\ n \in Nat
  BY SeriesAssumption DEF Rows
<1>2. q \in Nat /\ r \in 0 .. w - 1 /\ q * w + r = i
  BY <1>1
<1>3. u \in Nat /\ t \in 0 .. w - 1 /\ u * w + t = n
  <2> HIDE DEF n
  <2> QED BY <1>1
<1>4. n = NumRows + w - 1
  OBVIOUS
<1> HIDE DEF w, n, q, r, u, t
<1>5. q < u
  <2> SUFFICES ASSUME u <= q PROVE FALSE
    BY <1>2, <1>3
  <2>1. u * w <= q * w
    BY <1>1, <1>2, <1>3
  <2>2. u * w \in Nat /\ q * w \in Nat
    BY <1>1, <1>2, <1>3
  <2> DEFINE x == u * w
             y == q * w
  <2>3. x <= y /\ x \in Nat /\ y \in Nat /\ y + r = i /\ x + t = n
    BY <1>2, <1>3, <2>1, <2>2
  <2> HIDE DEF x, y
  <2> QED BY <1>1, <1>2, <1>3, <1>4, <2>3
<1>6. q \in 0 .. u - 1
  BY <1>2, <1>3, <1>5
<1>7. i \div ByteWidth \in Bytes
  BY <1>6 DEF Bytes, q, u, n, w
<1>8. i % ByteWidth \in Bits
  BY <1>2 DEF Bits, r, w
<1>9. (i \div ByteWidth) * ByteWidth + (i % ByteWidth) = i
  BY <1>2 DEF q, r, w
<1> QED BY <1>7, <1>8, <1>9

\* The mask of a column says of each row whether it is missing.
LEMMA MaskTells ==
  ASSUME NEW values, NEW i \in Rows
  PROVE  is_valid(from_numpy_nans(values), i) <=> values[i] # NaN
<1> DEFINE k == i \div ByteWidth
           b == i % ByteWidth
<1>1. k \in Bytes /\ b \in Bits /\ k * ByteWidth + b = i
  BY BitOfRow
<1> SUFFICES b \in from_numpy_nans(values)[k] <=> values[i] # NaN
  BY DEF is_valid
<1> HIDE DEF k, b
<1>2. from_numpy_nans(values)[k]
        = {a \in Bits : k * ByteWidth + a \in Rows => values[k * ByteWidth + a] # NaN}
  BY <1>1 DEF from_numpy_nans
<1> QED BY <1>1, <1>2

\* What series are made of is what the property says.
LEMMA HoldsRead == ReadInv => SeriesReadTheirColumn
<1> SUFFICES ASSUME ReadInv, stage = "run", NEW k \in DOMAIN series, NEW i \in Rows
             PROVE  IF series[k].mask # Nothing /\ operands[k].holds[i] = NaN
                    THEN ~Valid(k, i)
                    ELSE Valid(k, i) /\ Input(k, i) = operands[k].holds[i]
  BY DEF SeriesReadTheirColumn
<1>1. k \in DOMAIN operands
  BY DEF ReadInv, Progress
<1>2. OnRows(operands[k].holds)
  BY <1>1 DEF ReadInv, OperandsHold
<1>3. CASE series[k].mask = Nothing /\ series[k].block = arrays[k] /\ ArrayHolds(k)
  <2>1. Holding(series[k].block, operands[k].holds)
    BY <1>3 DEF ArrayHolds
  <2>2. i \in DOMAIN operands[k].holds
    BY <1>2 DEF OnRows
  <2>3. Input(k, i) = operands[k].holds[i]
    BY <2>1, <2>2 DEF Input, Cell, Holding
  <2> QED BY <1>3, <2>3 DEF Valid
<1>4. CASE /\ series[k].device /\ series[k].mask # Nothing
           /\ Holding(series[k].block, [j \in Rows |-> Clean(operands[k].holds[j])])
           /\ Holding(series[k].mask, from_numpy_nans(operands[k].holds))
  <2>1. Valid(k, i) <=> operands[k].holds[i] # NaN
    BY <1>4, MaskTells DEF Valid, Holding
  <2>2. Input(k, i) = Clean(operands[k].holds[i])
    BY <1>4 DEF Input, Cell, Holding
  <2> QED BY <1>4, <2>1, <2>2 DEF Clean
<1> QED BY <1>3, <1>4 DEF ReadInv, SeriesHold

-----------------------------------------------------------------------------
(* Steps while arrays are extracted *)

\* What a handler refers to is kept.
LEMMA HandlerKeeps ==
  /\ \A k \in DOMAIN operands' : operands'[k].block \in Live'
  /\ \A k \in bound' : arrays'[k] \in Live'
  /\ \A k \in DOMAIN series' :
       /\ series'[k].device => series'[k].block \in Live'
       /\ series'[k].mask # Nothing => series'[k].mask \in Live'
<1>1. \A k \in DOMAIN operands' : operands'[k].block \in Live'
  BY DEF Live
<1>2. \A k \in bound' : arrays'[k] \in Live'
  BY DEF Live
<1>3. ASSUME NEW k \in DOMAIN series'  PROVE DeviceBlocks(series[k])' \subseteq Live'
  BY DEF Live
<1> QED BY <1>1, <1>2, <1>3 DEF DeviceBlocks

\* Memory after a step that writes into arrays handed out at most.
Undisturbed(m) ==
  /\ \A b \in DOMAIN m \cap Live' : b \in DOMAIN memory' /\ memory'[b] = m[b]
  /\ \A b \in DOMAIN memory :
       (\A r \in results : r.block # b) => b \in DOMAIN m /\ m[b] = memory[b]
  /\ \A q \in results' : \E r \in results : r.block = q.block

LEMMA HoldsOn ==
  ASSUME NEW m, Undisturbed(m), NEW b, NEW cells, Holding(b, cells), b \in Live'
  PROVE  b \in DOMAIN memory' /\ memory'[b] = cells /\ \A r \in results' : r.block # b
BY DEF Undisturbed, Holding

\* What handlers hold lasts.
LEMMA OperandsHoldOn ==
  ASSUME NEW m, Undisturbed(m), OperandsHold, operands' = operands
  PROVE  OperandsHold'
<1> SUFFICES ASSUME NEW k \in DOMAIN operands
             PROVE  /\ OnRows(operands[k].holds)
                    /\ operands[k].block \in DOMAIN memory'
                    /\ memory'[operands[k].block] = operands[k].holds
                    /\ \A r \in results' : r.block # operands[k].block
  BY DEF OperandsHold, Holding, OnRows
<1>1. OnRows(operands[k].holds) /\ Holding(operands[k].block, operands[k].holds)
  BY DEF OperandsHold
<1>2. operands[k].block \in Live'
  BY HandlerKeeps
<1> QED BY <1>1, <1>2, HoldsOn

LEMMA ArrayHoldsOn ==
  ASSUME NEW m, Undisturbed(m), Progress, operands' = operands,
         NEW k \in DOMAIN arrays, k \in DOMAIN arrays', arrays'[k] = arrays[k],
         ArrayHolds(k), k \in bound => k \in bound' \/ arrays[k] = operands[k].block
  PROVE  ArrayHolds(k)'
<1>1. k \in DOMAIN operands
  BY DEF Progress
<1>2. k \in bound' \/ arrays[k] = operands[k].block
  BY DEF ArrayHolds
<1>3. arrays[k] \in Live'
  BY <1>1, <1>2, HandlerKeeps
<1>4. Holding(arrays[k], operands[k].holds)
  BY DEF ArrayHolds
<1>5. /\ arrays[k] \in DOMAIN memory' /\ memory'[arrays[k]] = operands[k].holds
      /\ \A r \in results' : r.block # arrays[k]
  BY <1>3, <1>4, HoldsOn
<1> QED BY <1>2, <1>5 DEF ArrayHolds, Holding

\* The series made so far, when arrays go on or stay as they are.
LEMMA OneSeriesHoldsOn ==
  ASSUME NEW m, Undisturbed(m), Progress, SeriesHold, operands' = operands,
         NEW k \in DOMAIN series, k \in DOMAIN series', series'[k] = series[k],
         k \in DOMAIN arrays', arrays'[k] = arrays[k],
         k \in bound => k \in bound' \/ arrays[k] = operands[k].block
  PROVE  \/ series'[k].mask = Nothing /\ series'[k].block = arrays'[k] /\ ArrayHolds(k)'
         \/ /\ series'[k].device /\ series'[k].mask # Nothing
            /\ Holding(series[k].block, [i \in Rows |-> Clean(operands[k].holds[i])])'
            /\ Holding(series[k].mask, from_numpy_nans(operands[k].holds))'
<1>1. CASE series[k].mask = Nothing /\ series[k].block = arrays[k] /\ ArrayHolds(k)
  <2>1. k \in DOMAIN arrays
    BY DEF Progress
  <2>2. ArrayHolds(k)'
    BY <1>1, <2>1, ArrayHoldsOn
  <2> QED BY <1>1, <2>2
<1>2. CASE /\ series[k].device /\ series[k].mask # Nothing
           /\ Holding(series[k].block, [i \in Rows |-> Clean(operands[k].holds[i])])
           /\ Holding(series[k].mask, from_numpy_nans(operands[k].holds))
  <2> DEFINE v == [i \in Rows |-> Clean(operands[k].holds[i])]
             w == from_numpy_nans(operands[k].holds)
  <2>1. series[k].block \in Live' /\ series[k].mask \in Live'
    BY <1>2, HandlerKeeps
  <2>2. Holding(series[k].block, v) /\ Holding(series[k].mask, w)
    BY <1>2
  <2>3. v' = v /\ w' = w
    BY DEF from_numpy_nans
  <2> HIDE DEF v, w
  <2>4. /\ series[k].block \in DOMAIN memory' /\ memory'[series[k].block] = v
        /\ \A r \in results' : r.block # series[k].block
    BY <2>1, <2>2, HoldsOn
  <2>5. /\ series[k].mask \in DOMAIN memory' /\ memory'[series[k].mask] = w
        /\ \A r \in results' : r.block # series[k].mask
    BY <2>1, <2>2, HoldsOn
  <2>6. Holding(series[k].block, v)' /\ Holding(series[k].mask, w)'
    BY <2>3, <2>4, <2>5 DEF Holding
  <2>7. series'[k].device /\ series'[k].mask # Nothing
    BY <1>2
  <2> QED BY <2>6, <2>7 DEF v, w
<1> QED BY <1>1, <1>2 DEF SeriesHold

\* Nothing of a handler changes.
LEMMA QuietRead ==
  ASSUME ReadInv, stage = "run", NEW m, Undisturbed(m), ColumnsRead',
         UNCHANGED <<call, stage, operands, arrays, bound, series>>
  PROVE  ReadInv'
<1>1. Progress /\ OperandsHold /\ ArraysHold /\ SeriesHold
  BY DEF ReadInv
<1>2. Progress'
  BY <1>1 DEF Progress
<1>3. OperandsHold'
  BY <1>1, OperandsHoldOn
<1>4. ArraysHold'
  <2> SUFFICES ASSUME NEW k \in DOMAIN arrays
               PROVE  /\ operands[k].contiguous => arrays[k] = operands[k].block
                      /\ k \in bound => Holding(arrays[k], operands[k].holds)'
    BY DEF ArraysHold, Holding
  <2>1. CASE k \in bound
    <3>1. ArrayHolds(k)
      BY <1>1, <2>1 DEF ArraysHold, ArrayHolds
    <3>2. ArrayHolds(k)'
      BY <1>1, <3>1, ArrayHoldsOn
    <3> QED BY <1>1, <3>2 DEF ArraysHold, ArrayHolds, Holding
  <2> QED BY <1>1, <2>1 DEF ArraysHold
<1>5. SeriesHold'
  <2> SUFFICES ASSUME NEW k \in DOMAIN series'
        PROVE  \/ series'[k].mask = Nothing /\ series'[k].block = arrays'[k] /\ ArrayHolds(k)'
               \/ /\ series'[k].device /\ series'[k].mask # Nothing
                  /\ Holding(series[k].block, [i \in Rows |-> Clean(operands[k].holds[i])])'
                  /\ Holding(series[k].mask, from_numpy_nans(operands[k].holds))'
    BY DEF SeriesHold
  <2>1. k \in DOMAIN series /\ series'[k] = series[k] /\ k \in DOMAIN arrays' /\ arrays'[k] = arrays[k]
    BY <1>1 DEF Progress
  <2> QED BY <1>1, <2>1, OneSeriesHoldsOn
<1> QED BY <1>2, <1>3, <1>4, <1>5 DEF ReadInv

\* A sequence with one more element.
LEMMA Appended ==
  ASSUME NEW q, NEW e, NEW n \in Nat, n = Len(q), q = [k \in 1 .. n |-> q[k]]
  PROVE  /\ Append(q, e) = [k \in 1 .. n + 1 |-> Append(q, e)[k]]
         /\ Len(Append(q, e)) = n + 1 /\ DOMAIN Append(q, e) = 1 .. n + 1
         /\ Append(q, e)[n + 1] = e /\ \A k \in 1 .. n : Append(q, e)[k] = q[k]
<1> DEFINE S == {q[k] : k \in 1 .. n} \cup {e}
           p == Append(q, e)
<1>1. q \in Seq(S) /\ e \in S
  <2>1. q \in [1 .. n -> S] /\ e \in S
    OBVIOUS
  <2> HIDE DEF S
  <2> QED BY <2>1
<1> HIDE DEF S
<1>2. p \in Seq(S) /\ Len(p) = n + 1
  BY <1>1
<1>3. p[n + 1] = e /\ \A k \in 1 .. n : p[k] = q[k]
  BY <1>1
<1> HIDE DEF p
<1>4. DOMAIN p = 1 .. n + 1 /\ p = [k \in 1 .. n + 1 |-> p[k]]
  BY <1>2
<1> QED BY <1>2, <1>3, <1>4 DEF p

\* One more array: the memory of the column, or a copy.
LEMMA Extracting ==
  ASSUME ReadInv, Extracts, NEW b, Extract(b), NEW m, Undisturbed(m),
         NextOperand.contiguous => b = NextOperand.block,
         b \in DOMAIN memory', memory'[b] = NextOperand.holds, \A r \in results : r.block # b
  PROVE  ReadInv'
<1> DEFINE n == Len(arrays) + 1
<1>1. Progress /\ OperandsHold /\ ArraysHold /\ SeriesHold /\ ColumnsRead
  BY DEF ReadInv, Extracts
<1>2. /\ stage = "run" /\ Len(arrays) < Len(operands)
      /\ call.op = "values" => Len(series) = Len(arrays)
  BY DEF Extracts
<1>3. /\ arrays' = Append(arrays, b) /\ bound' = Bound(n)
      /\ UNCHANGED <<columns, results, call, stage, operands, series>>
  BY DEF Extract
<1>4. /\ n \in Nat /\ n \in DOMAIN operands /\ n \notin DOMAIN arrays
      /\ DOMAIN arrays = 1 .. n - 1 /\ NextOperand = operands[n]
  <2> DEFINE a == Len(arrays)
             o == Len(operands)
  <2>1. /\ a \in Nat /\ o \in Nat /\ a < o /\ n = a + 1
        /\ DOMAIN arrays = 1 .. a /\ DOMAIN operands = 1 .. o
    BY <1>1, <1>2 DEF Progress
  <2> HIDE DEF a, o, n
  <2>2. n \in Nat /\ n \in 1 .. o /\ n \notin 1 .. a /\ n - 1 = a
    BY <2>1
  <2> QED BY <2>1, <2>2 DEF NextOperand, n
<1>5. /\ arrays' = [k \in 1 .. n |-> arrays'[k]] /\ Len(arrays') = n
      /\ DOMAIN arrays' = 1 .. n /\ arrays'[n] = b
      /\ \A k \in DOMAIN arrays : arrays'[k] = arrays[k]
  <2>1. /\ Len(arrays) \in Nat /\ arrays = [k \in 1 .. Len(arrays) |-> arrays[k]]
        /\ DOMAIN arrays = 1 .. Len(arrays)
    BY <1>1 DEF Progress
  <2> DEFINE a == Len(arrays)
  <2>2. a \in Nat /\ a = Len(arrays) /\ arrays = [k \in 1 .. a |-> arrays[k]]
    BY <2>1
  <2> HIDE DEF a
  <2>3. /\ Append(arrays, b) = [k \in 1 .. a + 1 |-> Append(arrays, b)[k]]
        /\ Len(Append(arrays, b)) = a + 1 /\ DOMAIN Append(arrays, b) = 1 .. a + 1
        /\ Append(arrays, b)[a + 1] = b
        /\ \A k \in 1 .. a : Append(arrays, b)[k] = arrays[k]
    BY <2>2, Appended
  <2>4. n = a + 1 /\ DOMAIN arrays = 1 .. a
    BY <2>1, <2>2
  <2> HIDE DEF n
  <2> QED BY <1>3, <2>3, <2>4
<1> HIDE DEF n
<1>6. \A k \in bound : k \in bound' \/ arrays[k] = operands[k].block
  <2>1. CASE call.op # "values"
    BY <1>3, <2>1 DEF Bound
  <2>2. CASE call.op = "values"
    <3> SUFFICES ASSUME NEW k \in bound PROVE operands[k].contiguous /\ k \in DOMAIN arrays
      BY <1>1 DEF ArraysHold
    <3>1. k \in DOMAIN operands /\ k < Len(operands) /\ k \in DOMAIN arrays
      <4> DEFINE a == Len(arrays)
                 o == Len(operands)
      <4>1. /\ a \in Nat /\ o \in Nat /\ a < o /\ bound \subseteq DOMAIN arrays
            /\ DOMAIN arrays = 1 .. a /\ DOMAIN operands = 1 .. o
        BY <1>1, <1>2 DEF Progress
      <4> HIDE DEF a, o
      <4>2. k \in 1 .. a /\ k < o
        BY <4>1
      <4> QED BY <4>1, <4>2 DEF o
    <3> QED BY <1>1, <2>2, <3>1 DEF Progress
  <2> QED BY <2>1, <2>2
<1>7. n \in bound'
  BY <1>3 DEF Bound
<1>8. Progress'
  <2>1. bound' \subseteq DOMAIN arrays'
    BY <1>1, <1>3, <1>4, <1>5 DEF Bound, Progress
  <2>2. call.op # "values" => bound' = DOMAIN arrays'
    BY <1>1, <1>3, <1>4, <1>5 DEF Bound, Progress
  <2>3. n = Len(arrays) + 1
    BY DEF n
  <2>4. call.op = "values" => n <= Len(series) + 1
    BY <1>2, <2>3
  <2>5. Len(series) <= n /\ n <= Len(operands)
    <3> DEFINE a == Len(arrays)
               o == Len(operands)
               l == Len(series)
    <3>1. a \in Nat /\ o \in Nat /\ l \in Nat /\ l <= a /\ a < o /\ n = a + 1
      BY <1>1, <1>2, <2>3 DEF Progress
    <3> HIDE DEF a, o, l
    <3>2. l <= n /\ n <= o
      BY <3>1
    <3> QED BY <3>2 DEF l, o
  <2> QED BY <1>1, <1>3, <1>4, <1>5, <1>7, <2>1, <2>2, <2>4, <2>5 DEF Progress
<1>9. OperandsHold'
  BY <1>1, <1>3, OperandsHoldOn
<1>10. ArraysHold'
  <2> SUFFICES ASSUME NEW k \in DOMAIN arrays'
               PROVE  /\ operands[k].contiguous => arrays'[k] = operands[k].block
                      /\ k \in bound' => /\ arrays'[k] \in DOMAIN memory'
                                         /\ memory'[arrays'[k]] = operands[k].holds
                                         /\ \A r \in results : r.block # arrays'[k]
    BY <1>3 DEF ArraysHold, Holding
  <2>1. CASE k = n
    BY <1>4, <1>5, <2>1
  <2>2. CASE k \in DOMAIN arrays
    <3>1. operands[k].contiguous => arrays'[k] = operands[k].block
      BY <1>1, <1>5, <2>2 DEF ArraysHold
    <3>2. ASSUME k \in bound'
          PROVE  /\ arrays'[k] \in DOMAIN memory' /\ memory'[arrays'[k]] = operands[k].holds
                 /\ \A r \in results : r.block # arrays'[k]
      <4>1. k \in bound
        BY <1>3, <1>4, <2>2, <3>2 DEF Bound
      <4>2. ArrayHolds(k)
        BY <1>1, <2>2, <4>1 DEF ArraysHold, ArrayHolds
      <4>3. k \in DOMAIN arrays' /\ arrays'[k] = arrays[k] /\ operands' = operands
        BY <1>3, <1>5, <2>2
      <4>4. ArrayHolds(k)'
        BY <1>1, <2>2, <3>2, <4>2, <4>3, ArrayHoldsOn
      <4> QED BY <1>3, <4>4 DEF ArrayHolds, Holding
    <3> QED BY <3>1, <3>2
  <2> QED BY <1>4, <1>5, <2>1, <2>2
<1>11. SeriesHold'
  <2> SUFFICES ASSUME NEW k \in DOMAIN series'
        PROVE  \/ series'[k].mask = Nothing /\ series'[k].block = arrays'[k] /\ ArrayHolds(k)'
               \/ /\ series'[k].device /\ series'[k].mask # Nothing
                  /\ Holding(series[k].block, [i \in Rows |-> Clean(operands[k].holds[i])])'
                  /\ Holding(series[k].mask, from_numpy_nans(operands[k].holds))'
    BY <1>3 DEF SeriesHold
  <2>1. k \in DOMAIN series /\ series'[k] = series[k] /\ k \in DOMAIN arrays /\ operands' = operands
    BY <1>1, <1>3 DEF Progress
  <2>2. k \in DOMAIN arrays' /\ arrays'[k] = arrays[k]
    BY <1>4, <1>5, <2>1
  <2> QED BY <1>1, <1>6, <2>1, <2>2, OneSeriesHoldsOn
<1>12. ColumnsRead' /\ stage' = "run"
  BY <1>1, <1>2, <1>3 DEF ColumnsRead, OnRows
<1> QED BY <1>8, <1>9, <1>10, <1>11, <1>12 DEF ReadInv

\* The array a handler makes its next series of is kept.
LEMMA NextArray ==
  ASSUME ReadInv, Extracted, Len(series) < Len(arrays), NEW n, n = Len(series) + 1
  PROVE  /\ Progress /\ n \in Nat /\ n \in DOMAIN arrays /\ n \in DOMAIN operands
         /\ DOMAIN series = 1 .. n - 1 /\ Source = arrays[n] /\ ArrayHolds(n)
         /\ n <= Len(arrays)
<1>1. Progress /\ ArraysHold /\ stage = "run"
  BY DEF ReadInv, Extracted
<1> DEFINE a == Len(arrays)
           o == Len(operands)
           l == Len(series)
<1>2. /\ a \in Nat /\ o \in Nat /\ l \in Nat /\ l < a /\ a <= o /\ n = l + 1
      /\ DOMAIN arrays = 1 .. a /\ DOMAIN operands = 1 .. o /\ DOMAIN series = 1 .. l
      /\ call.op # "values" => bound = DOMAIN arrays
      /\ call.op = "values" => a <= l + 1 /\ (a # 0 => a \in bound)
  BY <1>1 DEF Progress
<1>3. Source = arrays[l + 1]
  BY DEF Source
<1>4. n <= a => n <= Len(arrays)
  OBVIOUS
<1> HIDE DEF a, o, l
<1>5. n \in Nat /\ n \in 1 .. a /\ n \in 1 .. o /\ n - 1 = l /\ (call.op = "values" => n = a)
  BY <1>2
<1>6. n \in bound
  BY <1>2, <1>5
<1>7. ArrayHolds(n)
  BY <1>1, <1>2, <1>5, <1>6 DEF ArraysHold, ArrayHolds
<1> QED BY <1>1, <1>2, <1>3, <1>4, <1>5, <1>7

\* One more series, over the array or with a mask.
LEMMA MakingSeries ==
  ASSUME ReadInv, Extracted, Len(series) < Len(arrays),
         NEW e, series' = Append(series, e), NEW n, n = Len(series) + 1,
         NEW m, Undisturbed(m),
         UNCHANGED <<columns, results, call, stage, operands, arrays, bound>>,
         \/ e.mask = Nothing /\ e.block = arrays[n]
         \/ /\ e.device /\ e.mask # Nothing
            /\ e.block \in DOMAIN memory'
            /\ memory'[e.block] = [i \in Rows |-> Clean(operands[n].holds[i])]
            /\ e.mask \in DOMAIN memory' /\ memory'[e.mask] = from_numpy_nans(operands[n].holds)
            /\ \A r \in results : r.block # e.block /\ r.block # e.mask
  PROVE  ReadInv'
<1>1. /\ Progress /\ OperandsHold /\ ArraysHold /\ SeriesHold /\ ColumnsRead
      /\ stage = "run"
  BY DEF ReadInv, Extracted
<1>2. /\ n \in Nat /\ n \in DOMAIN arrays /\ n \in DOMAIN operands
      /\ DOMAIN series = 1 .. n - 1 /\ ArrayHolds(n) /\ n <= Len(arrays)
  BY NextArray
<1>3. /\ series' = [k \in 1 .. n |-> series'[k]] /\ Len(series') = n
      /\ DOMAIN series' = 1 .. n /\ series'[n] = e
      /\ \A k \in DOMAIN series : series'[k] = series[k]
  <2> DEFINE a == Len(series)
  <2>1. a \in Nat /\ a = Len(series) /\ series = [k \in 1 .. a |-> series[k]] /\ DOMAIN series = 1 .. a
        /\ n = a + 1
    BY <1>1 DEF Progress
  <2> HIDE DEF a
  <2>2. /\ Append(series, e) = [k \in 1 .. a + 1 |-> Append(series, e)[k]]
        /\ Len(Append(series, e)) = a + 1 /\ DOMAIN Append(series, e) = 1 .. a + 1
        /\ Append(series, e)[a + 1] = e
        /\ \A k \in 1 .. a : Append(series, e)[k] = series[k]
    BY <2>1, Appended
  <2> QED BY <2>1, <2>2
<1>4. Progress'
  <2>1. call.op = "values" => Len(arrays) <= n + 1
    <3> DEFINE a == Len(arrays)
               l == Len(series)
    <3>1. /\ a \in Nat /\ l \in Nat /\ n = l + 1
          /\ call.op = "values" => a <= l + 1
      BY <1>1 DEF Progress
    <3> HIDE DEF a, l
    <3>2. call.op = "values" => a <= n + 1
      BY <3>1
    <3> QED BY <3>2 DEF a
  <2> QED BY <1>1, <1>2, <1>3, <2>1 DEF Progress
<1>5. OperandsHold'
  BY <1>1, OperandsHoldOn
<1>6. \A k \in DOMAIN arrays : ArrayHolds(k) => ArrayHolds(k)'
  BY <1>1, ArrayHoldsOn
<1>7. ArraysHold'
  <2> SUFFICES ASSUME NEW k \in DOMAIN arrays
               PROVE  /\ operands[k].contiguous => arrays[k] = operands[k].block
                      /\ k \in bound => Holding(arrays[k], operands[k].holds)'
    BY DEF ArraysHold, Holding
  <2>1. CASE k \in bound
    <3>1. ArrayHolds(k)
      BY <1>1, <2>1 DEF ArraysHold, ArrayHolds
    <3> QED BY <1>1, <1>6, <3>1 DEF ArraysHold, ArrayHolds, Holding
  <2> QED BY <1>1, <2>1 DEF ArraysHold
<1>8. SeriesHold'
  <2> SUFFICES ASSUME NEW k \in DOMAIN series'
        PROVE  \/ series'[k].mask = Nothing /\ series'[k].block = arrays'[k] /\ ArrayHolds(k)'
               \/ /\ series'[k].device /\ series'[k].mask # Nothing
                  /\ Holding(series[k].block, [i \in Rows |-> Clean(operands[k].holds[i])])'
                  /\ Holding(series[k].mask, from_numpy_nans(operands[k].holds))'
    BY DEF SeriesHold
  <2>1. CASE k \in DOMAIN series
    <3>1. k \in DOMAIN arrays' /\ arrays'[k] = arrays[k] /\ series'[k] = series[k] /\ operands' = operands
      BY <1>1, <1>3, <2>1 DEF Progress
    <3> QED BY <1>1, <2>1, <3>1, OneSeriesHoldsOn
  <2>2. CASE k = n
    <3>1. ArrayHolds(n)'
      BY <1>2, <1>6
    <3>2. CASE e.mask = Nothing /\ e.block = arrays[n]
      BY <1>3, <2>2, <3>1, <3>2
    <3>3. CASE /\ e.device /\ e.mask # Nothing
               /\ e.block \in DOMAIN memory'
               /\ memory'[e.block] = [i \in Rows |-> Clean(operands[n].holds[i])]
               /\ e.mask \in DOMAIN memory' /\ memory'[e.mask] = from_numpy_nans(operands[n].holds)
               /\ \A r \in results : r.block # e.block /\ r.block # e.mask
      <4> DEFINE v == [i \in Rows |-> Clean(operands[n].holds[i])]
                 w == from_numpy_nans(operands[n].holds)
      <4>1. v' = v /\ w' = w
        BY DEF from_numpy_nans
      <4>2. /\ memory'[e.block] = v /\ memory'[e.mask] = w
            /\ e.block \in DOMAIN memory' /\ e.mask \in DOMAIN memory'
            /\ \A r \in results' : r.block # e.block /\ r.block # e.mask
        BY <3>3
      <4> HIDE DEF v, w
      <4>3. Holding(series[n].block, v)' /\ Holding(series[n].mask, w)'
        BY <1>3, <4>1, <4>2 DEF Holding
      <4>4. series'[n].device /\ series'[n].mask # Nothing
        BY <1>3, <3>3
      <4> QED BY <2>2, <4>3, <4>4 DEF v, w
    <3> QED BY <3>2, <3>3
  <2> QED BY <1>2, <1>3, <2>1, <2>2
<1>9. ColumnsRead' /\ stage' = "run"
  BY <1>1 DEF ColumnsRead, OnRows
<1> QED BY <1>4, <1>5, <1>7, <1>8, <1>9 DEF ReadInv

LEMMA ExtractingSteps ==
  ASSUME StandInv, ReadInv, ExtractView \/ ExtractCopy
  PROVE  ReadInv'
<1> DEFINE n == Len(arrays) + 1
           o == NextOperand
<1>1. Extracts /\ n \in DOMAIN operands /\ o = operands[n]
  <2>1. Extracts /\ stage = "run" /\ Len(arrays) < Len(operands)
    BY DEF ExtractView, ExtractCopy, Extracts
  <2>2. Progress
    BY <2>1 DEF ReadInv
  <2> DEFINE a == Len(arrays)
             l == Len(operands)
  <2>3. a \in Nat /\ l \in Nat /\ a < l /\ DOMAIN operands = 1 .. l /\ n = a + 1
    BY <2>1, <2>2 DEF Progress
  <2> HIDE DEF a, l
  <2>4. a + 1 \in 1 .. l
    BY <2>3
  <2> QED BY <2>1, <2>3, <2>4 DEF NextOperand
<1>2. OnRows(o.holds) /\ Holding(o.block, o.holds)
  BY <1>1 DEF ReadInv, Extracts, OperandsHold
<1> HIDE DEF n, o
<1>3. CASE ExtractView
  <2>1. Extract(o.block) /\ Settle(memory) /\ results' = results /\ operands' = operands
    BY <1>3 DEF ExtractView, Extract, o
  <2>2. Undisturbed(memory)
    BY <2>1 DEF Undisturbed, Settle
  <2>3. o.block \in Live'
    BY <1>1, <2>1, HandlerKeeps
  <2>4. o.block \in DOMAIN memory' /\ memory'[o.block] = o.holds /\ \A r \in results : r.block # o.block
    BY <1>2, <2>1, <2>2, <2>3, HoldsOn
  <2> QED BY <1>1, <2>1, <2>2, <2>4, Extracting DEF o
<1>4. CASE ExtractCopy
  <2> DEFINE b == NewBlock
             cells == [i \in Rows |-> Cell(o.block, i)]
             m == Fresh(b, cells)
  <2>1. Extract(b) /\ Settle(m) /\ ~o.contiguous
    BY <1>4 DEF ExtractCopy, o
  <2>2. cells = o.holds
    <3>1. \A i \in Rows : Cell(o.block, i) = o.holds[i]
      BY <1>2 DEF Cell, Holding, OnRows
    <3> QED BY <1>2, <3>1 DEF OnRows
  <2>3. IsFiniteSet(DOMAIN memory) /\ DOMAIN memory \subseteq Nat
    BY DEF StandInv, MemoryFormed
  <2>4. /\ DOMAIN m = DOMAIN memory \cup {b} /\ m[b] = cells
        /\ \A a \in DOMAIN memory : m[a] = memory[a]
    BY <2>3, AddingNew
  <2>5. b \notin DOMAIN memory
    BY <2>3, NewBlocks
  <2> HIDE DEF cells, m, b
  <2>6. Undisturbed(m)
    BY <2>1, <2>4 DEF Undisturbed, Settle, Extract
  <2>7. b \in Live'
    <3>1. arrays' = Append(arrays, b) /\ bound' = Bound(n)
      BY <2>1 DEF Extract, n
    <3>2. n \in bound' /\ arrays'[n] = b
      <4>1. Progress
        BY <1>1 DEF ReadInv, Extracts
      <4> DEFINE a == Len(arrays)
      <4>2. a \in Nat /\ a = Len(arrays) /\ arrays = [k \in 1 .. a |-> arrays[k]] /\ n = a + 1
        BY <4>1 DEF Progress, n
      <4> HIDE DEF a
      <4>3. Append(arrays, b)[n] = b
        BY <4>2, Appended
      <4> QED BY <3>1, <4>3 DEF Bound
    <3> QED BY <3>2, HandlerKeeps
  <2>8. b \in DOMAIN memory' /\ memory'[b] = cells
    BY <2>1, <2>4, <2>7 DEF Settle
  <2>9. \A r \in results : r.block # b
    BY <2>5 DEF StandInv, ArraysStand
  <2> QED BY <1>1, <2>1, <2>2, <2>6, <2>8, <2>9, Extracting DEF o
<1> QED BY <1>3, <1>4

LEMMA SeriesSteps ==
  ASSUME StandInv, ReadInv, from_numpy \/ from_numpy_with_nulls
  PROVE  ReadInv'
<1> DEFINE n == Len(series) + 1
<1>1. Extracted /\ Len(series) < Len(arrays)
  BY DEF from_numpy, from_numpy_with_nulls
<1>2. n = Len(series) + 1
  OBVIOUS
<1> HIDE DEF n
<1>3. /\ Progress /\ n \in Nat /\ n \in DOMAIN arrays /\ n \in DOMAIN operands
      /\ DOMAIN series = 1 .. n - 1 /\ Source = arrays[n] /\ ArrayHolds(n)
      /\ n <= Len(arrays)
  BY <1>1, <1>2, NextArray
<1>4. CASE from_numpy
  <2> DEFINE e == [block |-> Source, mask |-> Nothing, device |-> FALSE]
  <2>1. /\ series' = Append(series, e) /\ memory' = memory
        /\ UNCHANGED <<columns, results, call, stage, operands, arrays, bound>>
    BY <1>4 DEF from_numpy
  <2>2. e.mask = Nothing /\ e.block = arrays[n]
    BY <1>3
  <2> HIDE DEF e
  <2>3. Undisturbed(memory)
    BY <2>1 DEF Undisturbed
  <2> QED BY <1>1, <1>2, <2>1, <2>2, <2>3, MakingSeries
<1>5. CASE from_numpy_with_nulls
  <2> DEFINE b == NewBlock
             x == NextBlock
             e == [block |-> b, mask |-> x, device |-> TRUE]
             cells == [i \in Rows |-> Cleaned(i)]
             bits == from_numpy_nans([i \in Rows |-> Cell(Source, i)])
             m == Storing(Fresh(b, cells), x, bits)
  <2>1. /\ series' = Append(series, e) /\ Settle(m)
        /\ UNCHANGED <<columns, results, call, stage, operands, arrays, bound>>
    BY <1>5 DEF from_numpy_with_nulls
  <2>2. OnRows(operands[n].holds) /\ Holding(Source, operands[n].holds)
    BY <1>1, <1>3 DEF ReadInv, Extracted, OperandsHold, ArrayHolds
  <2>3. \A i \in Rows : Cell(Source, i) = operands[n].holds[i]
    BY <2>2 DEF Cell, Holding, OnRows
  <2>4. cells = [i \in Rows |-> Clean(operands[n].holds[i])]
    BY <2>3 DEF Cleaned, Clean
  <2>5. bits = from_numpy_nans(operands[n].holds)
    <3>1. [i \in Rows |-> Cell(Source, i)] = operands[n].holds
      BY <2>2, <2>3 DEF OnRows
    <3> QED BY <3>1
  <2>6. IsFiniteSet(DOMAIN memory) /\ DOMAIN memory \subseteq Nat
    BY DEF StandInv, MemoryFormed
  <2>7. b \notin DOMAIN memory /\ x \notin DOMAIN memory /\ x \in Nat
    BY <2>6, NewBlocks
  <2> HIDE DEF cells, bits
  <2>8. /\ DOMAIN m = DOMAIN memory \cup {b, x} /\ m[b] = cells /\ m[x] = bits
        /\ \A a \in DOMAIN memory : m[a] = memory[a]
    BY <2>6, AddingTwo
  <2> HIDE DEF m, b, x
  <2>9. Undisturbed(m)
    BY <2>1, <2>8 DEF Undisturbed, Settle
  <2>10. x # Nothing
    BY <2>7, SeriesAssumption
  <2>11. b \in Live' /\ x \in Live'
    <3> DEFINE a == Len(series)
    <3>1. a \in Nat /\ a = Len(series) /\ series = [k \in 1 .. a |-> series[k]] /\ n = a + 1
      BY <1>2, <1>3 DEF Progress
    <3> HIDE DEF a, e
    <3>2. n \in DOMAIN Append(series, e) /\ Append(series, e)[n] = e
      BY <3>1, Appended
    <3>3. n \in DOMAIN series' /\ series'[n] = e
      BY <2>1, <3>2
    <3>4. e.block = b /\ e.mask = x /\ e.device
      BY DEF e
    <3> QED BY <2>10, <3>3, <3>4, HandlerKeeps
  <2>12. /\ b \in DOMAIN memory' /\ memory'[b] = cells
         /\ x \in DOMAIN memory' /\ memory'[x] = bits
    BY <2>1, <2>8, <2>11 DEF Settle
  <2>13. \A r \in results : r.block # b /\ r.block # x
    BY <2>7 DEF StandInv, ArraysStand
  <2>14. /\ e.device /\ e.mask # Nothing
         /\ e.block \in DOMAIN memory'
         /\ memory'[e.block] = [i \in Rows |-> Clean(operands[n].holds[i])]
         /\ e.mask \in DOMAIN memory' /\ memory'[e.mask] = from_numpy_nans(operands[n].holds)
         /\ \A r \in results : r.block # e.block /\ r.block # e.mask
    BY <2>4, <2>5, <2>10, <2>12, <2>13
  <2> HIDE DEF e
  <2> QED BY <1>1, <1>2, <2>1, <2>9, <2>14, MakingSeries
<1> QED BY <1>4, <1>5

-----------------------------------------------------------------------------
(* Other steps *)

LEMMA InitReads == OnlyLastIsCopied /\ Init => ReadInv
<1> SUFFICES ASSUME OnlyLastIsCopied, Init PROVE ReadInv
  OBVIOUS
<1>1. AtRest /\ stage = "idle"
  BY DEF Init, AtRest
<1>2. PICK f \in Frames :
        columns = [n \in DOMAIN f |->
          [dtype |-> f[n].dtype, contiguous |-> f[n].contiguous,
           block |-> Place(f)[n], holds |-> f[n].values]]
  BY DEF Init
<1>3. \A n \in DOMAIN columns : n \in DOMAIN f /\ columns[n].contiguous = f[n].contiguous
                                /\ columns[n].holds = f[n].values
  BY <1>2
<1>4. ColumnsRead
  BY <1>3, SeriesAssumption DEF ColumnsRead, OnRows, OnlyLastIsCopied
<1> QED BY <1>1, <1>4 DEF ReadInv

\* A call starts with nothing extracted.
LEMMA CallReads ==
  ASSUME StandInv, ReadInv, NEW c \in Requests, Call(c)
  PROVE  ReadInv'
<1>1. /\ stage = "idle" /\ call' = c /\ stage' # "idle"
      /\ \A i \in DOMAIN c.args : c.args[i] \in DOMAIN columns
      /\ operands' = [i \in DOMAIN c.args |-> columns[c.args[i]]]
      /\ UNCHANGED <<memory, columns, results, arrays, bound, series>>
  BY DEF Call
<1>2. AtRest /\ ColumnsRead
  BY <1>1 DEF ReadInv
<1>3. Len(c.args) \in Nat /\ DOMAIN c.args = 1 .. Len(c.args)
  BY SeriesAssumption
<1>4. Len(operands') = Len(c.args) /\ DOMAIN operands' = 1 .. Len(c.args)
  BY <1>1, <1>3
<1>5. Progress'
  <2>1. call'.op = "values" =>
          \A k \in DOMAIN operands' : k < Len(operands') => operands'[k].contiguous
    BY <1>1, <1>2, <1>3, <1>4 DEF ColumnsRead
  <2>2. /\ arrays' = << >> /\ series' = << >> /\ bound' = {}
        /\ Len(operands') \in Nat /\ DOMAIN operands' = 1 .. Len(operands')
    BY <1>1, <1>2, <1>3, <1>4 DEF AtRest
  <2> QED BY <2>1, <2>2 DEF Progress
<1>6. OperandsHold'
  <2> SUFFICES ASSUME NEW k \in DOMAIN operands'
               PROVE  OnRows(operands'[k].holds) /\ Holding(operands[k].block, operands[k].holds)'
    BY DEF OperandsHold, OnRows
  <2>1. PICK n \in DOMAIN columns : operands'[k] = columns[n]
    BY <1>1, <1>3, <1>4
  <2>2. OnRows(columns[n].holds)
    BY <1>2 DEF ColumnsRead
  <2>3. Holding(columns[n].block, columns[n].holds)
    BY DEF StandInv, ArraysStand, BlocksApart, Holding
  <2> QED BY <1>1, <2>1, <2>2, <2>3 DEF Holding
<1>7. ArraysHold' /\ SeriesHold'
  BY <1>1, <1>2 DEF AtRest, ArraysHold, SeriesHold
<1>8. ColumnsRead'
  BY <1>1, <1>2 DEF ColumnsRead, OnRows
<1> QED BY <1>1, <1>5, <1>6, <1>7, <1>8 DEF ReadInv

\* A kernel ran, failed or was not asked, and a call ends.
LEMMA LaterReads ==
  ASSUME ReadInv,
         \/ metal_binary_op \/ metal_unary_op \/ metal_compare_op \/ metal_shift
         \/ metal_fillna \/ metal_rolling \/ eval_expression
         \/ DispatchFails \/ Raise \/ ReturnView \/ ReturnCopy \/ AskPandas
  PROVE  ReadInv'
<1>1. ColumnsRead /\ columns' = columns => ColumnsRead'
  BY DEF ColumnsRead, OnRows
<1>2. ASSUME columns' = columns, stage' = "made" \/ stage' = "pandas"  PROVE ReadInv'
  BY <1>1, <1>2 DEF ReadInv
<1>3. ASSUME NEW cells, dispatch_elementwise(cells) \/ dispatch_elementwise_masked(cells)
      PROVE  ReadInv'
  BY <1>2, <1>3 DEF dispatch_elementwise, dispatch_elementwise_masked
<1>4. CASE Leave
  BY <1>1, <1>4 DEF Leave, ReadInv, AtRest
<1>5. CASE \/ metal_binary_op \/ metal_unary_op \/ metal_compare_op \/ metal_shift
           \/ metal_fillna \/ metal_rolling \/ eval_expression
  <2>1. \E cells : dispatch_elementwise(cells) \/ dispatch_elementwise_masked(cells)
    BY <1>5 DEF metal_binary_op, metal_unary_op, metal_compare_op, metal_shift, metal_fillna,
                metal_rolling, eval_expression
  <2> QED BY <1>3, <2>1
<1>6. CASE DispatchFails
  BY <1>2, <1>6 DEF DispatchFails
<1>7. CASE Raise \/ ReturnView \/ ReturnCopy \/ AskPandas
  BY <1>4, <1>7 DEF Raise, ReturnView, ReturnCopy, AskPandas, HandOut
<1> QED BY <1>5, <1>6, <1>7

\* Others touch no memory but that of arrays handed out and of columns.
LEMMA OthersDisturbNothing ==
  ASSUME StandInv, Others, stage # "idle"
  PROVE  \E m : Undisturbed(m)
<1>1. ASSUME NEW n \in DOMAIN columns, DropColumn(n)  PROVE Undisturbed(memory)
  BY <1>1 DEF DropColumn, Undisturbed, Settle
<1>2. ASSUME NEW r \in results, DropResult(r)  PROVE Undisturbed(memory)
  BY <1>2 DEF DropResult, Undisturbed, Settle
<1>3. ASSUME NEW r \in results, WriteResult(r)
      PROVE  Undisturbed([memory EXCEPT ![r.block] = Overwritten(memory[r.block])])
  <2> DEFINE m == [memory EXCEPT ![r.block] = Overwritten(memory[r.block])]
             q == [r EXCEPT !.holds = Overwritten(r.holds)]
  <2>1. Settle(m) /\ results' = (results \ {r}) \cup {q}
    BY <1>3 DEF WriteResult
  <2>2. /\ DOMAIN m = DOMAIN memory
        /\ \A b \in DOMAIN memory : b # r.block => m[b] = memory[b]
    OBVIOUS
  <2>3. q.block = r.block
    <3>1. r = [block |-> r.block, holds |-> r.holds]
      BY DEF StandInv, RecordsFormed
    <3> QED BY <3>1
  <2> HIDE DEF m, q
  <2>4. Undisturbed(m)
    BY <2>1, <2>2, <2>3 DEF Undisturbed, Settle
  <2> QED BY <2>4 DEF m
<1>4. \/ \E n \in DOMAIN columns : DropColumn(n) \/ WriteColumn(n)
      \/ \E r \in results : DropResult(r) \/ WriteResult(r)
  BY DEF Others
<1> QED BY <1>1, <1>2, <1>3, <1>4 DEF WriteColumn

LEMMA OthersRead ==
  ASSUME StandInv, ReadInv, Others
  PROVE  ReadInv'
<1>1. \/ \E n \in DOMAIN columns : DropColumn(n) \/ WriteColumn(n)
      \/ \E r \in results : DropResult(r) \/ WriteResult(r)
  BY DEF Others
<1>2. /\ UNCHANGED <<call, stage, operands, arrays, bound, series>>
  BY <1>1 DEF DropColumn, WriteColumn, DropResult, WriteResult
<1>3. ColumnsRead'
  <2>1. ASSUME NEW n \in DOMAIN columns, DropColumn(n)  PROVE ColumnsRead'
    BY <2>1 DEF DropColumn, ReadInv, ColumnsRead, OnRows
  <2>2. ASSUME NEW n \in DOMAIN columns, WriteColumn(n)  PROVE ColumnsRead'
    <3> DEFINE cells == Overwritten(columns[n].holds)
               c == [columns EXCEPT ![n].holds = cells]
    <3>1. columns' = c
      BY <2>2 DEF WriteColumn
    <3>2. OnRows(columns[n].holds)
      BY DEF ReadInv, ColumnsRead
    <3>3. OnRows(cells)
      BY <3>2 DEF OnRows, Overwritten
    <3> HIDE DEF cells
    <3>4. /\ DOMAIN c = DOMAIN columns
          /\ \A k \in DOMAIN columns : k # n => c[k] = columns[k]
          /\ c[n] = [ColumnOf(columns[n]) EXCEPT !.holds = cells]
      BY DEF StandInv, RecordsFormed
    <3> HIDE DEF c
    <3>5. c[n].holds = cells /\ c[n].contiguous = columns[n].contiguous
      BY <3>4 DEF ColumnOf
    <3>6. \A k \in DOMAIN c : OnRows(c[k].holds) /\ c[k].contiguous = columns[k].contiguous
      BY <3>3, <3>4, <3>5 DEF ReadInv, ColumnsRead
    <3> QED BY <3>1, <3>4, <3>6 DEF ReadInv, ColumnsRead, OnRows
  <2>3. ASSUME columns' = columns  PROVE ColumnsRead'
    BY <2>3 DEF ReadInv, ColumnsRead, OnRows
  <2> QED BY <1>1, <2>1, <2>2, <2>3 DEF DropResult, WriteResult
<1>4. CASE stage # "run"
  BY <1>2, <1>3, <1>4 DEF ReadInv, AtRest
<1>5. CASE stage = "run"
  <2>1. \E m : Undisturbed(m)
    BY <1>5, OthersDisturbNothing
  <2> QED BY <1>2, <1>3, <1>5, <2>1, QuietRead
<1> QED BY <1>4, <1>5

LEMMA ReadStep == StandInv /\ ReadInv /\ [Next]_vars => ReadInv'
<1> SUFFICES ASSUME StandInv, ReadInv, [Next]_vars PROVE ReadInv'
  OBVIOUS
<1>1. CASE UNCHANGED vars
  <2>1. /\ UNCHANGED <<call, stage, operands, arrays, bound, series, columns, results>>
        /\ memory' = memory
    BY <1>1 DEF vars
  <2>2. ColumnsRead'
    BY <2>1 DEF ReadInv, ColumnsRead, OnRows
  <2>3. CASE stage = "run"
    BY <2>1, <2>2, <2>3, QuietRead DEF Undisturbed
  <2>4. CASE stage # "run"
    BY <2>1, <2>2, <2>4 DEF ReadInv, AtRest
  <2> QED BY <2>3, <2>4
<1>2. CASE Next
  BY <1>2, CallReads, ExtractingSteps, SeriesSteps, LaterReads, OthersRead DEF Next, Serve
<1> QED BY <1>1, <1>2

\* Whatever is freed, used again and overwritten between the statements of a
\* handler, kernels read what the columns held when it was called, with missing
\* values where the mask says so: for masks of any width, and provided that the
\* loop of an expression copies its last column only.
THEOREM KernelsReadTheirColumns ==
  ASSUME OnlyLastIsCopied
  PROVE  Spec => []SeriesReadTheirColumn
<1>1. Init => StandInv /\ ReadInv
  BY OnlyLastIsCopied, InitStands, InitReads
<1>2. StandInv /\ ReadInv /\ [Next]_vars => (StandInv /\ ReadInv)'
  BY StandStep, ReadStep
<1>3. StandInv /\ ReadInv => SeriesReadTheirColumn
  BY HoldsRead
<1> QED BY <1>1, <1>2, <1>3, PTL DEF Spec

-----------------------------------------------------------------------------
(* What calls answer *)

\* Handlers are called with the columns and the parameters they take.
SoundRequests ==
  \A c \in Requests :
    /\ c.op \in Arithmetic \cup Comparisons \cup {"values"} => Len(c.args) = 2
    /\ c.op \in Unary \cup {"shift", "fillna", "rolling"} => Len(c.args) = 1
    /\ c.op = "rolling" =>
         c.by.window \in Nat \ {0} /\ c.by.agg \in {"sum", "mean", "min", "max", "count"}

\* Floats that are there are numbers.
Numeric(c) == c.dtype = "float32" => \A i \in Rows : c.holds[i] \in Int \cup {NaN}

SoundFloats ==
  /\ Written \in Int
  /\ \A f \in Frames : \A n \in DOMAIN f :
       f[n].dtype = "float32" => \A i \in Rows : f[n].values[i] \in Int \cup {NaN}

NumbersHeld ==
  /\ \A n \in DOMAIN columns : Numeric(columns[n])
  /\ stage = "run" => \A k \in DOMAIN operands : Numeric(operands[k])

\* What is served is a call of the handler, past its guards.
CallFits ==
  stage \in {"run", "made"} =>
    call \in Requests /\ Served(call, operands) /\ Len(operands) = Len(call.args)

Floating == call.op \in Arithmetic /\ operands[1].dtype = "float32"

\* Only arithmetic on floats makes masks, of every operand that misses a value.
MasksFollow ==
  stage = "run" =>
    \A k \in DOMAIN series :
      IF series[k].mask = Nothing
      THEN Floating => \A i \in Rows : operands[k].holds[i] # NaN
      ELSE Floating

MadeStands ==
  /\ made.device /\ made.block \in DOMAIN memory
  /\ made.mask # Nothing =>
       made.mask \in DOMAIN memory /\ \A r \in results : r.block # made.mask

\* What is returned of a result, while others go on, is what pandas answers.
MadeRight ==
  stage = "made" =>
    MadeStands /\ \A i \in Rows : Restored(i) = PandasAnswer(call, operands)[i]

AnswerInv == NumbersHeld /\ CallFits /\ MasksFollow /\ MadeRight

-----------------------------------------------------------------------------
(* Extremes of a window *)

\* The fold of a choice between two values is one of all of them that stands in
\* the order to each.
LEMMA FoldPicks ==
  ASSUME NEW M, IsFiniteSet(M), NEW a \in Int, NEW f \in [M -> Int],
         NEW step \in FoldSteps(M, Int), NEW R,
         \A x \in Int : <<x, x>> \in R,
         \A x, y, z \in Int : <<x, y>> \in R /\ <<y, z>> \in R => <<x, z>> \in R,
         \A i \in M, v \in Int :
           /\ step[<<i, v>>] \in {f[i], v}
           /\ <<step[<<i, v>>], f[i]>> \in R /\ <<step[<<i, v>>], v>> \in R,
         NEW g, FoldsOn(g, M, a, step)
  PROVE  /\ g[M] \in Int /\ g[M] \in {a} \cup {f[i] : i \in M}
         /\ <<g[M], a>> \in R /\ \A i \in M : <<g[M], f[i]>> \in R
<1> DEFINE Right(s) == /\ g[s] \in Int /\ g[s] \in {a} \cup {f[i] : i \in M}
                       /\ <<g[s], a>> \in R /\ \A i \in s : <<g[s], f[i]>> \in R
           P == {s \in SUBSET M : Right(s)}
<1>1. ASSUME NEW s \in SUBSET M, \A x \in s : s \ {x} \in P PROVE s \in P
  <2>1. g[s] = NextFold(g, a, step, s)
    BY DEF FoldsOn
  <2>2. CASE s = {}
    <3>1. g[s] = a
      BY <2>1, <2>2 DEF NextFold
    <3> QED BY <2>2, <3>1
  <2>3. CASE s # {}
    <3> DEFINE x == OneOf(s)
               v == g[s \ {x}]
    <3>1. x \in s /\ x \in M
      BY <2>3, OneOfMember
    <3>2. Right(s \ {x})
      BY <1>1, <3>1
    <3>3. g[s] = step[<<x, v>>]
      BY <2>1, <2>3 DEF NextFold
    <3> HIDE DEF x
    <3>4. v \in Int /\ v \in {a} \cup {f[i] : i \in M} /\ <<v, a>> \in R
          /\ \A i \in s \ {x} : <<v, f[i]>> \in R
      BY <3>2
    <3> HIDE DEF v
    <3>5. /\ g[s] \in {f[x], v} /\ <<g[s], f[x]>> \in R /\ <<g[s], v>> \in R
      BY <3>1, <3>3, <3>4
    <3>6. f[x] \in Int /\ g[s] \in Int
      BY <3>1, <3>4, <3>5
    <3>7. g[s] \in {a} \cup {f[i] : i \in M}
      BY <3>1, <3>4, <3>5
    <3>8. <<g[s], a>> \in R
      BY <3>4, <3>5, <3>6
    <3>9. ASSUME NEW i \in s PROVE <<g[s], f[i]>> \in R
      <4>1. CASE i = x
        BY <3>5, <4>1
      <4>2. CASE i # x
        <5>1. <<v, f[i]>> \in R /\ f[i] \in Int
          BY <3>4, <4>2
        <5> QED BY <3>4, <3>5, <3>6, <5>1
      <4> QED BY <4>1, <4>2
    <3> QED BY <3>6, <3>7, <3>8, <3>9
  <2> QED BY <2>2, <2>3
<1>2. \A s \in SUBSET M : s \in P
  <2> HIDE DEF P
  <2> QED BY <1>1, SubsetInduction
<1> QED BY <1>2

\* The least and the greatest of the values of f and a base, as the kernel folds
\* them.
LeastOf(a, f) == FoldFunction(Lesser, a, f)
GreatestOf(a, f) == FoldFunction(Greater, a, f)

LEMMA LeastIs ==
  ASSUME NEW M, IsFiniteSet(M), NEW a \in Int, NEW f \in [M -> Int]
  PROVE  /\ LeastOf(a, f) \in {a} \cup {f[i] : i \in M}
         /\ LeastOf(a, f) <= a /\ \A i \in M : LeastOf(a, f) <= f[i]
<1> DEFINE V == Int
           step == [q \in M \X Int |-> Lesser(f[q[1]], q[2])]
           R == {q \in Int \X Int : q[1] <= q[2]}
<1>1. \A i \in M, v \in Int : step[<<i, v>>] = Lesser(f[i], v)
  OBVIOUS
<1>2. step \in FoldSteps(M, V) /\ a \in V
  BY DEF FoldSteps, Lesser
<1>3. \A x, y \in Int : <<x, y>> \in R <=> x <= y
  OBVIOUS
<1> DEFINE r[s \in SUBSET M] ==
             IF s = {} THEN a
             ELSE LET x == CHOOSE x \in s : TRUE IN Lesser(f[x], r[s \ {x}])
<1>4. LeastOf(a, f) = r[M]
  BY DEF LeastOf, FoldFunction, FoldFunctionOnSet, MapThenFoldSet
<1> HIDE DEF step, R, V
<1>5. PICK g : FoldsOn(g, M, a, step)
  BY <1>2, FoldExists
<1>6. \A s \in SUBSET M : g[s] \in V
  BY <1>2, <1>5, FoldOfFunction
<1>7. g = [s \in SUBSET M |->
             IF s = {} THEN a
             ELSE LET x == CHOOSE x \in s : TRUE IN Lesser(f[x], g[s \ {x}])]
  <2>1. ASSUME NEW s \in SUBSET M
        PROVE  NextFold(g, a, step, s) =
                 IF s = {} THEN a
                 ELSE LET x == CHOOSE x \in s : TRUE IN Lesser(f[x], g[s \ {x}])
    <3>1. CASE s = {}
      BY <3>1 DEF NextFold
    <3>2. CASE s # {}
      <4> DEFINE x == CHOOSE x \in s : TRUE
      <4>1. x \in s /\ x = OneOf(s)
        BY <3>2 DEF OneOf
      <4> HIDE DEF x
      <4>2. step[<<x, g[s \ {x}]>>] = Lesser(f[x], g[s \ {x}])
        BY <1>1, <1>6, <4>1 DEF V
      <4>3. NextFold(g, a, step, s) = Lesser(f[x], g[s \ {x}])
        BY <3>2, <4>1, <4>2 DEF NextFold
      <4> QED BY <3>2, <4>3 DEF x
    <3> QED BY <3>1, <3>2
  <2>2. g = [s \in SUBSET M |-> NextFold(g, a, step, s)]
    BY <1>5 DEF FoldsOn
  <2> QED BY <2>1, <2>2
<1>8. r = [s \in SUBSET M |->
             IF s = {} THEN a
             ELSE LET x == CHOOSE x \in s : TRUE IN Lesser(f[x], r[s \ {x}])]
  <2>1. \E u : u = [s \in SUBSET M |->
                      IF s = {} THEN a
                      ELSE LET x == CHOOSE x \in s : TRUE IN Lesser(f[x], u[s \ {x}])]
    BY <1>7
  <2> QED BY <2>1
<1> HIDE DEF r
<1>9. r = [s \in SUBSET M |-> r[s]]
  BY <1>8
<1>10. r[{}] = a
  BY <1>8
<1>11. StepsAlong(r, M, V, step)
  <2> SUFFICES ASSUME NEW s \in SUBSET M, s # {}, r[s \ {OneOf(s)}] \in V
               PROVE  r[s] = step[<<OneOf(s), r[s \ {OneOf(s)}]>>]
    BY DEF StepsAlong
  <2>1. OneOf(s) \in M
    BY OneOfMember
  <2>2. r[s] = Lesser(f[OneOf(s)], r[s \ {OneOf(s)}])
    BY <1>8 DEF OneOf
  <2> QED BY <1>1, <2>1, <2>2 DEF V
<1>12. FoldsOn(r, M, a, step)
  BY <1>2, <1>9, <1>10, <1>11, FoldFollows
<1>13. \A x \in Int : <<x, x>> \in R
  BY <1>3
<1>14. \A x, y, z \in Int : <<x, y>> \in R /\ <<y, z>> \in R => <<x, z>> \in R
  BY <1>3
<1>15. ASSUME NEW i \in M, NEW v \in Int
       PROVE  /\ step[<<i, v>>] \in {f[i], v}
              /\ <<step[<<i, v>>], f[i]>> \in R /\ <<step[<<i, v>>], v>> \in R
  <2>1. f[i] \in Int /\ step[<<i, v>>] = Lesser(f[i], v)
    BY <1>1
  <2> QED BY <1>3, <2>1 DEF Lesser
<1>16. step \in FoldSteps(M, Int)
  BY <1>2 DEF V
<1>17. /\ r[M] \in Int /\ r[M] \in {a} \cup {f[i] : i \in M}
       /\ <<r[M], a>> \in R /\ \A i \in M : <<r[M], f[i]>> \in R
  BY <1>12, <1>13, <1>14, <1>15, <1>16, FoldPicks
<1> QED BY <1>3, <1>4, <1>17

LEMMA GreatestIs ==
  ASSUME NEW M, IsFiniteSet(M), NEW a \in Int, NEW f \in [M -> Int]
  PROVE  /\ GreatestOf(a, f) \in {a} \cup {f[i] : i \in M}
         /\ a <= GreatestOf(a, f) /\ \A i \in M : f[i] <= GreatestOf(a, f)
<1> DEFINE V == Int
           step == [q \in M \X Int |-> Greater(f[q[1]], q[2])]
           R == {q \in Int \X Int : q[2] <= q[1]}
<1>1. \A i \in M, v \in Int : step[<<i, v>>] = Greater(f[i], v)
  OBVIOUS
<1>2. step \in FoldSteps(M, V) /\ a \in V
  BY DEF FoldSteps, Greater
<1>3. \A x, y \in Int : <<x, y>> \in R <=> y <= x
  OBVIOUS
<1> DEFINE r[s \in SUBSET M] ==
             IF s = {} THEN a
             ELSE LET x == CHOOSE x \in s : TRUE IN Greater(f[x], r[s \ {x}])
<1>4. GreatestOf(a, f) = r[M]
  BY DEF GreatestOf, FoldFunction, FoldFunctionOnSet, MapThenFoldSet
<1> HIDE DEF step, R, V
<1>5. PICK g : FoldsOn(g, M, a, step)
  BY <1>2, FoldExists
<1>6. \A s \in SUBSET M : g[s] \in V
  BY <1>2, <1>5, FoldOfFunction
<1>7. g = [s \in SUBSET M |->
             IF s = {} THEN a
             ELSE LET x == CHOOSE x \in s : TRUE IN Greater(f[x], g[s \ {x}])]
  <2>1. ASSUME NEW s \in SUBSET M
        PROVE  NextFold(g, a, step, s) =
                 IF s = {} THEN a
                 ELSE LET x == CHOOSE x \in s : TRUE IN Greater(f[x], g[s \ {x}])
    <3>1. CASE s = {}
      BY <3>1 DEF NextFold
    <3>2. CASE s # {}
      <4> DEFINE x == CHOOSE x \in s : TRUE
      <4>1. x \in s /\ x = OneOf(s)
        BY <3>2 DEF OneOf
      <4> HIDE DEF x
      <4>2. step[<<x, g[s \ {x}]>>] = Greater(f[x], g[s \ {x}])
        BY <1>1, <1>6, <4>1 DEF V
      <4>3. NextFold(g, a, step, s) = Greater(f[x], g[s \ {x}])
        BY <3>2, <4>1, <4>2 DEF NextFold
      <4> QED BY <3>2, <4>3 DEF x
    <3> QED BY <3>1, <3>2
  <2>2. g = [s \in SUBSET M |-> NextFold(g, a, step, s)]
    BY <1>5 DEF FoldsOn
  <2> QED BY <2>1, <2>2
<1>8. r = [s \in SUBSET M |->
             IF s = {} THEN a
             ELSE LET x == CHOOSE x \in s : TRUE IN Greater(f[x], r[s \ {x}])]
  <2>1. \E u : u = [s \in SUBSET M |->
                      IF s = {} THEN a
                      ELSE LET x == CHOOSE x \in s : TRUE IN Greater(f[x], u[s \ {x}])]
    BY <1>7
  <2> QED BY <2>1
<1> HIDE DEF r
<1>9. r = [s \in SUBSET M |-> r[s]]
  BY <1>8
<1>10. r[{}] = a
  BY <1>8
<1>11. StepsAlong(r, M, V, step)
  <2> SUFFICES ASSUME NEW s \in SUBSET M, s # {}, r[s \ {OneOf(s)}] \in V
               PROVE  r[s] = step[<<OneOf(s), r[s \ {OneOf(s)}]>>]
    BY DEF StepsAlong
  <2>1. OneOf(s) \in M
    BY OneOfMember
  <2>2. r[s] = Greater(f[OneOf(s)], r[s \ {OneOf(s)}])
    BY <1>8 DEF OneOf
  <2> QED BY <1>1, <2>1, <2>2 DEF V
<1>12. FoldsOn(r, M, a, step)
  BY <1>2, <1>9, <1>10, <1>11, FoldFollows
<1>13. \A x \in Int : <<x, x>> \in R
  BY <1>3
<1>14. \A x, y, z \in Int : <<x, y>> \in R /\ <<y, z>> \in R => <<x, z>> \in R
  BY <1>3
<1>15. ASSUME NEW i \in M, NEW v \in Int
       PROVE  /\ step[<<i, v>>] \in {f[i], v}
              /\ <<step[<<i, v>>], f[i]>> \in R /\ <<step[<<i, v>>], v>> \in R
  <2>1. f[i] \in Int /\ step[<<i, v>>] = Greater(f[i], v)
    BY <1>1
  <2> QED BY <1>3, <2>1 DEF Greater
<1>16. step \in FoldSteps(M, Int)
  BY <1>2 DEF V
<1>17. /\ r[M] \in Int /\ r[M] \in {a} \cup {f[i] : i \in M}
       /\ <<r[M], a>> \in R /\ \A i \in M : <<r[M], f[i]>> \in R
  BY <1>12, <1>13, <1>14, <1>15, <1>16, FoldPicks
<1> QED BY <1>3, <1>4, <1>17

-----------------------------------------------------------------------------
(* What pandas answers, by the kind of call *)

LEMMA PandasAnswers ==
  ASSUME NEW c, NEW given, NEW i \in Rows
  PROVE  LET a == given[1].holds
             v == PandasAnswer(c, given)[i]
         IN  /\ c.op \in Arithmetic \cup Comparisons =>
                  v = Combined(c.op, a[i], given[2].holds[c.match[i]])
             /\ c.op \in Unary => v = UnaryValue(c.op, a[i])
             /\ c.op = "shift" =>
                  v = IF i - c.by \in Rows THEN a[i - c.by] ELSE Missing(given[1].dtype)
             /\ c.op = "fillna" => v = IF a[i] = NaN THEN c.by ELSE a[i]
             /\ c.op = "rolling" => v = PandasWindow(c.by, a, i)
             /\ c.op = "values" => v = Combined("add", a[i], given[2].holds[i])
<1> DEFINE v == PandasAnswer(c, given)[i]
           a == given[1].holds
<1>1. v = CASE c.op = "fillna" -> IF a[i] = NaN THEN c.by ELSE a[i]
            [] c.op = "shift"  -> IF i - c.by \in Rows THEN a[i - c.by] ELSE Missing(given[1].dtype)
            [] c.op = "rolling" -> PandasWindow(c.by, a, i)
            [] c.op = "values" -> Combined("add", a[i], given[2].holds[i])
            [] c.op \in Arithmetic \cup Comparisons -> Combined(c.op, a[i], given[2].holds[c.match[i]])
            [] OTHER -> UnaryValue(c.op, a[i])
  BY DEF PandasAnswer
<1> HIDE DEF v, a
<1>2. c.op \in Arithmetic \cup Comparisons => v = Combined(c.op, a[i], given[2].holds[c.match[i]])
  BY <1>1 DEF Arithmetic, Comparisons
<1>3. c.op \in Unary => v = UnaryValue(c.op, a[i])
  BY <1>1 DEF Arithmetic, Comparisons, Unary
<1>4. c.op = "shift" =>
        v = IF i - c.by \in Rows THEN a[i - c.by] ELSE Missing(given[1].dtype)
  BY <1>1 DEF Arithmetic, Comparisons
<1>5. c.op = "fillna" => v = IF a[i] = NaN THEN c.by ELSE a[i]
  BY <1>1 DEF Arithmetic, Comparisons
<1>6. c.op = "rolling" => v = PandasWindow(c.by, a, i)
  BY <1>1 DEF Arithmetic, Comparisons
<1>7. c.op = "values" => v = Combined("add", a[i], given[2].holds[i])
  BY <1>1 DEF Arithmetic, Comparisons
<1> QED BY <1>2, <1>3, <1>4, <1>5, <1>6, <1>7 DEF v, a

\* The mask a kernel's validity is packed into.
LEMMA PackTells ==
  ASSUME NEW valid, NEW i \in Rows
  PROVE  is_valid(pack_validity_to_mask(valid), i) <=> valid[i]
<1> DEFINE k == i \div ByteWidth
           b == i % ByteWidth
<1>1. k \in Bytes /\ b \in Bits /\ k * ByteWidth + b = i
  BY BitOfRow
<1> SUFFICES b \in pack_validity_to_mask(valid)[k] <=> valid[i]
  BY DEF is_valid
<1> HIDE DEF k, b
<1>2. pack_validity_to_mask(valid)[k]
        = {a \in Bits : k * ByteWidth + a \in Rows /\ valid[k * ByteWidth + a]}
  BY <1>1 DEF pack_validity_to_mask
<1> QED BY <1>1, <1>2

\* What is returned of a result without a mask, from what its kernel wrote.
Returned(i, v) ==
  IF call.op = "shift" /\ InFill(i) THEN Missing(operands[1].dtype)
  ELSE IF call.op = "rolling" /\ ValidCount(i) < call.by.min_periods THEN NaN
  ELSE v

LEMMA MakingPlain ==
  ASSUME StandInv, NEW cells, cells = [i \in Rows |-> cells[i]],
         dispatch_elementwise(cells),
         \A i \in Rows : Returned(i, cells[i]) = PandasAnswer(call, operands)[i]
  PROVE  MadeRight'
<1> DEFINE m == Fresh(NewBlock, cells)
<1>1. /\ made' = [block |-> NewBlock, mask |-> Nothing, device |-> TRUE]
      /\ stage' = "made" /\ Settle(m)
      /\ UNCHANGED <<results, call, operands>>
  BY DEF dispatch_elementwise
<1>2. NewBlock \in DOMAIN m /\ m[NewBlock] = cells
  BY AddingNew DEF StandInv, MemoryFormed
<1> HIDE DEF m
<1>3. made'.block = NewBlock /\ made'.mask = Nothing /\ made'.device
  BY <1>1
<1>4. NewBlock \in Live'
  <2>1. DeviceBlocks(made)' \subseteq Live'
    BY <1>1 DEF Live
  <2>2. made'.block \in DeviceBlocks(made)'
    BY <1>3 DEF DeviceBlocks
  <2> QED BY <1>3, <2>1, <2>2
<1>5. NewBlock \in DOMAIN memory' /\ memory'[NewBlock] = cells
  BY <1>1, <1>2, <1>4 DEF Settle
<1>6. MadeStands'
  BY <1>3, <1>5 DEF MadeStands
<1>7. ASSUME NEW i \in Rows PROVE Restored(i)' = Returned(i, cells[i])
  <2>1. i \in DOMAIN cells
    OBVIOUS
  <2>2. Answer(i)' = cells[i]
    BY <1>3, <1>5, <2>1 DEF Answer, Cell
  <2>3. InFill(i)' = InFill(i) /\ ValidCount(i)' = ValidCount(i)
    BY <1>1 DEF InFill, ValidCount
  <2> QED BY <1>1, <1>3, <2>2, <2>3 DEF Restored, Returned
<1>8. PandasAnswer(call, operands)' = PandasAnswer(call, operands)
  BY <1>1 DEF PandasAnswer
<1> QED BY <1>6, <1>7, <1>8 DEF MadeRight

LEMMA MakingMasked ==
  ASSUME StandInv, NEW cells, cells = [i \in Rows |-> cells[i]],
         dispatch_elementwise_masked(cells), call.op \in Arithmetic,
         \A i \in Rows : (IF AllValid(i) THEN cells[i] ELSE NaN) = PandasAnswer(call, operands)[i]
  PROVE  MadeRight'
<1> DEFINE valid == [i \in Rows |-> AllValid(i)]
           bits == pack_validity_to_mask(valid)
           m == Storing(Fresh(NewBlock, cells), NextBlock, bits)
<1>1. /\ made' = [block |-> NewBlock, mask |-> NextBlock, device |-> TRUE]
      /\ stage' = "made" /\ Settle(m)
      /\ UNCHANGED <<results, call, operands>>
  BY DEF dispatch_elementwise_masked
<1>2. \A i \in Rows : is_valid(bits, i) <=> AllValid(i)
  <2> SUFFICES ASSUME NEW i \in Rows PROVE is_valid(bits, i) <=> AllValid(i)
    OBVIOUS
  <2>1. is_valid(bits, i) <=> valid[i]
    BY PackTells
  <2>2. valid[i] = AllValid(i)
    OBVIOUS
  <2> HIDE DEF valid, bits
  <2> QED BY <2>1, <2>2
<1> HIDE DEF valid, bits
<1>3. /\ NewBlock \in DOMAIN m /\ m[NewBlock] = cells
      /\ NextBlock \in DOMAIN m /\ m[NextBlock] = bits
  BY AddingTwo DEF StandInv, MemoryFormed
<1> HIDE DEF m
<1>4. NextBlock \in Nat /\ NextBlock \notin DOMAIN memory
  BY NewBlocks DEF StandInv, MemoryFormed
<1>5. made'.block = NewBlock /\ made'.mask = NextBlock /\ made'.device /\ NextBlock # Nothing
  BY <1>1, <1>4, SeriesAssumption
<1>6. NewBlock \in Live' /\ NextBlock \in Live'
  <2>1. DeviceBlocks(made)' \subseteq Live'
    BY <1>1 DEF Live
  <2>2. made'.block \in DeviceBlocks(made)' /\ made'.mask \in DeviceBlocks(made)'
    BY <1>5 DEF DeviceBlocks
  <2> QED BY <1>5, <2>1, <2>2
<1>7. /\ NewBlock \in DOMAIN memory' /\ memory'[NewBlock] = cells
      /\ NextBlock \in DOMAIN memory' /\ memory'[NextBlock] = bits
  BY <1>1, <1>3, <1>6 DEF Settle
<1>8. MadeStands'
  <2>1. \A r \in results : r.block # NextBlock
    BY <1>4 DEF StandInv, ArraysStand
  <2> QED BY <1>1, <1>5, <1>7, <2>1 DEF MadeStands
<1>9. ASSUME NEW i \in Rows PROVE Restored(i)' = IF AllValid(i) THEN cells[i] ELSE NaN
  <2>1. i \in DOMAIN cells
    OBVIOUS
  <2>2. Answer(i)' = cells[i]
    BY <1>5, <1>7, <2>1 DEF Answer, Cell
  <2>3. is_valid(memory[made.mask], i)' <=> AllValid(i)
    BY <1>2, <1>5, <1>7 DEF is_valid
  <2>4. Restored(i)' = IF is_valid(memory[made.mask], i)' THEN Answer(i)' ELSE NaN
    BY <1>1, <1>5 DEF Restored, Arithmetic
  <2> QED BY <2>2, <2>3, <2>4
<1>10. PandasAnswer(call, operands)' = PandasAnswer(call, operands)
  BY <1>1 DEF PandasAnswer
<1> QED BY <1>8, <1>9, <1>10 DEF MadeRight

-----------------------------------------------------------------------------
(* What kernels write *)

\* What a kernel finds.
LEMMA KernelInputs ==
  ASSUME ReadInv, CallFits, MasksFollow, Ready
  PROVE  /\ DOMAIN series = 1 .. Len(call.args) /\ DOMAIN operands = 1 .. Len(call.args)
         /\ call \in Requests /\ Served(call, operands) /\ stage = "run"
         /\ \A k \in DOMAIN operands : OnRows(operands[k].holds)
         /\ ~Masked => \A k \in DOMAIN series : \A i \in Rows : Input(k, i) = operands[k].holds[i]
         /\ Masked => Floating
         /\ Floating =>
              \A k \in DOMAIN series : \A i \in Rows :
                /\ Valid(k, i) <=> operands[k].holds[i] # NaN
                /\ Valid(k, i) => Input(k, i) = operands[k].holds[i]
<1>1. stage = "run" /\ Len(series) = Len(operands)
  BY DEF Ready
<1>2. Progress /\ OperandsHold /\ SeriesReadTheirColumn
  BY <1>1, HoldsRead DEF ReadInv
<1>3. call \in Requests /\ Served(call, operands) /\ Len(operands) = Len(call.args)
  BY <1>1 DEF CallFits
<1>4. DOMAIN series = 1 .. Len(call.args) /\ DOMAIN operands = 1 .. Len(call.args)
  BY <1>1, <1>2, <1>3 DEF Progress
<1>5. \A k \in DOMAIN operands : OnRows(operands[k].holds)
  BY <1>2 DEF OperandsHold
<1>6. \A k \in DOMAIN series : \A i \in Rows :
        IF series[k].mask # Nothing /\ operands[k].holds[i] = NaN
        THEN ~Valid(k, i)
        ELSE Valid(k, i) /\ Input(k, i) = operands[k].holds[i]
  BY <1>1, <1>2 DEF SeriesReadTheirColumn
<1>7. \A k \in DOMAIN series :
        IF series[k].mask = Nothing
        THEN Floating => \A i \in Rows : operands[k].holds[i] # NaN
        ELSE Floating
  BY <1>1 DEF MasksFollow
<1>8. ~Masked => \A k \in DOMAIN series : \A i \in Rows : Input(k, i) = operands[k].holds[i]
  BY <1>6 DEF Masked
<1>9. Masked => Floating
  BY <1>7 DEF Masked
<1>10. ASSUME Floating, NEW k \in DOMAIN series, NEW i \in Rows
       PROVE  /\ Valid(k, i) <=> operands[k].holds[i] # NaN
              /\ Valid(k, i) => Input(k, i) = operands[k].holds[i]
  BY <1>6, <1>7, <1>10
<1> QED BY <1>1, <1>3, <1>4, <1>5, <1>8, <1>9, <1>10

\* Two operands, one of which misses a value or not.
LEMMA BinaryRight ==
  ASSUME SoundRequests, StandInv, ReadInv, CallFits, MasksFollow, metal_binary_op
  PROVE  MadeRight'
<1> DEFINE c == [i \in Rows |-> IF AllValid(i)
                                THEN BinaryValue(call.op, Input(1, i), Input(2, i)) ELSE 0]
           d == [i \in Rows |-> Combined(call.op, Input(1, i), Input(2, i))]
<1>1. /\ Ready /\ call.op \in Arithmetic
      /\ IF Masked THEN dispatch_elementwise_masked(c) ELSE dispatch_elementwise(d)
  BY DEF metal_binary_op
<1>2. /\ DOMAIN series = 1 .. Len(call.args) /\ call \in Requests /\ Served(call, operands)
      /\ ~Masked => \A k \in DOMAIN series : \A i \in Rows : Input(k, i) = operands[k].holds[i]
      /\ Masked => Floating
      /\ Floating =>
           \A k \in DOMAIN series : \A i \in Rows :
             /\ Valid(k, i) <=> operands[k].holds[i] # NaN
             /\ Valid(k, i) => Input(k, i) = operands[k].holds[i]
  BY <1>1, KernelInputs
<1>3. Len(call.args) = 2
  BY <1>1, <1>2 DEF SoundRequests
<1>4. DOMAIN series = {1, 2}
  BY <1>2, <1>3
<1>5. \A i \in Rows : call.match[i] = i
  <2>1. SameIndex(call)
    BY <1>1, <1>2 DEF Served, Arithmetic
  <2> QED BY <2>1 DEF SameIndex
<1>6. ASSUME NEW i \in Rows
      PROVE  PandasAnswer(call, operands)[i]
               = Combined(call.op, operands[1].holds[i], operands[2].holds[i])
  BY <1>1, <1>5, PandasAnswers
<1>7. CASE ~Masked
  <2>1. ASSUME NEW i \in Rows PROVE Returned(i, d[i]) = PandasAnswer(call, operands)[i]
    <3>1. d[i] = Combined(call.op, operands[1].holds[i], operands[2].holds[i])
      BY <1>2, <1>4, <1>7
    <3>2. Returned(i, d[i]) = d[i]
      BY <1>1 DEF Returned, Arithmetic
    <3> QED BY <1>6, <3>1, <3>2
  <2>2. d = [i \in Rows |-> d[i]] /\ dispatch_elementwise(d)
    BY <1>1, <1>7
  <2> HIDE DEF d
  <2> QED BY <2>1, <2>2, MakingPlain
<1>8. CASE Masked
  <2>1. ASSUME NEW i \in Rows
        PROVE  (IF AllValid(i) THEN c[i] ELSE NaN) = PandasAnswer(call, operands)[i]
    <3> DEFINE a == operands[1].holds[i]
               b == operands[2].holds[i]
    <3>1. /\ Valid(1, i) <=> a # NaN
          /\ Valid(2, i) <=> b # NaN
          /\ Valid(1, i) => Input(1, i) = a
          /\ Valid(2, i) => Input(2, i) = b
      BY <1>2, <1>4, <1>8
    <3>2. AllValid(i) <=> Valid(1, i) /\ Valid(2, i)
      BY <1>4 DEF AllValid
    <3>3. AllValid(i) => c[i] = BinaryValue(call.op, Input(1, i), Input(2, i))
      OBVIOUS
    <3>4. Combined(call.op, a, b) = IF a = NaN \/ b = NaN THEN NaN ELSE BinaryValue(call.op, a, b)
      BY <1>1 DEF Combined, Arithmetic, Comparisons
    <3>5. PandasAnswer(call, operands)[i] = Combined(call.op, a, b)
      BY <1>6
    <3> HIDE DEF a, b, c
    <3>6. CASE AllValid(i)
      BY <3>1, <3>2, <3>3, <3>4, <3>5, <3>6
    <3>7. CASE ~AllValid(i)
      BY <3>1, <3>2, <3>4, <3>5, <3>7
    <3> QED BY <3>6, <3>7
  <2>2. c = [i \in Rows |-> c[i]] /\ dispatch_elementwise_masked(c)
    BY <1>1, <1>8
  <2> HIDE DEF c
  <2> QED BY <1>1, <2>1, <2>2, MakingMasked
<1> QED BY <1>7, <1>8

\* Kernels without masks.
LEMMA PlainInputs ==
  ASSUME ReadInv, CallFits, MasksFollow, Ready, call.op \notin Arithmetic
  PROVE  /\ DOMAIN operands = 1 .. Len(call.args) /\ call \in Requests /\ Served(call, operands)
         /\ \A k \in DOMAIN operands : OnRows(operands[k].holds)
         /\ \A k \in DOMAIN operands : \A i \in Rows : Input(k, i) = operands[k].holds[i]
<1>1. ~Masked
  BY KernelInputs DEF Floating
<1>2. \A k \in DOMAIN series : \A i \in Rows : Input(k, i) = operands[k].holds[i]
  BY <1>1, KernelInputs
<1> QED BY <1>2, KernelInputs

LEMMA UnaryRight ==
  ASSUME SoundRequests, StandInv, ReadInv, CallFits, MasksFollow, metal_unary_op
  PROVE  MadeRight'
<1> DEFINE c == [i \in Rows |-> UnaryValue(call.op, Input(1, i))]
<1>1. Ready /\ call.op \in Unary /\ dispatch_elementwise(c)
  BY DEF metal_unary_op
<1>2. call.op \notin Arithmetic /\ call.op # "shift" /\ call.op # "rolling"
  BY <1>1 DEF Unary, Arithmetic
<1>3. /\ DOMAIN operands = 1 .. Len(call.args) /\ call \in Requests
      /\ \A k \in DOMAIN operands : \A i \in Rows : Input(k, i) = operands[k].holds[i]
  BY <1>1, <1>2, PlainInputs
<1>4. \A i \in Rows : Input(1, i) = operands[1].holds[i]
  BY <1>1, <1>3 DEF SoundRequests
<1>5. ASSUME NEW i \in Rows PROVE Returned(i, c[i]) = PandasAnswer(call, operands)[i]
  <2>1. PandasAnswer(call, operands)[i] = UnaryValue(call.op, operands[1].holds[i])
    BY <1>1, PandasAnswers
  <2> QED BY <1>2, <1>4, <2>1 DEF Returned
<1>6. c = [i \in Rows |-> c[i]] /\ dispatch_elementwise(c)
  BY <1>1
<1> HIDE DEF c
<1> QED BY <1>5, <1>6, MakingPlain

LEMMA CompareRight ==
  ASSUME SoundRequests, StandInv, ReadInv, CallFits, MasksFollow, metal_compare_op
  PROVE  MadeRight'
<1> DEFINE c == [i \in Rows |-> Combined(call.op, Input(1, i), Input(2, i))]
<1>1. Ready /\ call.op \in Comparisons /\ dispatch_elementwise(c)
  BY DEF metal_compare_op
<1>2. call.op \notin Arithmetic /\ call.op # "shift" /\ call.op # "rolling"
  BY <1>1 DEF Comparisons, Arithmetic
<1>3. /\ DOMAIN operands = 1 .. Len(call.args) /\ call \in Requests /\ Served(call, operands)
      /\ \A k \in DOMAIN operands : \A i \in Rows : Input(k, i) = operands[k].holds[i]
  BY <1>1, <1>2, PlainInputs
<1>4. \A i \in Rows : Input(1, i) = operands[1].holds[i] /\ Input(2, i) = operands[2].holds[i]
  BY <1>1, <1>3 DEF SoundRequests
<1>5. \A i \in Rows : call.match[i] = i
  <2>1. SameIndex(call)
    BY <1>1, <1>3 DEF Served, Comparisons, Arithmetic
  <2> QED BY <2>1 DEF SameIndex
<1>6. ASSUME NEW i \in Rows PROVE Returned(i, c[i]) = PandasAnswer(call, operands)[i]
  <2>1. PandasAnswer(call, operands)[i]
          = Combined(call.op, operands[1].holds[i], operands[2].holds[call.match[i]])
    BY <1>1, PandasAnswers
  <2> QED BY <1>2, <1>4, <1>5, <2>1 DEF Returned
<1>7. c = [i \in Rows |-> c[i]] /\ dispatch_elementwise(c)
  BY <1>1
<1> HIDE DEF c
<1> QED BY <1>6, <1>7, MakingPlain

LEMMA EvalRight ==
  ASSUME SoundRequests, StandInv, ReadInv, CallFits, MasksFollow, eval_expression
  PROVE  MadeRight'
<1> DEFINE c == [i \in Rows |-> Combined("add", Input(1, i), Input(2, i))]
<1>1. Ready /\ call.op = "values" /\ dispatch_elementwise(c)
  BY DEF eval_expression
<1>2. call.op \notin Arithmetic
  BY <1>1 DEF Arithmetic
<1>3. /\ DOMAIN operands = 1 .. Len(call.args) /\ call \in Requests
      /\ \A k \in DOMAIN operands : \A i \in Rows : Input(k, i) = operands[k].holds[i]
  BY <1>1, <1>2, PlainInputs
<1>4. \A i \in Rows : Input(1, i) = operands[1].holds[i] /\ Input(2, i) = operands[2].holds[i]
  BY <1>1, <1>3 DEF SoundRequests
<1>5. ASSUME NEW i \in Rows PROVE Returned(i, c[i]) = PandasAnswer(call, operands)[i]
  <2>1. PandasAnswer(call, operands)[i] = Combined("add", operands[1].holds[i], operands[2].holds[i])
    BY <1>1, PandasAnswers
  <2> QED BY <1>1, <1>4, <2>1 DEF Returned
<1>6. c = [i \in Rows |-> c[i]] /\ dispatch_elementwise(c)
  BY <1>1
<1> HIDE DEF c
<1> QED BY <1>5, <1>6, MakingPlain

\* What a shift leaves empty is filled by the handler.
LEMMA ShiftRight ==
  ASSUME SoundRequests, StandInv, ReadInv, CallFits, MasksFollow, metal_shift
  PROVE  MadeRight'
<1> DEFINE c == [i \in Rows |-> IF i - call.by \in Rows THEN Input(1, i - call.by) ELSE Filler]
<1>1. Ready /\ call.op = "shift" /\ dispatch_elementwise(c)
  BY DEF metal_shift
<1>2. call.op \notin Arithmetic
  BY <1>1 DEF Arithmetic
<1>3. /\ DOMAIN operands = 1 .. Len(call.args) /\ call \in Requests
      /\ \A k \in DOMAIN operands : \A i \in Rows : Input(k, i) = operands[k].holds[i]
  BY <1>1, <1>2, PlainInputs
<1>4. \A i \in Rows : Input(1, i) = operands[1].holds[i]
  BY <1>1, <1>3 DEF SoundRequests
<1>5. ASSUME NEW i \in Rows PROVE Returned(i, c[i]) = PandasAnswer(call, operands)[i]
  <2>1. PandasAnswer(call, operands)[i]
          = IF i - call.by \in Rows THEN operands[1].holds[i - call.by]
            ELSE Missing(operands[1].dtype)
    BY <1>1, PandasAnswers
  <2>2. CASE i - call.by \in Rows
    BY <1>1, <1>4, <2>1, <2>2 DEF Returned, InFill
  <2>3. CASE i - call.by \notin Rows
    BY <1>1, <2>1, <2>3 DEF Returned, InFill
  <2> QED BY <2>2, <2>3
<1>6. c = [i \in Rows |-> c[i]] /\ dispatch_elementwise(c)
  BY <1>1
<1> HIDE DEF c
<1> QED BY <1>5, <1>6, MakingPlain

LEMMA FillRight ==
  ASSUME SoundRequests, StandInv, ReadInv, CallFits, MasksFollow, metal_fillna
  PROVE  MadeRight'
<1> DEFINE c == [i \in Rows |-> IF Input(1, i) = NaN THEN call.by ELSE Input(1, i)]
<1>1. Ready /\ call.op = "fillna" /\ dispatch_elementwise(c)
  BY DEF metal_fillna
<1>2. call.op \notin Arithmetic
  BY <1>1 DEF Arithmetic
<1>3. /\ DOMAIN operands = 1 .. Len(call.args) /\ call \in Requests
      /\ \A k \in DOMAIN operands : \A i \in Rows : Input(k, i) = operands[k].holds[i]
  BY <1>1, <1>2, PlainInputs
<1>4. \A i \in Rows : Input(1, i) = operands[1].holds[i]
  BY <1>1, <1>3 DEF SoundRequests
<1>5. ASSUME NEW i \in Rows PROVE Returned(i, c[i]) = PandasAnswer(call, operands)[i]
  <2>1. PandasAnswer(call, operands)[i]
          = IF operands[1].holds[i] = NaN THEN call.by ELSE operands[1].holds[i]
    BY <1>1, PandasAnswers
  <2> QED BY <1>1, <1>4, <2>1 DEF Returned
<1>6. c = [i \in Rows |-> c[i]] /\ dispatch_elementwise(c)
  BY <1>1
<1> HIDE DEF c
<1> QED BY <1>5, <1>6, MakingPlain

-----------------------------------------------------------------------------
(* Windows *)

\* The rows of a window, of which none misses a value.
LEMMA WindowRows ==
  ASSUME NEW i \in Rows, call.by.window \in Nat \ {0},
         NEW a, \A j \in Rows : a[j] # NaN
  PROVE  LET W == WindowStart(i) .. i
         IN  /\ {j \in Rows : i - call.by.window < j /\ j <= i /\ a[j] # NaN} = W
             /\ W \subseteq Rows /\ i \in W /\ IsFiniteSet(W)
             /\ Cardinality(W) = ValidCount(i) /\ i - WindowStart(i) + 1 = ValidCount(i)
<1> DEFINE w == call.by.window
           start == WindowStart(i)
<1>1. NumRows \in Nat /\ i \in Nat /\ i < NumRows /\ w \in Nat /\ w > 0
  BY SeriesAssumption DEF Rows
<1>2. /\ start \in Nat /\ start <= i
      /\ i + 1 >= w => start = i + 1 - w
      /\ i + 1 < w => start = 0
  BY <1>1 DEF WindowStart
<1>3. ValidCount(i) = i - start + 1
  BY <1>1, <1>2 DEF ValidCount
<1> HIDE DEF w, start
<1>4. start .. i \subseteq Rows /\ i \in start .. i
  BY <1>1, <1>2 DEF Rows
<1>5. \A j \in Rows : i - w < j /\ j <= i <=> j \in start .. i
  BY <1>1, <1>2 DEF Rows
<1>6. {j \in Rows : i - w < j /\ j <= i /\ a[j] # NaN} = start .. i
  BY <1>4, <1>5
<1>7. IsFiniteSet(start .. i) /\ Cardinality(start .. i) = i - start + 1
  <2>1. start \in Int /\ i \in Int /\ ~(start > i)
    BY <1>1, <1>2
  <2> QED BY <2>1, FS_Interval
<1> QED BY <1>3, <1>4, <1>6, <1>7 DEF w, start

\* The sum of a window, as the kernel and pandas fold it.
TotalOf(f) == FoldFunction(+, 0, f)

LEMMA WindowAnswers ==
  ASSUME NEW agg, NEW f
  PROVE  /\ agg = "sum" => Aggregate(agg, f) = TotalOf(f)
         /\ agg = "count" => Aggregate(agg, f) = Cardinality(DOMAIN f)
         /\ agg = "mean" => Aggregate(agg, f) = BinaryValue("div", TotalOf(f), Cardinality(DOMAIN f))
         /\ agg = "min" =>
              Aggregate(agg, f) = CHOOSE v \in Range(f) : \A u \in Range(f) : v <= u
         /\ agg = "max" =>
              Aggregate(agg, f) = CHOOSE v \in Range(f) : \A u \in Range(f) : u <= v
<1>1. agg = "sum" => Aggregate(agg, f) = TotalOf(f)
  BY DEF Aggregate, TotalOf
<1>2. agg = "count" => Aggregate(agg, f) = Cardinality(DOMAIN f)
  BY DEF Aggregate
<1>3. agg = "mean" => Aggregate(agg, f) = BinaryValue("div", TotalOf(f), Cardinality(DOMAIN f))
  BY DEF Aggregate, TotalOf
<1>4. agg = "min" => Aggregate(agg, f) = CHOOSE v \in Range(f) : \A u \in Range(f) : v <= u
  BY DEF Aggregate
<1>5. agg = "max" => Aggregate(agg, f) = CHOOSE v \in Range(f) : \A u \in Range(f) : u <= v
  BY DEF Aggregate
<1> QED BY <1>1, <1>2, <1>3, <1>4, <1>5

LEMMA CellAnswers ==
  ASSUME NEW i
  PROVE  /\ RollingCell("sum", i) = TotalOf(Window(i))
         /\ RollingCell("min", i) = LeastOf(Input(1, i), Window(i))
         /\ RollingCell("max", i) = GreatestOf(Input(1, i), Window(i))
         /\ RollingCell("count", i) = i - WindowStart(i) + 1
<1>1. RollingCell("sum", i) = TotalOf(Window(i))
  BY DEF RollingCell, TotalOf
<1>2. RollingCell("min", i) = LeastOf(Input(1, i), Window(i))
  BY DEF RollingCell, LeastOf
<1>3. RollingCell("max", i) = GreatestOf(Input(1, i), Window(i))
  BY DEF RollingCell, GreatestOf
<1>4. RollingCell("count", i) = i - WindowStart(i) + 1
  BY DEF RollingCell
<1> QED BY <1>1, <1>2, <1>3, <1>4

\* The extreme that pandas chooses is the one that the kernel folds.
LEMMA LeastChosen ==
  ASSUME NEW M, IsFiniteSet(M), NEW f \in [M -> Int], NEW i \in M
  PROVE  LeastOf(f[i], f) = CHOOSE v \in Range(f) : \A u \in Range(f) : v <= u
<1> DEFINE x == LeastOf(f[i], f)
<1>1. x \in {f[i]} \cup {f[j] : j \in M} /\ \A j \in M : x <= f[j]
  <2>1. f[i] \in Int
    OBVIOUS
  <2> QED BY <2>1, LeastIs
<1> HIDE DEF x
<1>2. Range(f) = {f[j] : j \in M} /\ \A u \in Range(f) : u \in Int
  BY DEF Range
<1>3. x \in Range(f) /\ \A u \in Range(f) : x <= u
  BY <1>1, <1>2
<1>4. \A v \in Range(f) : (\A u \in Range(f) : v <= u) => v = x
  BY <1>2, <1>3
<1> HIDE DEF x
<1>5. x = CHOOSE v \in Range(f) : \A u \in Range(f) : v <= u
  BY <1>3, <1>4
<1> QED BY <1>5 DEF x

LEMMA GreatestChosen ==
  ASSUME NEW M, IsFiniteSet(M), NEW f \in [M -> Int], NEW i \in M
  PROVE  GreatestOf(f[i], f) = CHOOSE v \in Range(f) : \A u \in Range(f) : u <= v
<1> DEFINE x == GreatestOf(f[i], f)
<1>1. x \in {f[i]} \cup {f[j] : j \in M} /\ \A j \in M : f[j] <= x
  <2>1. f[i] \in Int
    OBVIOUS
  <2> QED BY <2>1, GreatestIs
<1> HIDE DEF x
<1>2. Range(f) = {f[j] : j \in M} /\ \A u \in Range(f) : u \in Int
  BY DEF Range
<1>3. x \in Range(f) /\ \A u \in Range(f) : u <= x
  BY <1>1, <1>2
<1>4. \A v \in Range(f) : (\A u \in Range(f) : u <= v) => v = x
  BY <1>2, <1>3
<1>5. x = CHOOSE v \in Range(f) : \A u \in Range(f) : u <= v
  BY <1>3, <1>4
<1> QED BY <1>5 DEF x

LEMMA RollingRight ==
  ASSUME SoundRequests, StandInv, ReadInv, NumbersHeld, CallFits, MasksFollow, metal_rolling
  PROVE  MadeRight'
<1> DEFINE c == [i \in Rows |-> IF call.by.agg = "mean" THEN RollingMean(i)
                                ELSE RollingCell(call.by.agg, i)]
           a == operands[1].holds
<1>1. Ready /\ call.op = "rolling" /\ dispatch_elementwise(c)
  BY DEF metal_rolling
<1>2. call.op \notin Arithmetic
  BY <1>1 DEF Arithmetic
<1>3. /\ DOMAIN operands = 1 .. Len(call.args) /\ call \in Requests /\ Served(call, operands)
      /\ \A k \in DOMAIN operands : OnRows(operands[k].holds)
      /\ \A k \in DOMAIN operands : \A i \in Rows : Input(k, i) = operands[k].holds[i]
  BY <1>1, <1>2, PlainInputs
<1>4. 1 \in DOMAIN operands /\ call.by.window \in Nat \ {0}
      /\ call.by.agg \in {"sum", "mean", "min", "max", "count"}
  BY <1>1, <1>3 DEF SoundRequests
<1>5. OnRows(a) /\ \A i \in Rows : Input(1, i) = a[i]
  BY <1>3, <1>4
<1>6. operands[1].dtype = "float32" /\ NaN \notin Range(a)
  BY <1>1, <1>3 DEF Served, Arithmetic, Comparisons
<1>7. \A i \in Rows : a[i] \in Int /\ a[i] # NaN
  <2>1. \A i \in Rows : a[i] # NaN
    BY <1>5, <1>6 DEF OnRows, Range
  <2>2. \A i \in Rows : a[i] \in Int \cup {NaN}
    BY <1>1, <1>4, <1>6 DEF NumbersHeld, Numeric, Ready
  <2> QED BY <2>1, <2>2
<1> HIDE DEF a, c
<1>8. ASSUME NEW i \in Rows PROVE Returned(i, c[i]) = PandasAnswer(call, operands)[i]
  <2> DEFINE W == WindowStart(i) .. i
             f == [j \in W |-> a[j]]
             n == ValidCount(i)
  <2>1. /\ {j \in Rows : i - call.by.window < j /\ j <= i /\ a[j] # NaN} = W
        /\ W \subseteq Rows /\ i \in W /\ IsFiniteSet(W)
        /\ Cardinality(W) = n /\ i - WindowStart(i) + 1 = n
    BY <1>4, <1>7, WindowRows
  <2>2. Window(i) = f
    BY <1>5, <2>1 DEF Window
  <2> HIDE DEF W, n
  <2>3. PandasAnswer(call, operands)[i] = PandasWindow(call.by, a, i)
    BY <1>1, PandasAnswers DEF a
  <2>4. PandasWindow(call.by, a, i)
          = IF n < call.by.min_periods THEN NaN ELSE Aggregate(call.by.agg, f)
    BY <2>1 DEF PandasWindow
  <2>5. Returned(i, c[i]) = IF n < call.by.min_periods THEN NaN ELSE c[i]
    BY <1>1 DEF Returned, n
  <2>6. f \in [W -> Int] /\ DOMAIN f = W /\ f[i] = Input(1, i)
    BY <1>5, <1>7, <2>1
  <2> HIDE DEF f
  <2>7. c[i] = Aggregate(call.by.agg, f)
    <3>0. c[i] = IF call.by.agg = "mean" THEN RollingMean(i) ELSE RollingCell(call.by.agg, i)
      BY DEF c
    <3>1. CASE call.by.agg = "sum"
      BY <2>2, <3>0, <3>1, CellAnswers, WindowAnswers
    <3>2. CASE call.by.agg = "count"
      BY <2>1, <2>6, <3>0, <3>2, CellAnswers, WindowAnswers
    <3>3. CASE call.by.agg = "mean"
      <4>1. RollingMean(i) = BinaryValue("div", RollingCell("sum", i), RollingCell("count", i))
        BY DEF RollingMean
      <4>2. RollingCell("sum", i) = TotalOf(f) /\ RollingCell("count", i) = Cardinality(DOMAIN f)
        BY <2>1, <2>2, <2>6, CellAnswers
      <4>3. Aggregate(call.by.agg, f) = BinaryValue("div", TotalOf(f), Cardinality(DOMAIN f))
        BY <3>3, WindowAnswers
      <4> QED BY <3>0, <3>3, <4>1, <4>2, <4>3
    <3>4. CASE call.by.agg = "min"
      <4>1. RollingCell("min", i) = LeastOf(f[i], f)
        BY <2>2, <2>6, CellAnswers
      <4>2. LeastOf(f[i], f) = CHOOSE v \in Range(f) : \A u \in Range(f) : v <= u
        BY <2>1, <2>6, LeastChosen
      <4>3. Aggregate(call.by.agg, f) = CHOOSE v \in Range(f) : \A u \in Range(f) : v <= u
        BY <3>4, WindowAnswers
      <4>4. c[i] = LeastOf(f[i], f)
        BY <3>0, <3>4, <4>1
      <4> QED BY <4>2, <4>3, <4>4
    <3>5. CASE call.by.agg = "max"
      <4>1. RollingCell("max", i) = GreatestOf(f[i], f)
        BY <2>2, <2>6, CellAnswers
      <4>2. GreatestOf(f[i], f) = CHOOSE v \in Range(f) : \A u \in Range(f) : u <= v
        BY <2>1, <2>6, GreatestChosen
      <4>3. Aggregate(call.by.agg, f) = CHOOSE v \in Range(f) : \A u \in Range(f) : u <= v
        BY <3>5, WindowAnswers
      <4>4. c[i] = GreatestOf(f[i], f)
        BY <3>0, <3>5, <4>1
      <4> QED BY <4>2, <4>3, <4>4
    <3> QED BY <1>4, <3>1, <3>2, <3>3, <3>4, <3>5
  <2> QED BY <2>3, <2>4, <2>5, <2>7
<1>9. c = [i \in Rows |-> c[i]] /\ dispatch_elementwise(c)
  BY <1>1 DEF c
<1> QED BY <1>8, <1>9, MakingPlain

-----------------------------------------------------------------------------
(* Steps *)

LEMMA InitAnswers == SoundFloats /\ Init => AnswerInv
<1> SUFFICES ASSUME SoundFloats, Init PROVE AnswerInv
  OBVIOUS
<1>1. stage = "idle"
  BY DEF Init
<1>2. PICK f \in Frames :
        columns = [n \in DOMAIN f |->
          [dtype |-> f[n].dtype, contiguous |-> f[n].contiguous,
           block |-> Place(f)[n], holds |-> f[n].values]]
  BY DEF Init
<1>3. \A n \in DOMAIN columns :
        n \in DOMAIN f /\ columns[n].dtype = f[n].dtype /\ columns[n].holds = f[n].values
  BY <1>2
<1>4. NumbersHeld
  BY <1>1, <1>3 DEF NumbersHeld, Numeric, SoundFloats
<1> QED BY <1>1, <1>4 DEF AnswerInv, CallFits, MasksFollow, MadeRight

\* What is a matter of the call alone.
LEMMA NumbersOn ==
  ASSUME NumbersHeld, columns' = columns,
         stage' = "run" => stage = "run" /\ operands' = operands
  PROVE  NumbersHeld'
BY DEF NumbersHeld, Numeric

LEMMA FitsOn ==
  ASSUME CallFits,
         stage' \in {"run", "made"} => stage \in {"run", "made"} /\ UNCHANGED <<call, operands>>
  PROVE  CallFits'
<1> SUFFICES ASSUME stage' \in {"run", "made"}
             PROVE  call' \in Requests /\ Served(call', operands') /\ Len(operands') = Len(call'.args)
  BY DEF CallFits, Served, SameIndex
<1>1. call' = call /\ operands' = operands
  OBVIOUS
<1>2. call \in Requests /\ Served(call, operands) /\ Len(operands) = Len(call.args)
  BY DEF CallFits
<1> QED BY <1>1, <1>2

LEMMA CallAnswers ==
  ASSUME ReadInv, AnswerInv, NEW c \in Requests, Call(c)
  PROVE  AnswerInv'
<1>1. /\ stage = "idle" /\ call' = c
      /\ \A i \in DOMAIN c.args : c.args[i] \in DOMAIN columns
      /\ operands' = [i \in DOMAIN c.args |-> columns[c.args[i]]]
      /\ stage' = IF Served(c, operands') THEN "run" ELSE "pandas"
      /\ UNCHANGED <<columns, series>>
  BY DEF Call
<1>2. Len(c.args) \in Nat /\ DOMAIN c.args = 1 .. Len(c.args)
  BY SeriesAssumption
<1>3. NumbersHeld'
  <2>1. ASSUME NEW k \in DOMAIN operands' PROVE \E n \in DOMAIN columns : operands'[k] = columns[n]
    BY <1>1
  <2>2. \A n \in DOMAIN columns : Numeric(columns[n])
    BY DEF AnswerInv, NumbersHeld
  <2> QED BY <1>1, <2>1, <2>2 DEF NumbersHeld, Numeric
<1>4. CallFits'
  <2> SUFFICES ASSUME stage' \in {"run", "made"}
               PROVE  call' \in Requests /\ Served(call', operands') /\ Len(operands') = Len(call'.args)
    BY DEF CallFits, Served, SameIndex
  <2>1. Len(operands') = Len(c.args)
    BY <1>1, <1>2
  <2> QED BY <1>1, <2>1
<1>5. series' = << >>
  BY <1>1 DEF ReadInv, AtRest
<1> QED BY <1>1, <1>3, <1>4, <1>5 DEF AnswerInv, MasksFollow, MadeRight

LEMMA ExtractingAnswers ==
  ASSUME AnswerInv, ExtractView \/ ExtractCopy
  PROVE  AnswerInv'
<1>1. stage = "run" /\ UNCHANGED <<columns, call, stage, operands, series>>
  BY DEF ExtractView, ExtractCopy, Extracts, Extract
<1>2. NumbersHeld' /\ CallFits'
  BY <1>1, NumbersOn, FitsOn DEF AnswerInv
<1>3. MasksFollow'
  BY <1>1 DEF AnswerInv, MasksFollow, Floating
<1> QED BY <1>1, <1>2, <1>3 DEF AnswerInv, MadeRight

\* A mask is made if, and only if, a float of the column is missing.
LEMMA SeriesAnswers ==
  ASSUME StandInv, ReadInv, AnswerInv, from_numpy \/ from_numpy_with_nulls
  PROVE  AnswerInv'
<1>1. /\ stage = "run" /\ UNCHANGED <<columns, call, stage, operands>>
      /\ Extracted /\ Len(series) < Len(arrays)
  BY DEF from_numpy, from_numpy_with_nulls, Extracted
<1>2. NumbersHeld' /\ CallFits'
  BY <1>1, NumbersOn, FitsOn DEF AnswerInv
<1> DEFINE n == Len(series) + 1
<1>3. /\ n \in Nat /\ n \in DOMAIN operands /\ DOMAIN series = 1 .. n - 1
      /\ Source = arrays[n] /\ Progress /\ ArrayHolds(n)
  BY <1>1, NextArray
<1>4. /\ Len(series) \in Nat /\ series = [k \in 1 .. Len(series) |-> series[k]]
  BY <1>3 DEF Progress
<1>5. \A i \in Rows : Cell(Source, i) = operands[n].holds[i]
  <2>1. OnRows(operands[n].holds)
    BY <1>1, <1>3 DEF ReadInv, OperandsHold
  <2>2. Holding(Source, operands[n].holds)
    BY <1>3 DEF ArrayHolds
  <2> HIDE DEF n
  <2> QED BY <2>1, <2>2 DEF Cell, Holding, OnRows
<1>6. HasNulls <=> Floating /\ \E i \in Rows : operands[n].holds[i] = NaN
  BY <1>5 DEF HasNulls, Floating
<1>7. ASSUME NEW e, series' = Append(series, e),
             IF e.mask = Nothing THEN Floating => \A i \in Rows : operands[n].holds[i] # NaN
             ELSE Floating
      PROVE  MasksFollow'
  <2>1. /\ DOMAIN series' = 1 .. n /\ series'[n] = e
        /\ \A k \in 1 .. n - 1 : series'[k] = series[k]
    <3> DEFINE q == Append(series, e)
               l == Len(series)
    <3>1. /\ DOMAIN q = 1 .. l + 1 /\ q[l + 1] = e
          /\ \A k \in 1 .. l : q[k] = series[k]
      BY <1>4, Appended
    <3>2. n = l + 1 /\ n - 1 = l /\ series' = q
      BY <1>4, <1>7
    <3> HIDE DEF n, l, q
    <3> QED BY <3>1, <3>2
  <2>2. Floating' = Floating
    BY <1>1 DEF Floating
  <2>3. ASSUME NEW k \in DOMAIN series'
        PROVE  IF series'[k].mask = Nothing
               THEN Floating => \A i \in Rows : operands[k].holds[i] # NaN
               ELSE Floating
    <3>1. CASE k = n
      BY <1>7, <2>1, <3>1
    <3>2. CASE k # n
      <4>1. k \in 1 .. n - 1
        BY <1>3, <2>1, <3>2
      <4>2. k \in DOMAIN series /\ series'[k] = series[k]
        BY <1>3, <2>1, <4>1
      <4> QED BY <1>1, <4>2 DEF AnswerInv, MasksFollow
    <3> QED BY <3>1, <3>2
  <2> QED BY <1>1, <2>2, <2>3 DEF MasksFollow
<1> HIDE DEF n
<1>8. MasksFollow'
  <2>1. CASE from_numpy
    <3> DEFINE e == [block |-> Source, mask |-> Nothing, device |-> FALSE]
    <3>1. series' = Append(series, e) /\ ~HasNulls /\ e.mask = Nothing
      BY <2>1 DEF from_numpy
    <3> HIDE DEF e
    <3> QED BY <1>6, <1>7, <3>1
  <2>2. CASE from_numpy_with_nulls
    <3> DEFINE e == [block |-> NewBlock, mask |-> NextBlock, device |-> TRUE]
    <3>1. series' = Append(series, e) /\ HasNulls /\ e.mask = NextBlock
      BY <2>2 DEF from_numpy_with_nulls
    <3>2. Floating
      BY <1>6, <3>1
    <3>3. NextBlock # Nothing
      BY NewBlocks, SeriesAssumption DEF StandInv, MemoryFormed
    <3> HIDE DEF e
    <3> QED BY <1>7, <3>1, <3>2, <3>3
  <2> QED BY <2>1, <2>2
<1> QED BY <1>1, <1>2, <1>8 DEF AnswerInv, MadeRight

LEMMA KernelsAnswer ==
  ASSUME SoundRequests, StandInv, ReadInv, AnswerInv,
         \/ metal_binary_op \/ metal_unary_op \/ metal_compare_op \/ metal_shift
         \/ metal_fillna \/ metal_rolling \/ eval_expression
  PROVE  AnswerInv'
<1>1. NumbersHeld /\ CallFits /\ MasksFollow
  BY DEF AnswerInv
<1>2. MadeRight'
  BY <1>1, BinaryRight, UnaryRight, CompareRight, ShiftRight, FillRight, RollingRight, EvalRight
<1>3. Ready /\ \E cells : dispatch_elementwise(cells) \/ dispatch_elementwise_masked(cells)
  BY DEF metal_binary_op, metal_unary_op, metal_compare_op, metal_shift, metal_fillna,
         metal_rolling, eval_expression
<1>4. stage = "run" /\ stage' = "made" /\ UNCHANGED <<columns, call, operands>>
  BY <1>3 DEF Ready, dispatch_elementwise, dispatch_elementwise_masked
<1>5. NumbersHeld' /\ CallFits'
  BY <1>1, <1>4, NumbersOn, FitsOn
<1> QED BY <1>2, <1>4, <1>5 DEF AnswerInv, MasksFollow

\* A handler gives up, or returns.
LEMMA EndingAnswers ==
  ASSUME AnswerInv, DispatchFails \/ Raise \/ ReturnView \/ ReturnCopy \/ AskPandas
  PROVE  AnswerInv'
<1>1. columns' = columns /\ stage' \in {"idle", "pandas"}
  BY DEF DispatchFails, Raise, ReturnView, ReturnCopy, AskPandas, HandOut, Leave
<1>2. NumbersHeld' /\ CallFits'
  BY <1>1, NumbersOn, FitsOn DEF AnswerInv
<1> QED BY <1>1, <1>2 DEF AnswerInv, MasksFollow, MadeRight

\* A result that is made lasts until it is returned.
LEMMA MadeLasts ==
  ASSUME StandInv, MadeRight, stage = "made", NEW m, Undisturbed(m),
         UNCHANGED <<call, stage, operands, made>>
  PROVE  MadeRight'
<1>1. MadeStands /\ \A i \in Rows : Restored(i) = PandasAnswer(call, operands)[i]
  BY DEF MadeRight
<1>2. DeviceBlocks(made) \subseteq Live'
  <2>1. DeviceBlocks(made)' \subseteq Live'
    BY DEF Live
  <2> QED BY <2>1 DEF DeviceBlocks
<1>3. ASSUME NEW b \in DeviceBlocks(made)
      PROVE  /\ b \in DOMAIN memory /\ b \in DOMAIN memory' /\ memory'[b] = memory[b]
             /\ \A r \in results' : r.block # b
  <2>1. b \in DOMAIN memory /\ \A r \in results : r.block # b
    BY <1>1 DEF MadeStands, DeviceBlocks, StandInv, MadeApart, Taken
  <2> QED BY <1>2, <2>1 DEF Undisturbed
<1>4. made.block \in DeviceBlocks(made)
  BY <1>1 DEF MadeStands, DeviceBlocks
<1>5. made.mask # Nothing => made.mask \in DeviceBlocks(made)
  BY DEF DeviceBlocks
<1>6. MadeStands'
  BY <1>1, <1>3, <1>4, <1>5 DEF MadeStands
<1>7. ASSUME NEW i \in Rows PROVE Restored(i)' = Restored(i)
  <2>1. Answer(i)' = Answer(i)
    BY <1>3, <1>4 DEF Answer, Cell
  <2>2. made.mask # Nothing => is_valid(memory[made.mask], i)' = is_valid(memory[made.mask], i)
    BY <1>3, <1>5 DEF is_valid
  <2>3. InFill(i)' = InFill(i) /\ ValidCount(i)' = ValidCount(i)
    BY DEF InFill, ValidCount
  <2> QED BY <2>1, <2>2, <2>3 DEF Restored
<1>8. PandasAnswer(call, operands)' = PandasAnswer(call, operands)
  BY DEF PandasAnswer
<1> QED BY <1>1, <1>6, <1>7, <1>8 DEF MadeRight

LEMMA OthersAnswer ==
  ASSUME SoundFloats, StandInv, ReadInv, AnswerInv, Others
  PROVE  AnswerInv'
<1>1. \/ \E n \in DOMAIN columns : DropColumn(n) \/ WriteColumn(n)
      \/ \E r \in results : DropResult(r) \/ WriteResult(r)
  BY DEF Others
<1>2. UNCHANGED <<call, stage, operands, series, made>>
  BY <1>1 DEF DropColumn, WriteColumn, DropResult, WriteResult
<1>3. NumbersHeld'
  <2>1. ASSUME NEW n \in DOMAIN columns, DropColumn(n)  PROVE NumbersHeld'
    BY <1>2, <2>1 DEF DropColumn, AnswerInv, NumbersHeld, Numeric
  <2>2. ASSUME NEW n \in DOMAIN columns, WriteColumn(n)  PROVE NumbersHeld'
    <3> DEFINE cells == Overwritten(columns[n].holds)
               c == [columns EXCEPT ![n].holds = cells]
    <3>1. columns' = c
      BY <2>2 DEF WriteColumn
    <3>2. OnRows(columns[n].holds) /\ Numeric(columns[n])
      BY DEF ReadInv, ColumnsRead, AnswerInv, NumbersHeld
    <3>3. \A i \in Rows : cells[i] = IF i = 0 THEN Written ELSE columns[n].holds[i]
      BY <3>2 DEF OnRows, Overwritten
    <3> HIDE DEF cells
    <3>4. /\ DOMAIN c = DOMAIN columns
          /\ \A k \in DOMAIN columns : k # n => c[k] = columns[k]
          /\ c[n] = [ColumnOf(columns[n]) EXCEPT !.holds = cells]
      BY DEF StandInv, RecordsFormed
    <3> HIDE DEF c
    <3>5. c[n].holds = cells /\ c[n].dtype = columns[n].dtype
      BY <3>4 DEF ColumnOf
    <3>6. Numeric(c[n])
      BY <3>2, <3>3, <3>5 DEF Numeric, SoundFloats
    <3>7. \A k \in DOMAIN c : Numeric(c[k])
      BY <3>4, <3>6 DEF AnswerInv, NumbersHeld
    <3> QED BY <1>2, <3>1, <3>7 DEF AnswerInv, NumbersHeld, Numeric
  <2>3. ASSUME columns' = columns  PROVE NumbersHeld'
    BY <1>2, <2>3, NumbersOn DEF AnswerInv
  <2> QED BY <1>1, <2>1, <2>2, <2>3 DEF DropResult, WriteResult
<1>4. CallFits'
  BY <1>2, FitsOn DEF AnswerInv
<1>5. MasksFollow'
  BY <1>2 DEF AnswerInv, MasksFollow, Floating
<1>6. MadeRight'
  <2>1. CASE stage # "made"
    BY <1>2, <2>1 DEF MadeRight
  <2>2. CASE stage = "made"
    <3>1. \E m : Undisturbed(m)
      BY <2>2, OthersDisturbNothing
    <3> QED BY <1>2, <2>2, <3>1, MadeLasts DEF AnswerInv
  <2> QED BY <2>1, <2>2
<1> QED BY <1>3, <1>4, <1>5, <1>6 DEF AnswerInv

LEMMA AnswerStep ==
  SoundRequests /\ SoundFloats /\ StandInv /\ ReadInv /\ AnswerInv /\ [Next]_vars => AnswerInv'
<1> SUFFICES ASSUME SoundRequests, SoundFloats, StandInv, ReadInv, AnswerInv, [Next]_vars
             PROVE  AnswerInv'
  OBVIOUS
<1>1. CASE UNCHANGED vars
  <2>1. UNCHANGED <<memory, columns, results, call, stage, operands, series, made>>
    BY <1>1 DEF vars
  <2>2. NumbersHeld' /\ CallFits'
    BY <2>1, NumbersOn, FitsOn DEF AnswerInv
  <2>3. MasksFollow'
    BY <2>1 DEF AnswerInv, MasksFollow, Floating
  <2>4. MadeRight'
    <3>1. CASE stage = "made"
      <4>1. Undisturbed(memory)
        BY <2>1 DEF Undisturbed
      <4> QED BY <2>1, <3>1, <4>1, MadeLasts DEF AnswerInv
    <3>2. CASE stage # "made"
      BY <2>1, <3>2 DEF MadeRight
    <3> QED BY <3>1, <3>2
  <2> QED BY <2>2, <2>3, <2>4 DEF AnswerInv
<1>2. CASE Next
  BY <1>2, CallAnswers, ExtractingAnswers, SeriesAnswers, KernelsAnswer, EndingAnswers,
     OthersAnswer DEF Next, Serve
<1> QED BY <1>1, <1>2

\* A step that ends a call hands out the answer, or raises.
LEMMA EndingSteps ==
  ASSUME StandInv, AnswerInv, [Next]_vars, stage # "idle", stage' = "idle"
  PROVE  IF Incomparable(call) THEN results' = results
         ELSE \/ call.op = "values" /\ stage = "run" /\ results' = results
              \/ \E r \in results' : /\ results' = results \cup {r}
                                     /\ r.block \notin {q.block : q \in results}
                                     /\ r.holds = PandasAnswer(call, operands)
<1>1. Raise \/ ReturnView \/ ReturnCopy \/ AskPandas
  <2>1. stage' # stage
    OBVIOUS
  <2>2. Next
    BY <2>1 DEF vars
  <2>3. ~\E c \in Requests : Call(c)
    BY DEF Call
  <2>4. ~(ExtractView \/ ExtractCopy \/ from_numpy \/ from_numpy_with_nulls)
    BY <2>1 DEF ExtractView, ExtractCopy, Extract, from_numpy, from_numpy_with_nulls
  <2>5. ~(\/ metal_binary_op \/ metal_unary_op \/ metal_compare_op \/ metal_shift
          \/ metal_fillna \/ metal_rolling \/ eval_expression)
    <3>1. ASSUME NEW cells, dispatch_elementwise(cells) \/ dispatch_elementwise_masked(cells)
          PROVE  FALSE
      BY <3>1 DEF dispatch_elementwise, dispatch_elementwise_masked
    <3> QED BY <3>1 DEF metal_binary_op, metal_unary_op, metal_compare_op, metal_shift,
                        metal_fillna, metal_rolling, eval_expression
  <2>6. ~DispatchFails
    BY DEF DispatchFails
  <2>7. ~Others
    BY <2>1 DEF Others, DropColumn, WriteColumn, DropResult, WriteResult
  <2> QED BY <2>2, <2>3, <2>4, <2>5, <2>6, <2>7 DEF Next, Serve
<1>2. CASE Raise
  BY <1>2 DEF Raise, Ready
<1>9. stage = "made" => ~Incomparable(call)
  BY DEF AnswerInv, CallFits, Served, Incomparable, Comparisons, Arithmetic
<1>3. ASSUME NEW b, NEW cells, \A r \in results : r.block # b,
             results' = results \cup {[block |-> b, holds |-> cells]},
             cells = PandasAnswer(call, operands)
      PROVE  \E r \in results' : /\ results' = results \cup {r}
                                 /\ r.block \notin {q.block : q \in results}
                                 /\ r.holds = PandasAnswer(call, operands)
  <2> DEFINE r == [block |-> b, holds |-> cells]
  <2>1. r.block = b /\ r.holds = cells /\ r \in results' /\ results' = results \cup {r}
    BY <1>3
  <2> HIDE DEF r
  <2> QED BY <1>3, <2>1
<1>4. \A r \in results : r.block # NewBlock
  <2>1. NewBlock \notin DOMAIN memory
    BY NewBlocks DEF StandInv, MemoryFormed
  <2> QED BY <2>1 DEF StandInv, ArraysStand
<1>5. ASSUME AskPandas
      PROVE  \E r \in results' : /\ results' = results \cup {r}
                                 /\ r.block \notin {q.block : q \in results}
                                 /\ r.holds = PandasAnswer(call, operands)
  <2> DEFINE cells == PandasAnswer(call, operands)
  <2>1. results' = results \cup {[block |-> NewBlock, holds |-> cells]}
    BY <1>5 DEF AskPandas
  <2>2. cells = PandasAnswer(call, operands)
    OBVIOUS
  <2> HIDE DEF cells
  <2> QED BY <1>3, <1>4, <2>1, <2>2
<1>6. ASSUME NEW b, stage = "made", HandOut(b), \A r \in results : r.block # b
      PROVE  \E r \in results' : /\ results' = results \cup {r}
                                 /\ r.block \notin {q.block : q \in results}
                                 /\ r.holds = PandasAnswer(call, operands)
  <2> DEFINE cells == [i \in Rows |-> Restored(i)]
  <2>1. results' = results \cup {[block |-> b, holds |-> cells]}
    BY <1>6 DEF HandOut
  <2>2. cells = PandasAnswer(call, operands)
    <3>1. \A i \in Rows : Restored(i) = PandasAnswer(call, operands)[i]
      BY <1>6 DEF AnswerInv, MadeRight
    <3>2. PandasAnswer(call, operands) = [i \in Rows |-> PandasAnswer(call, operands)[i]]
      BY DEF PandasAnswer
    <3> QED BY <3>1, <3>2
  <2> HIDE DEF cells
  <2> QED BY <1>3, <1>6, <2>1, <2>2
<1>7. ASSUME ReturnView
      PROVE  \E r \in results' : /\ results' = results \cup {r}
                                 /\ r.block \notin {q.block : q \in results}
                                 /\ r.holds = PandasAnswer(call, operands)
  <2>1. stage = "made" /\ HandOut(made.block)
    BY <1>7 DEF ReturnView
  <2>2. \A r \in results : r.block # made.block
    BY <2>1 DEF StandInv, MadeApart, Taken
  <2> QED BY <1>6, <2>1, <2>2
<1>8. ASSUME ReturnCopy
      PROVE  \E r \in results' : /\ results' = results \cup {r}
                                 /\ r.block \notin {q.block : q \in results}
                                 /\ r.holds = PandasAnswer(call, operands)
  <2>1. stage = "made" /\ HandOut(NewBlock)
    BY <1>8 DEF ReturnCopy
  <2> QED BY <1>4, <1>6, <2>1
<1>10. ~(ReturnView \/ ReturnCopy \/ AskPandas) \/ ~Incomparable(call)
  BY <1>9 DEF ReturnView, ReturnCopy, AskPandas
<1> QED BY <1>1, <1>2, <1>5, <1>7, <1>8, <1>10

\* Every call of a Series method or operator that returns hands out one new array,
\* in memory that no other array has, with what pandas computes from the columns
\* as they were when it was made: on the GPU or after it failed, with or without
\* masks, while other threads drop columns and write into arrays.  A comparison of
\* columns whose labels differ raises, as in pandas, and of the others only reading
\* an expression may.
THEOREM SeriesAnswerPandas ==
  ASSUME OnlyLastIsCopied, SoundRequests, SoundFloats
  PROVE  Spec => AnswersAgree
<1> DEFINE Inv == StandInv /\ ReadInv /\ AnswerInv
<1>1. Init => Inv
  BY OnlyLastIsCopied, SoundFloats, InitStands, InitReads, InitAnswers
<1>2. Inv /\ [Next]_vars => Inv'
  BY SoundRequests, SoundFloats, StandStep, ReadStep, AnswerStep
<1>3. Inv /\ [Next]_vars =>
        [(stage # "idle" /\ stage' = "idle") =>
           IF Incomparable(call) THEN results' = results
           ELSE \/ call.op = "values" /\ stage = "run" /\ results' = results
                \/ \E r \in results' : /\ results' = results \cup {r}
                                       /\ r.block \notin {q.block : q \in results}
                                       /\ r.holds = PandasAnswer(call, operands)]_vars
  BY EndingSteps
<1> HIDE DEF Inv
<1> QED BY <1>1, <1>2, <1>3, PTL DEF Spec, AnswersAgree
=============================================================================
