------------------------------ MODULE HashJoin ------------------------------
(***************************************************************************)
(* metal_hash_join and the part of _metal_merge that calls it: the smaller *)
(* side is hashed into a table with linear probing by one GPU thread per   *)
(* row, each row into a slot of its own; the threads of the other side     *)
(* count their matches, a prefix sum of the counts gives every thread the  *)
(* offset it writes its pairs at, and a third kernel writes them.          *)
(*                                                                         *)
(* A kernel's threads interleave at every access to the shared table; the  *)
(* command buffer completes when all of them have returned.  The probing   *)
(* kernels only read the table and write cells of their own, so each of    *)
(* their threads is one step.                                              *)
(***************************************************************************)
EXTENDS HashKeys, Sequences, Functions

CONSTANTS
  LeftColumns,  \* key columns the left frame may have
  RightColumns, \* and the right one
  MaxRows,      \* bound: rows of a side
  CountMod,     \* counts, offsets and their total are words below CountMod
  WeakCas,      \* TRUE: a compare-and-swap may fail without a reason
  DeviceFails   \* TRUE: a command buffer may end in an error

VARIABLES
  left, right,  \* key columns of the two frames
  phase,        \* kernel on the device, or where the host is
  running,      \* threads of the current kernel that have not returned
  at,           \* at[b]: the probe number p of build thread b
  found,        \* build threads that read an empty slot and go for it
  claimed,      \* build threads whose swap succeeded, their row not yet stored
  tableKeys, tableRows,
  counts, offsets,
  pairs         \* the buffers left_indices and right_indices, cell by cell

vars == <<left, right, phase, running, at, found, claimed, tableKeys, tableRows,
          counts, offsets, pairs>>

ASSUME JoinAssumption ==
  /\ MaxRows \in Nat
  /\ \A c \in LeftColumns \cup RightColumns : c \in Seq(Keys) /\ Len(c) <= MaxRows
  /\ CountMod \in Nat \ {0}
  /\ WeakCas \in BOOLEAN
  /\ DeviceFails \in BOOLEAN
  /\ \A n \in 0 .. MaxRows :
       \E t \in PowersOfTwo :
         /\ Least(2 * n) <= t
         /\ \A u \in PowersOfTwo : Least(2 * n) <= u => t <= u

Unwritten == <<0, 0>>   \* a cell of an index buffer, or a row of a free slot,
NoRow == 0              \* whose contents are whatever was there

-----------------------------------------------------------------------------
(* Sides and slots *)

\* The smaller table is the one that is built.
LeftIsBuild == Len(left) <= Len(right)

build == IF LeftIsBuild THEN left ELSE right

probe == IF LeftIsBuild THEN right ELSE left

Size == TableSizeFor(Len(build))

Slots == 0 .. Size - 1

Slot(b) == SlotAt(build[b], at[b], Size)

\* Mutant: a probe looks at its home slot only.
HitsAtHome(k) ==
  {p \in {0} : tableKeys[SlotAt(k, 0, Size)] = Encode[k]}

\* The probe numbers at which a thread with key k finds it: it looks at one
\* slot after the other and stops at the first empty one.
Hits(k) ==
  {p \in 0 .. Size - 1 :
     /\ tableKeys[SlotAt(k, p, Size)] = Encode[k]
     /\ \A q \in 0 .. p : tableKeys[SlotAt(k, q, Size)] # Empty}

-----------------------------------------------------------------------------
(* Build kernel *)

Init ==
  /\ left \in LeftColumns
  /\ right \in RightColumns
  /\ phase = "start"
  /\ running = {}
  /\ at = << >>
  /\ found = {} /\ claimed = {}
  /\ tableKeys = << >> /\ tableRows = << >>
  /\ counts = << >> /\ offsets = << >>
  /\ pairs = << >>

\* An empty side is answered without the device.
EmptySide ==
  /\ phase = "start"
  /\ left = << >> \/ right = << >>
  /\ phase' = "done"
  /\ UNCHANGED <<left, right, running, at, found, claimed, tableKeys, tableRows,
                 counts, offsets, pairs>>

StartBuild ==
  /\ phase = "start"
  /\ left # << >> /\ right # << >>
  /\ phase' = "build"
  /\ running' = DOMAIN build
  /\ at' = [b \in DOMAIN build |-> 0]
  /\ tableKeys' = [s \in Slots |-> Empty]
  /\ tableRows' = [s \in Slots |-> NoRow]
  /\ UNCHANGED <<left, right, found, claimed, counts, offsets, pairs>>

Probing(b) ==
  phase = "build" /\ b \in running /\ b \notin found \cup claimed

\* Mutant: every other slot is skipped.
SkipsOne(b) == [at EXCEPT ![b] = @ + 2]

Advanced(b) == [at EXCEPT ![b] = @ + 1]

\* atomic_load of the next slot: an empty one is gone for, any other skipped.
LoadSlot(b) ==
  /\ Probing(b)
  /\ at[b] < Size
  /\ IF tableKeys[Slot(b)] = Empty
       THEN found' = found \cup {b} /\ UNCHANGED at
       ELSE at' = Advanced(b) /\ UNCHANGED found
  /\ UNCHANGED <<left, right, phase, running, claimed, tableKeys, tableRows,
                 counts, offsets, pairs>>

\* The loop ends without a slot: the row is not in the table.
GiveUp(b) ==
  /\ Probing(b)
  /\ at[b] = Size
  /\ running' = running \ {b}
  /\ UNCHANGED <<left, right, phase, at, found, claimed, tableKeys, tableRows,
                 counts, offsets, pairs>>

MayClaim(b) == tableKeys[Slot(b)] = Empty

\* The compare-and-swap succeeds.
Claim(b) ==
  /\ b \in found
  /\ MayClaim(b)
  /\ tableKeys' = [tableKeys EXCEPT ![Slot(b)] = Encode[build[b]]]
  /\ found' = found \ {b}
  /\ claimed' = claimed \cup {b}
  /\ UNCHANGED <<left, right, phase, running, at, tableRows, counts, offsets, pairs>>

\* It fails, and the thread goes on to the next slot.
LoseSlot(b) ==
  /\ b \in found
  /\ tableKeys[Slot(b)] # Empty \/ WeakCas
  /\ found' = found \ {b}
  /\ at' = Advanced(b)
  /\ UNCHANGED <<left, right, phase, running, claimed, tableKeys, tableRows,
                 counts, offsets, pairs>>

\* table_rows[slot] = gid, an ordinary store after the swap.
StoreRow(b) ==
  /\ b \in claimed
  /\ tableRows' = [tableRows EXCEPT ![Slot(b)] = b]
  /\ claimed' = claimed \ {b}
  /\ running' = running \ {b}
  /\ UNCHANGED <<left, right, phase, at, found, tableKeys, counts, offsets, pairs>>

-----------------------------------------------------------------------------
(* Probe kernels and the host between them *)

\* wait_until_completed after the build; counts are set to zero.
StartCount ==
  /\ phase = "build" /\ running = {}
  /\ phase' = "count"
  /\ running' = DOMAIN probe
  /\ counts' = [r \in DOMAIN probe |-> 0]
  /\ UNCHANGED <<left, right, at, found, claimed, tableKeys, tableRows, offsets, pairs>>

CountMatches(r) ==
  /\ phase = "count" /\ r \in running
  /\ counts' = [counts EXCEPT ![r] = Cardinality(Hits(probe[r]))]
  /\ running' = running \ {r}
  /\ UNCHANGED <<left, right, phase, at, found, claimed, tableKeys, tableRows,
                 offsets, pairs>>

\* prefix_sum_inclusive in 32-bit arithmetic.
InclusiveSum(r) ==
  LET sum[i \in 0 .. r] == IF i = 0 THEN 0 ELSE sum[i - 1] + counts[i]
  IN  sum[r] % CountMod

\* Mutant: the inclusive sums are used as offsets.
InclusiveOffset(r) == InclusiveSum(r)

\* exclusive[i] = inclusive[i] - count[i]
OffsetOf(r) == (InclusiveSum(r) - counts[r]) % CountMod

Total == InclusiveSum(Len(probe))

NoMatches ==
  /\ phase = "count" /\ running = {}
  /\ Total = 0
  /\ phase' = "done"
  /\ UNCHANGED <<left, right, running, at, found, claimed, tableKeys, tableRows,
                 counts, offsets, pairs>>

StartWrite ==
  /\ phase = "count" /\ running = {}
  /\ Total # 0
  /\ phase' = "write"
  /\ running' = DOMAIN probe
  /\ offsets' = [r \in DOMAIN probe |-> OffsetOf(r)]
  /\ pairs' = [i \in 1 .. Total |-> Unwritten]
  /\ UNCHANGED <<left, right, at, found, claimed, tableKeys, tableRows, counts>>

\* Mutant: they are not put in order.
PairAsBuilt(b, r) == <<b, r>>

\* Indices come back as build and probe rows; the caller puts them in order.
Pair(b, r) == IF LeftIsBuild THEN <<b, r>> ELSE <<r, b>>

\* Thread r writes its matches one behind the other from its offset on, in the
\* order it finds them.  A cell beyond the buffers is memory nobody reads.
WriteMatches(r) ==
  LET hits == Hits(probe[r])
      cell(p) == offsets[r] + Cardinality({q \in hits : q <= p})
  IN
  /\ phase = "write" /\ r \in running
  /\ pairs' =
       [i \in DOMAIN pairs |->
          IF \E p \in hits : cell(p) = i
            THEN LET p == CHOOSE p \in hits : cell(p) = i
                 IN  Pair(tableRows[SlotAt(probe[r], p, Size)], r)
            ELSE pairs[i]]
  /\ running' = running \ {r}
  /\ UNCHANGED <<left, right, phase, at, found, claimed, tableKeys, tableRows,
                 counts, offsets>>

Finish ==
  /\ phase = "write" /\ running = {}
  /\ phase' = "done"
  /\ UNCHANGED <<left, right, running, at, found, claimed, tableKeys, tableRows,
                 counts, offsets, pairs>>

\* A command buffer reports an error: the call raises.
DeviceError ==
  /\ DeviceFails
  /\ phase \in {"build", "count", "write"}
  /\ phase' = "pandas"
  /\ running' = {} /\ found' = {} /\ claimed' = {}
  /\ UNCHANGED <<left, right, at, tableKeys, tableRows, counts, offsets, pairs>>

Before(m, n) == m[1] < n[1] \/ (m[1] = n[1] /\ m[2] <= n[2])

\* The pairs of rows pandas matches, left rows in order.
PandasPairs ==
  LET matches == {m \in (DOMAIN left) \X (DOMAIN right) :
                    Class[left[m[1]]] = Class[right[m[2]]]}
  IN  [i \in 1 .. Cardinality(matches) |->
         CHOOSE m \in matches : Cardinality({n \in matches : Before(n, m)}) = i]

\* merge() catches whatever was raised and answers with pandas.
FallBack ==
  /\ phase = "pandas"
  /\ phase' = "done"
  /\ pairs' = PandasPairs
  /\ UNCHANGED <<left, right, running, at, found, claimed, tableKeys, tableRows,
                 counts, offsets>>

Returned == phase = "done" /\ UNCHANGED vars

BuildStep(b) == LoadSlot(b) \/ GiveUp(b) \/ Claim(b) \/ LoseSlot(b) \/ StoreRow(b)

ProbeStep(r) == CountMatches(r) \/ WriteMatches(r)

HostStep ==
  EmptySide \/ StartBuild \/ StartCount \/ NoMatches \/ StartWrite \/ Finish
    \/ FallBack

Next ==
  \/ HostStep
  \/ \E b \in DOMAIN build : BuildStep(b)
  \/ \E r \in DOMAIN probe : ProbeStep(r)
  \/ DeviceError
  \/ Returned

(* The host waits for its command buffers, and the device runs every thread  *)
(* of a kernel to its end; no thread waits for another.                      *)
Fairness ==
  /\ WF_vars(HostStep)
  /\ \A i \in 1 .. MaxRows :
       /\ WF_vars(i \in DOMAIN build /\ BuildStep(i))
       /\ WF_vars(i \in DOMAIN probe /\ ProbeStep(i))

Spec == Init /\ [][Next]_vars /\ Fairness

-----------------------------------------------------------------------------
(* Properties *)

Threads == IF phase = "build" THEN DOMAIN build ELSE DOMAIN probe

InTable == phase \in {"build", "count", "write"}

\* A cell of the index buffers holds a row of the left and one of the right
\* frame, if anything.
PairsTyped ==
  \A i \in DOMAIN pairs :
    pairs[i] \in (DOMAIN left \cup {NoRow}) \X (DOMAIN right \cup {NoRow})

\* Types of the threads' states, the table and the buffers.
TypeOK ==
  /\ left \in LeftColumns /\ right \in RightColumns
  /\ phase \in {"start", "build", "count", "write", "pandas", "done"}
  /\ running \subseteq Threads
  /\ found \subseteq running /\ claimed \subseteq running \ found
  /\ phase # "build" => found = {} /\ claimed = {}
  /\ InTable =>
       /\ at \in [DOMAIN build -> 0 .. Size]
       /\ \A b \in found \cup claimed : at[b] < Size
       /\ tableKeys \in [Slots -> Words]
       /\ tableRows \in [Slots -> DOMAIN build \cup {NoRow}]
  /\ phase = "write" => PairsTyped

\* Every slot a build thread went past stays occupied, so a probe that stops
\* at the first empty slot stops behind every row with its key.
NoHole ==
  phase = "build" =>
    \A b \in DOMAIN build : \A q \in 0 .. at[b] - 1 :
      tableKeys[SlotAt(build[b], q, Size)] # Empty

\* When the build kernel has completed, each row has exactly one slot, with
\* the key of that row.
RowsStored ==
  (phase = "build" /\ running = {}) \/ phase \in {"count", "write"} =>
    \A b \in DOMAIN build :
      \E s \in Slots :
        /\ tableRows[s] = b /\ tableKeys[s] = Encode[build[b]]
        /\ \A u \in Slots : tableRows[u] = b => u = s

\* A probe for key k comes past the slot of every row with that key, and what
\* it takes for a match is one.
ProbesFindRows ==
  phase \in {"count", "write"} =>
    \A k \in Keys :
      {tableRows[SlotAt(k, p, Size)] : p \in Hits(k)}
        = {b \in DOMAIN build : Encode[build[b]] = Encode[k]}

\* No thread of the write kernel leaves the index buffers.
WritesInBounds ==
  phase = "write" =>
    \A r \in DOMAIN probe : offsets[r] + Cardinality(Hits(probe[r])) <= Len(pairs)
=============================================================================
