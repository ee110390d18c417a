------------------------- MODULE HashGroupBy_proofs -------------------------
(***************************************************************************)
(* Theorems about HashGroupBy, for frames of any length, any keys and any  *)
(* interleaving of the kernels' threads: when no key is encoded as the     *)
(* empty slot and a compare-and-swap fails only over an occupied slot,     *)
(* every key that occurs gets exactly one slot, hash_probe finds it, and   *)
(* the groups are numbered 0, 1, ... without a gap.  When NaN is told from *)
(* the values and marked by the masks, each accumulator is at every moment *)
(* the fold of the rows that have been taken in.  When besides every key   *)
(* comes with a value and no sum of integers overflows, the caller gets    *)
(* the groups and the aggregates of pandas.                                *)
(***************************************************************************)
EXTENDS HashGroupBy, CommonLemmas

\* The two conditions the table depends on.
SoundTable == ~WeakCas /\ \A k \in Keys : Encode[k] # Empty

-----------------------------------------------------------------------------
(* The size of a table and the slots of a key *)

\* A table is allocated, with at least twice as many slots as rows.
LEMMA TableSizeFacts ==
  ASSUME NEW n \in Nat,
         \E t \in PowersOfTwo :
           /\ Least(2 * n) <= t
           /\ \A u \in PowersOfTwo : Least(2 * n) <= u => t <= u
  PROVE  TableSizeFor(n) \in Nat \ {0} /\ 2 * n <= TableSizeFor(n)
<1>1. TableSizeFor(n) \in PowersOfTwo /\ Least(2 * n) <= TableSizeFor(n)
  BY DEF TableSizeFor
<1>2. TableSizeFor(n) \in Nat
  BY <1>1, KeyAssumption
<1> QED BY <1>1, <1>2, KeyAssumption DEF Least

\* The probe sequence of a key stays in the table and comes past every slot.
LEMMA SlotFacts ==
  ASSUME NEW k \in Keys, NEW size \in Nat \ {0}
  PROVE  /\ \A p \in 0 .. size - 1 : SlotAt(k, p, size) \in 0 .. size - 1
         /\ \A s \in 0 .. size - 1 : \E p \in 0 .. size - 1 : SlotAt(k, p, size) = s
<1>1. Home(k, size) \in 0 .. size - 1
  BY KeyAssumption DEF Home, Words
<1>2. ASSUME NEW p \in 0 .. size - 1
      PROVE  SlotAt(k, p, size) \in 0 .. size - 1
  BY <1>1 DEF SlotAt
<1>3. ASSUME NEW s \in 0 .. size - 1
      PROVE  \E p \in 0 .. size - 1 : SlotAt(k, p, size) = s
  <2> DEFINE p == IF s >= Home(k, size) THEN s - Home(k, size)
                                        ELSE s - Home(k, size) + size
  <2>1. p \in 0 .. size - 1 /\ SlotAt(k, p, size) = s
    BY <1>1 DEF SlotAt
  <2> QED BY <2>1
<1> QED BY <1>2, <1>3

-----------------------------------------------------------------------------
(* The invariant *)

\* Build thread b has claimed a slot, or had one before the later kernels.
Owner(b) == ids[b] # NoId \/ (phase = "build" /\ pc[b] = "claimed")

\* An owner's slot has its key, and no two own the same.
OwnersHold ==
  \A b \in Threads : Owner(b) =>
    /\ at[b] < Size
    /\ tableKeys[Slot(b)] = Encode[Key(b)]
    /\ \A c \in Threads : Owner(c) /\ Slot(c) = Slot(b) => c = b

\* Every occupied slot is some owner's.
SlotsOwned ==
  \A s \in Slots : tableKeys[s] # Empty => \E b \in Threads : Owner(b) /\ Slot(b) = s

\* No slot a thread went past is empty or has the thread's own key.
PathsForeign ==
  \A b \in Threads : \A q \in 0 .. at[b] - 1 :
    tableKeys[SlotAt(Key(b), q, Size)] \notin {Empty, Encode[Key(b)]}

\* A slot is lost to another thread only.
LostOccupied ==
  phase = "build" => \A b \in Threads : pc[b] = "lost" => tableKeys[Slot(b)] # Empty

\* When a thread has returned, its key is in the table.
KeysEntered ==
  \A b \in Threads : phase # "build" \/ pc[b] = "returned" =>
    \E s \in Slots : tableKeys[s] = Encode[Key(b)]

\* The numbers drawn are 0 .. counter - 1, each by one thread.
IdsDense ==
  /\ \A b \in Threads : ids[b] # NoId => ids[b] \in 0 .. counter - 1
  /\ \A b, c \in Threads : ids[b] = ids[c] /\ ids[b] # NoId => b = c
  /\ \A g \in 0 .. counter - 1 : \E b \in Threads : ids[b] = g

\* Where in the build kernel a thread has a number.
IdsDrawn ==
  phase = "build" => \A b \in Threads :
    /\ pc[b] \in {"probe", "found", "lost", "claimed"} => ids[b] = NoId
    /\ pc[b] = "drawn" => ids[b] # NoId
    /\ pc[b] # "swap"

\* A number is in its owner's slot once it is stored.
IdsStored ==
  \A b \in Threads : ids[b] # NoId /\ ~(phase = "build" /\ pc[b] = "drawn") =>
    tableGids[Slot(b)] = ids[b]

TableInv ==
  /\ OwnersHold /\ SlotsOwned /\ PathsForeign /\ LostOccupied /\ KeysEntered
  /\ KeyHasOneSlot

IdsInv == IdsDense /\ IdsDrawn /\ IdsStored

\* A thread of an accumulate kernel is in none of the build kernel's states.
AccumulatePcs ==
  phase \in {"accumulate", "compact"} => pc \in [Threads -> {"probe", "swap", "returned"}]

IInv ==
  /\ TypeOK
  /\ AccumulatePcs
  /\ phase = "start" => counter = 0
  /\ InTable => TableInv /\ IdsInv

\* The threads and the size of the table.
LEMMA ThreadFacts ==
  ASSUME rows \in Columns
  PROVE  /\ IsFiniteSet(Threads) /\ Cardinality(Threads) \in Nat
         /\ Size \in Nat \ {0} /\ 2 * Cardinality(Threads) <= Size
         /\ \A b \in Threads : Key(b) \in Keys /\ Encode[Key(b)] \in Words
<1>1. rows \in Seq(Row) /\ Len(rows) <= MaxRows /\ MaxRows \in Nat
  BY GroupAssumption DEF Columns
<1>2. PICK n \in Nat : n = Len(rows) /\ DOMAIN rows = 1 .. n
  BY <1>1
<1>3. \A b \in 1 .. n : rows[b] \in Row
  BY <1>1, <1>2
<1>4. Threads \subseteq 1 .. n
  BY <1>2 DEF Threads
<1>5. IsFiniteSet(1 .. n) /\ Cardinality(1 .. n) = IF 1 > n THEN 0 ELSE n - 1 + 1
  BY FS_Interval
<1>6. IsFiniteSet(Threads) /\ Cardinality(Threads) <= Cardinality(1 .. n)
  BY <1>4, <1>5, FS_Subset
<1>7. Cardinality(Threads) \in Nat
  BY <1>6, FS_CardinalityType
<1>8. Cardinality(Threads) \in 0 .. MaxRows
  BY <1>1, <1>2, <1>5, <1>6, <1>7
<1>9. Size \in Nat \ {0} /\ 2 * Cardinality(Threads) <= Size
  BY <1>7, <1>8, TableSizeFacts, GroupAssumption DEF Size
<1>10. \A b \in Threads : Key(b) \in Keys
  BY <1>3, <1>4 DEF Key, Row
<1>11. \A b \in Threads : Encode[Key(b)] \in Words
  BY <1>10, KeyAssumption
<1> QED BY <1>6, <1>7, <1>9, <1>10, <1>11

\* The same for a table that is there.
LEMMA TableFacts ==
  ASSUME IInv, InTable
  PROVE  /\ rows \in Columns /\ counter \in Nat
         /\ Size \in Nat \ {0}
         /\ \A b \in Threads : Key(b) \in Keys /\ Encode[Key(b)] \in Words
         /\ at \in [Threads -> 0 .. Size]
         /\ ids \in [Threads -> Nat \cup {NoId}]
         /\ tableKeys \in [Slots -> Words]
         /\ tableGids \in [Slots -> Nat]
         /\ \A b \in Threads : at[b] < Size => Slot(b) \in Slots
<1>1. /\ rows \in Columns /\ counter \in Nat
      /\ at \in [Threads -> 0 .. Size]
      /\ ids \in [Threads -> Nat \cup {NoId}]
      /\ tableKeys \in [Slots -> Words]
      /\ tableGids \in [Slots -> Nat]
  BY DEF IInv, TypeOK
<1>2. /\ Size \in Nat \ {0}
      /\ \A b \in Threads : Key(b) \in Keys /\ Encode[Key(b)] \in Words
  BY <1>1, ThreadFacts
<1>3. ASSUME NEW b \in Threads, at[b] < Size
      PROVE  Slot(b) \in Slots
  <2>1. at[b] \in 0 .. Size - 1
    BY <1>1, <1>2, <1>3
  <2> QED BY <1>2, <2>1, SlotFacts DEF Slot, Slots
<1> QED BY <1>1, <1>2, <1>3

\* A table of twice as many slots as rows is never full.
LEMMA NeverFull ==
  ASSUME IInv, InTable, NEW b \in Threads
  PROVE  at[b] # Size
<1> SUFFICES ASSUME at[b] = Size PROVE FALSE
  OBVIOUS
<1>1. \A s \in Slots : tableKeys[s] # Empty
  <2>1. \A s \in Slots : \E p \in 0 .. Size - 1 : SlotAt(Key(b), p, Size) = s
    BY TableFacts, SlotFacts DEF Slots
  <2> QED BY <2>1 DEF IInv, TableInv, PathsForeign
<1>2. \A s \in Slots : \E c \in Threads : Slot(c) = s
  BY <1>1 DEF IInv, TableInv, SlotsOwned
<1> DEFINE owner == [s \in Slots |-> CHOOSE c \in Threads : Slot(c) = s]
<1>3. \A s \in Slots : owner[s] \in Threads /\ Slot(owner[s]) = s
  BY <1>2
<1> HIDE DEF owner
<1>4. owner \in [Slots -> Threads]
  BY <1>3 DEF owner
<1>5. \A s, t \in Slots : owner[s] = owner[t] => s = t
  BY <1>3
<1>6. /\ IsFiniteSet(Threads) /\ Cardinality(Threads) \in Nat
      /\ Size \in Nat \ {0} /\ 2 * Cardinality(Threads) <= Size
  BY ThreadFacts, TableFacts
<1>7. IsFiniteSet(Slots) /\ Cardinality(Slots) = Size
  <2>1. PICK n \in Nat \ {0} : n = Size
    BY <1>6
  <2>2. /\ IsFiniteSet(0 .. n - 1)
        /\ Cardinality(0 .. n - 1) = IF 0 > n - 1 THEN 0 ELSE n - 1 - 0 + 1
    BY FS_Interval
  <2>3. Cardinality(0 .. n - 1) = n
    BY <2>2
  <2> QED BY <2>1, <2>2, <2>3 DEF Slots
<1>8. Cardinality(Threads) < Cardinality(Slots)
  BY <1>6, <1>7
<1>9. \E s, t \in Slots : s # t /\ owner[s] = owner[t]
  BY <1>4, <1>6, <1>7, <1>8, FS_PigeonHole
<1> QED BY <1>5, <1>9

-----------------------------------------------------------------------------
(* The steps preserve the invariant *)

\* The rows stay, and with them the threads, the table's size and all slots.
LEMMA RowsStay ==
  ASSUME UNCHANGED input
  PROVE  /\ rows' = rows /\ op' = op /\ masked' = masked /\ isFloat' = isFloat
         /\ Threads' = Threads /\ Size' = Size /\ Slots' = Slots
         /\ \A b : Key(b)' = Key(b)
  BY DEF input, Threads, Size, Slots, Key

LEMMA StartBuildKeeps ==
  ASSUME IInv, StartBuild
  PROVE  IInv'
<1>1. /\ UNCHANGED input /\ rows \in Columns /\ phase' = "build"
      /\ counter = 0 /\ counter' = 0 /\ op \in Ops /\ masked \in BOOLEAN /\ isFloat \in BOOLEAN
  BY DEF StartBuild, IInv, TypeOK
<1>2. /\ rows' = rows /\ op' = op /\ masked' = masked /\ isFloat' = isFloat
      /\ Threads' = Threads /\ Size' = Size /\ Slots' = Slots
      /\ \A b : Key(b)' = Key(b)
  BY <1>1, RowsStay
<1>3. Size \in Nat \ {0}
  BY <1>1, ThreadFacts
<1>4. /\ pc' = [b \in Threads |-> "probe"]
      /\ at' = [b \in Threads |-> 0]
      /\ ids' = [b \in Threads |-> NoId]
      /\ tableKeys' = [s \in Slots |-> Empty]
  BY DEF StartBuild
<1>5. TypeOK'
  <2>1. at' \in [Threads -> 0 .. Size]
    BY <1>3, <1>4
  <2>2. tableKeys' \in [Slots -> Words]
    BY <1>4, KeyAssumption DEF Words
  <2>3. ids' \in [Threads -> Nat \cup {NoId}]
    BY <1>4
  <2>4. tableGids' \in [Slots -> Nat]
    <3>1. PICK g \in Garbage : tableGids' = [s \in Slots |-> g]
      BY DEF StartBuild
    <3>2. g \in Nat
      BY GroupAssumption
    <3> QED BY <3>1, <3>2
  <2> QED BY <1>1, <1>2, <1>4, <2>1, <2>2, <2>3, <2>4 DEF TypeOK
<1>6. \A b \in Threads : ~Owner(b)'
  BY <1>4 DEF Owner
<1>7. OwnersHold' /\ SlotsOwned' /\ KeyHasOneSlot'
  BY <1>2, <1>4, <1>6 DEF OwnersHold, SlotsOwned, KeyHasOneSlot
<1>8. PathsForeign'
  BY <1>2, <1>4 DEF PathsForeign
<1>9. LostOccupied' /\ KeysEntered'
  BY <1>1, <1>2, <1>4 DEF LostOccupied, KeysEntered
<1>10. IdsDense'
  BY <1>1, <1>2, <1>4 DEF IdsDense
<1>11. IdsDrawn' /\ IdsStored'
  BY <1>1, <1>2, <1>4 DEF IdsDrawn, IdsStored
<1> QED BY <1>1, <1>5, <1>7, <1>8, <1>9, <1>10, <1>11
        DEF IInv, TableInv, IdsInv, AccumulatePcs

\* A thread looks at a slot, goes for it, loses it, or goes on behind it; it
\* owns none, and goes on only past a slot with another key.
LEMMA LookKeeps ==
  ASSUME IInv, SoundTable, NEW b \in Threads,
         LoadSlot(b) \/ LoseSlot(b) \/ ReloadSlot(b)
  PROVE  IInv'
<1>1. UNCHANGED <<input, phase, ids, tableKeys, tableGids, counter>> /\ phase = "build"
  BY DEF LoadSlot, LoseSlot, ReloadSlot, Probing, table
<1>2. /\ rows' = rows /\ op' = op /\ masked' = masked /\ isFloat' = isFloat
      /\ Threads' = Threads /\ Size' = Size /\ Slots' = Slots
      /\ \A c : Key(c)' = Key(c)
  BY <1>1, RowsStay
<1>3. InTable /\ TypeOK /\ TableInv /\ IdsInv
  BY <1>1 DEF IInv, InTable
<1>4. pc[b] \in {"probe", "found", "lost"} /\ at[b] < Size
  BY <1>3 DEF LoadSlot, LoseSlot, ReloadSlot, Probing, TypeOK
<1>5. /\ at \in [Threads -> 0 .. Size] /\ Size \in Nat \ {0}
      /\ Slot(b) \in Slots /\ Key(b) \in Keys
      /\ pc \in [Threads -> {"probe", "found", "lost", "claimed", "drawn",
                             "swap", "returned"}]
  BY <1>3, <1>4, TableFacts DEF TypeOK
<1>6. Encode[Key(b)] # Empty
  BY <1>5 DEF SoundTable
<1>7. \/ /\ UNCHANGED at
         /\ \/ pc' = [pc EXCEPT ![b] = "found"]
            \/ /\ pc' = [pc EXCEPT ![b] = "lost"]
               /\ tableKeys[Slot(b)] # Empty
            \/ /\ pc' = [pc EXCEPT ![b] = "returned"]
               /\ tableKeys[Slot(b)] = Encode[Key(b)]
      \/ /\ at' = [at EXCEPT ![b] = @ + 1]
         /\ pc' = pc \/ pc' = [pc EXCEPT ![b] = "probe"]
         /\ pc'[b] = "probe"
         /\ tableKeys[Slot(b)] \notin {Empty, Encode[Key(b)]}
  <2>1. CASE LoadSlot(b)
    BY <1>6, <2>1 DEF LoadSlot, Probing, Returned, Advanced
  <2>2. CASE LoseSlot(b)
    BY <2>2 DEF LoseSlot, SoundTable, table
  <2>3. CASE ReloadSlot(b)
    BY <1>1, <1>3, <1>5, <2>3 DEF ReloadSlot, Returned, Advanced, HoldsOwnKey, TableInv, LostOccupied
  <2> QED BY <2>1, <2>2, <2>3
<1>8. \A c \in Threads : c # b => at'[c] = at[c] /\ pc'[c] = pc[c]
  BY <1>5, <1>7
<1>9. pc'[b] \in {"probe", "found", "lost", "returned"}
  BY <1>4, <1>5, <1>7
<1>10. TypeOK'
  <2>1. at' \in [Threads -> 0 .. Size]
    <3>1. at[b] + 1 \in 0 .. Size
      BY <1>4, <1>5
    <3> QED BY <1>5, <1>7, <3>1
  <2>2. pc' \in [Threads -> {"probe", "found", "lost", "claimed", "drawn",
                             "swap", "returned"}]
    BY <1>5, <1>7
  <2>3. ASSUME NEW c \in Threads, pc'[c] \in {"found", "lost", "claimed", "drawn"}
        PROVE  at'[c] < Size
    <3>1. CASE c = b
      <4>1. at' # at => pc'[b] = "probe"
        BY <1>4, <1>5, <1>7
      <4> QED BY <1>4, <2>3, <3>1, <4>1
    <3>2. CASE c # b
      BY <1>3, <1>8, <2>3, <3>2 DEF TypeOK
    <3> QED BY <3>1, <3>2
  <2> QED BY <1>1, <1>2, <1>3, <2>1, <2>2, <2>3 DEF TypeOK
<1>11. ~Owner(b) /\ \A c \in Threads : Owner(c)' <=> Owner(c)
  BY <1>1, <1>3, <1>4, <1>8, <1>9 DEF Owner, IdsInv, IdsDrawn
<1>12. \A c \in Threads : Owner(c) => Slot(c)' = Slot(c) /\ at'[c] = at[c]
  BY <1>2, <1>8, <1>11 DEF Slot
<1>13. OwnersHold'
  BY <1>1, <1>2, <1>3, <1>11, <1>12 DEF TableInv, OwnersHold
<1>14. SlotsOwned'
  BY <1>1, <1>2, <1>3, <1>11, <1>12 DEF TableInv, SlotsOwned
<1>15. PathsForeign'
  <2>1. ASSUME NEW c \in Threads, NEW q \in 0 .. at'[c] - 1
        PROVE  tableKeys[SlotAt(Key(c), q, Size)] \notin {Empty, Encode[Key(c)]}
    <3>1. CASE q \in 0 .. at[c] - 1
      BY <1>3, <3>1 DEF TableInv, PathsForeign
    <3>2. CASE q \notin 0 .. at[c] - 1
      <4>1. at[c] \in Nat /\ at'[c] \in {at[c], at[c] + 1}
        BY <1>5, <1>7, <1>8
      <4>2. q = at[c] /\ at'[c] # at[c]
        BY <2>1, <3>2, <4>1
      <4>3. c = b
        BY <1>8, <4>2
      <4> QED BY <1>7, <4>2, <4>3 DEF Slot
    <3> QED BY <3>1, <3>2
  <2> QED BY <1>1, <1>2, <2>1 DEF PathsForeign
<1>16. LostOccupied'
  <2>1. ASSUME NEW c \in Threads, pc'[c] = "lost"
        PROVE  tableKeys[Slot(c)'] # Empty
    <3>1. CASE c = b
      BY <1>2, <1>4, <1>5, <1>7, <2>1, <3>1 DEF Slot
    <3>2. CASE c # b
      BY <1>1, <1>2, <1>3, <1>8, <2>1, <3>2 DEF TableInv, LostOccupied, Slot
    <3> QED BY <3>1, <3>2
  <2> QED BY <1>1, <1>2, <2>1 DEF LostOccupied
<1>17. KeysEntered'
  <2>1. ASSUME NEW c \in Threads, pc'[c] = "returned"
        PROVE  \E s \in Slots : tableKeys[s] = Encode[Key(c)]
    <3>1. CASE c = b
      BY <1>4, <1>5, <1>7, <2>1, <3>1
    <3>2. CASE c # b
      BY <1>3, <1>8, <2>1, <3>2 DEF TableInv, KeysEntered
    <3> QED BY <3>1, <3>2
  <2> QED BY <1>1, <1>2, <2>1 DEF KeysEntered
<1>18. KeyHasOneSlot'
  BY <1>1, <1>2, <1>3 DEF TableInv, KeyHasOneSlot, InTable
<1>19. IdsDense'
  BY <1>1, <1>2, <1>3 DEF IdsInv, IdsDense
<1>20. ids[b] = NoId
  BY <1>1, <1>3, <1>4 DEF IdsInv, IdsDrawn
<1>21. IdsDrawn'
  BY <1>1, <1>2, <1>3, <1>8, <1>9, <1>20 DEF IdsInv, IdsDrawn
<1>22. IdsStored'
  <2>1. \A c \in Threads : ids[c] # NoId => c # b /\ Slot(c)' = Slot(c)
    BY <1>2, <1>8, <1>20 DEF Slot
  <2> QED BY <1>1, <1>2, <1>3, <1>8, <2>1 DEF IdsInv, IdsStored
<1> QED BY <1>1, <1>10, <1>13, <1>14, <1>15, <1>16, <1>17, <1>18, <1>19, <1>21, <1>22
        DEF IInv, TableInv, IdsInv, AccumulatePcs

\* A thread that claims a slot becomes the one owner of it, and no slot has
\* its key already.
LEMMA ClaimKeeps ==
  ASSUME IInv, SoundTable, NEW b \in Threads, Claim(b)
  PROVE  IInv'
<1>1. /\ UNCHANGED <<input, phase, at, ids, tableGids, counter>> /\ phase = "build"
      /\ pc[b] = "found" /\ tableKeys[Slot(b)] = Empty
      /\ tableKeys' = [tableKeys EXCEPT ![Slot(b)] = Encode[Key(b)]]
      /\ pc' = [pc EXCEPT ![b] = "claimed"]
  BY DEF Claim, MayClaim
<1>2. /\ rows' = rows /\ op' = op /\ masked' = masked /\ isFloat' = isFloat
      /\ Threads' = Threads /\ Size' = Size /\ Slots' = Slots
      /\ \A c : Key(c)' = Key(c)
  BY <1>1, RowsStay
<1>3. InTable /\ TypeOK /\ TableInv /\ IdsInv
  BY <1>1 DEF IInv, InTable
<1>4. /\ at[b] < Size /\ at \in [Threads -> 0 .. Size] /\ Size \in Nat \ {0}
      /\ pc \in [Threads -> {"probe", "found", "lost", "claimed", "drawn",
                             "swap", "returned"}]
  BY <1>1, <1>3, TableFacts DEF TypeOK
<1>5. /\ Slot(b) \in Slots /\ tableKeys \in [Slots -> Words]
      /\ \A c \in Threads : Key(c) \in Keys /\ Encode[Key(c)] \in Words
      /\ \A c \in Threads : at[c] < Size => Slot(c) \in Slots
  BY <1>3, <1>4, TableFacts
<1>6. \A c \in Threads : Encode[Key(c)] \in Words \ {Empty}
  BY <1>5 DEF SoundTable
<1>7. /\ tableKeys' \in [Slots -> Words]
      /\ tableKeys'[Slot(b)] = Encode[Key(b)]
      /\ \A s \in Slots : s # Slot(b) => tableKeys'[s] = tableKeys[s]
  BY <1>1, <1>5
<1>8. /\ pc'[b] = "claimed"
      /\ \A c \in Threads : c # b => pc'[c] = pc[c]
  BY <1>1, <1>4
<1>9. \A c : Slot(c)' = Slot(c)
  BY <1>1, <1>2 DEF Slot
<1>10. TypeOK'
  <2>1. pc' \in [Threads -> {"probe", "found", "lost", "claimed", "drawn",
                             "swap", "returned"}]
    BY <1>1, <1>4
  <2>2. \A c \in Threads : pc'[c] \in {"found", "lost", "claimed", "drawn"} => at'[c] < Size
    BY <1>1, <1>3, <1>4, <1>8 DEF TypeOK
  <2> QED BY <1>1, <1>2, <1>3, <1>7, <2>1, <2>2 DEF TypeOK
<1>11. ids[b] = NoId
  BY <1>1, <1>3 DEF IdsInv, IdsDrawn
<1>12. \A c \in Threads : Owner(c)' <=> Owner(c) \/ c = b
  BY <1>1, <1>8 DEF Owner
<1>13. \A c \in Threads : Owner(c) =>
         /\ at[c] < Size /\ Slot(c) \in Slots
         /\ tableKeys[Slot(c)] = Encode[Key(c)] /\ Slot(c) # Slot(b)
  BY <1>1, <1>3, <1>5, <1>6 DEF TableInv, OwnersHold
<1>14. \A s \in Slots : tableKeys[s] # Encode[Key(b)]
  <2> SUFFICES ASSUME NEW s \in Slots, tableKeys[s] = Encode[Key(b)] PROVE FALSE
    OBVIOUS
  <2>1. PICK c \in Threads : Owner(c) /\ Slot(c) = s
    BY <1>3, <1>6 DEF TableInv, SlotsOwned
  <2>2. at[c] < Size /\ Encode[Key(c)] = Encode[Key(b)] /\ Slot(c) # Slot(b)
    BY <1>13, <2>1
  <2>3. \A q : SlotAt(Key(c), q, Size) = SlotAt(Key(b), q, Size)
    BY <2>2 DEF SlotAt, Home
  <2>4. at[b] \in 0 .. Size /\ at[c] \in 0 .. Size
    BY <1>4
  <2>5. at[b] # at[c]
    BY <2>2, <2>3 DEF Slot
  <2>6. CASE at[b] < at[c]
    <3>1. at[b] \in 0 .. at[c] - 1
      BY <2>4, <2>6
    <3>2. tableKeys[SlotAt(Key(c), at[b], Size)] # Empty
      BY <1>3, <3>1 DEF TableInv, PathsForeign
    <3> QED BY <1>1, <2>3, <3>2 DEF Slot
  <2>7. CASE at[c] < at[b]
    <3>1. at[c] \in 0 .. at[b] - 1
      BY <2>4, <2>7
    <3>2. tableKeys[SlotAt(Key(b), at[c], Size)] # Encode[Key(b)]
      BY <1>3, <3>1 DEF TableInv, PathsForeign
    <3> QED BY <1>13, <2>1, <2>2, <2>3, <3>2 DEF Slot
  <2> QED BY <2>4, <2>5, <2>6, <2>7
<1>15. OwnersHold'
  <2>1. ASSUME NEW c \in Threads, Owner(c)'
        PROVE  at[c] < Size /\ tableKeys'[Slot(c)] = Encode[Key(c)]
    BY <1>4, <1>7, <1>12, <1>13, <2>1
  <2>2. ASSUME NEW c \in Threads, Owner(c)',
               NEW d \in Threads, Owner(d)', Slot(d) = Slot(c)
        PROVE  d = c
    BY <1>3, <1>12, <1>13, <2>2 DEF TableInv, OwnersHold
  <2> QED BY <1>1, <1>2, <1>9, <2>1, <2>2 DEF OwnersHold
<1>16. SlotsOwned'
  BY <1>2, <1>3, <1>7, <1>9, <1>12 DEF TableInv, SlotsOwned
<1>17. PathsForeign'
  <2>1. ASSUME NEW c \in Threads, NEW q \in 0 .. at[c] - 1
        PROVE  tableKeys'[SlotAt(Key(c), q, Size)] \notin {Empty, Encode[Key(c)]}
    <3>1. tableKeys[SlotAt(Key(c), q, Size)] \notin {Empty, Encode[Key(c)]}
      BY <1>3 DEF TableInv, PathsForeign
    <3>2. q \in 0 .. Size - 1
      <4>1. at[c] \in 0 .. Size
        BY <1>4
      <4> QED BY <1>4, <4>1
    <3>3. SlotAt(Key(c), q, Size) \in Slots
      BY <1>4, <1>5, <3>2, SlotFacts DEF Slots
    <3>4. SlotAt(Key(c), q, Size) # Slot(b)
      BY <1>1, <3>1
    <3> QED BY <1>7, <3>1, <3>3, <3>4
  <2> QED BY <1>1, <1>2, <2>1 DEF PathsForeign
<1>18. LostOccupied'
  <2>1. ASSUME NEW c \in Threads, pc'[c] = "lost"
        PROVE  tableKeys'[Slot(c)] # Empty
    <3>1. pc[c] = "lost" /\ at[c] < Size
      BY <1>3, <1>8, <2>1 DEF TypeOK
    <3>2. tableKeys[Slot(c)] # Empty /\ Slot(c) \in Slots
      BY <1>1, <1>3, <1>5, <3>1 DEF TableInv, LostOccupied
    <3>3. Slot(c) # Slot(b)
      BY <1>1, <3>2
    <3> QED BY <1>7, <3>2, <3>3
  <2> QED BY <1>1, <1>2, <1>9, <2>1 DEF LostOccupied
<1>19. KeysEntered'
  <2>1. ASSUME NEW c \in Threads, pc'[c] = "returned"
        PROVE  \E s \in Slots : tableKeys'[s] = Encode[Key(c)]
    <3>1. PICK s \in Slots : tableKeys[s] = Encode[Key(c)]
      BY <1>3, <1>8, <2>1 DEF TableInv, KeysEntered
    <3>2. s # Slot(b)
      BY <1>1, <1>6, <3>1
    <3> QED BY <1>7, <3>1, <3>2
  <2> QED BY <1>1, <1>2, <2>1 DEF KeysEntered
<1>20. KeyHasOneSlot'
  <2>1. ASSUME NEW s \in Slots, NEW u \in Slots,
               tableKeys'[s] = tableKeys'[u], tableKeys'[s] # Empty
        PROVE  s = u
    <3>1. CASE s = Slot(b) \/ u = Slot(b)
      BY <1>7, <1>14, <2>1, <3>1
    <3>2. CASE s # Slot(b) /\ u # Slot(b)
      BY <1>3, <1>7, <2>1, <3>2 DEF TableInv, KeyHasOneSlot
    <3> QED BY <3>1, <3>2
  <2> QED BY <1>2, <2>1 DEF KeyHasOneSlot
<1>21. IdsDense'
  BY <1>1, <1>2, <1>3 DEF IdsInv, IdsDense
<1>22. IdsDrawn'
  BY <1>1, <1>2, <1>3, <1>8, <1>11 DEF IdsInv, IdsDrawn
<1>23. IdsStored'
  BY <1>1, <1>2, <1>3, <1>8, <1>9, <1>11 DEF IdsInv, IdsStored
<1> QED BY <1>1, <1>10, <1>15, <1>16, <1>17, <1>18, <1>19, <1>20, <1>21, <1>22, <1>23
        DEF IInv, TableInv, IdsInv, AccumulatePcs

\* A step of an owner that leaves the keys: it draws its number, or stores it.
LEMMA TableKept ==
  ASSUME TableInv, NEW b \in Threads, phase = "build",
         UNCHANGED <<input, phase, at, tableKeys>>,
         \A c \in Threads : Owner(c)' <=> Owner(c),
         Owner(b), Slot(b) \in Slots, pc'[b] # "lost",
         \A c \in Threads : c # b => pc'[c] = pc[c]
  PROVE  TableInv'
<1>1. /\ Threads' = Threads /\ Size' = Size /\ Slots' = Slots
      /\ \A c : Key(c)' = Key(c)
  BY RowsStay
<1>2. \A c : Slot(c)' = Slot(c)
  BY <1>1 DEF Slot
<1>3. OwnersHold'
  BY <1>1, <1>2 DEF TableInv, OwnersHold
<1>4. SlotsOwned'
  BY <1>1, <1>2 DEF TableInv, SlotsOwned
<1>5. PathsForeign'
  BY <1>1 DEF TableInv, PathsForeign
<1>6. LostOccupied'
  BY <1>1, <1>2 DEF TableInv, LostOccupied
<1>7. KeysEntered'
  <2>1. tableKeys[Slot(b)] = Encode[Key(b)]
    BY DEF TableInv, OwnersHold
  <2> QED BY <1>1, <2>1 DEF TableInv, KeysEntered
<1>8. KeyHasOneSlot'
  BY <1>1 DEF TableInv, KeyHasOneSlot, InTable
<1> QED BY <1>3, <1>4, <1>5, <1>6, <1>7, <1>8 DEF TableInv

LEMMA DrawKeeps ==
  ASSUME IInv, NEW b \in Threads, DrawId(b)
  PROVE  IInv'
<1>1. /\ UNCHANGED <<input, phase, at, tableKeys, tableGids>> /\ phase = "build"
      /\ pc[b] = "claimed"
      /\ ids' = [ids EXCEPT ![b] = counter] /\ counter' = counter + 1
      /\ pc' = [pc EXCEPT ![b] = "drawn"]
  BY DEF DrawId, CounterNext
<1>2. /\ rows' = rows /\ op' = op /\ masked' = masked /\ isFloat' = isFloat
      /\ Threads' = Threads /\ Size' = Size /\ Slots' = Slots
      /\ \A c : Key(c)' = Key(c)
  BY <1>1, RowsStay
<1>3. InTable /\ TypeOK /\ TableInv /\ IdsInv
  BY <1>1 DEF IInv, InTable
<1>4. /\ at[b] < Size /\ Slot(b) \in Slots
      /\ ids \in [Threads -> Nat \cup {NoId}] /\ counter \in Nat
      /\ pc \in [Threads -> {"probe", "found", "lost", "claimed", "drawn",
                             "swap", "returned"}]
  BY <1>1, <1>3, TableFacts DEF TypeOK
<1>5. /\ pc'[b] = "drawn" /\ ids'[b] = counter
      /\ \A c \in Threads : c # b => pc'[c] = pc[c] /\ ids'[c] = ids[c]
  BY <1>1, <1>4
<1>6. counter # NoId /\ ids[b] = NoId
  <2>1. counter # NoId
    BY <1>4 DEF NoId
  <2> QED BY <1>1, <1>3, <2>1 DEF IdsInv, IdsDrawn
<1>7. TypeOK'
  <2>1. pc' \in [Threads -> {"probe", "found", "lost", "claimed", "drawn",
                             "swap", "returned"}]
    BY <1>1, <1>4
  <2>2. \A c \in Threads : pc'[c] \in {"found", "lost", "claimed", "drawn"} => at'[c] < Size
    BY <1>1, <1>3, <1>4, <1>5 DEF TypeOK
  <2>3. ids' \in [Threads -> Nat \cup {NoId}]
    BY <1>1, <1>4
  <2>4. counter' \in Nat
    BY <1>1, <1>4
  <2> QED BY <1>1, <1>2, <1>3, <2>1, <2>2, <2>3, <2>4 DEF TypeOK
<1>8. Owner(b) /\ \A c \in Threads : Owner(c)' <=> Owner(c)
  BY <1>1, <1>5, <1>6 DEF Owner
<1>9. TableInv'
  BY <1>1, <1>3, <1>4, <1>5, <1>8, TableKept
<1>10. IdsDense'
  <2>1. ASSUME NEW c \in Threads, ids'[c] # NoId
        PROVE  ids'[c] \in 0 .. counter
    <3>1. CASE c = b
      BY <1>4, <1>5, <3>1
    <3>2. CASE c # b
      <4>1. ids[c] \in 0 .. counter - 1
        BY <1>3, <1>5, <2>1, <3>2 DEF IdsInv, IdsDense
      <4> QED BY <1>4, <1>5, <3>2, <4>1
    <3> QED BY <3>1, <3>2
  <2>2. \A c \in Threads : ids[c] # counter
    <3>1. ASSUME NEW c \in Threads, ids[c] # NoId PROVE ids[c] # counter
      <4>1. ids[c] \in 0 .. counter - 1
        BY <1>3, <3>1 DEF IdsInv, IdsDense
      <4> QED BY <1>4, <4>1
    <3> QED BY <1>6, <3>1
  <2>3. \A c, d \in Threads : ids'[c] = ids'[d] /\ ids'[c] # NoId => c = d
    BY <1>3, <1>5, <2>2 DEF IdsInv, IdsDense
  <2>4. ASSUME NEW g \in 0 .. counter PROVE \E c \in Threads : ids'[c] = g
    <3>1. CASE g = counter
      BY <1>5, <3>1
    <3>2. CASE g # counter
      <4>1. g \in 0 .. counter - 1
        BY <1>4, <3>2
      <4>2. PICK c \in Threads : ids[c] = g
        BY <1>3, <4>1 DEF IdsInv, IdsDense
      <4>3. g # NoId
        BY <2>4 DEF NoId
      <4>4. c # b
        BY <1>6, <4>2, <4>3
      <4> QED BY <1>5, <4>2, <4>4
    <3> QED BY <3>1, <3>2
  <2>5. 0 .. counter' - 1 = 0 .. counter
    BY <1>1, <1>4
  <2> QED BY <1>2, <2>1, <2>3, <2>4, <2>5 DEF IdsDense
<1>11. IdsDrawn'
  BY <1>1, <1>2, <1>3, <1>5, <1>6 DEF IdsInv, IdsDrawn
<1>12. IdsStored'
  <2>1. \A c : Slot(c)' = Slot(c)
    BY <1>1, <1>2 DEF Slot
  <2> QED BY <1>1, <1>2, <1>3, <1>5, <2>1 DEF IdsInv, IdsStored
<1> QED BY <1>1, <1>7, <1>9, <1>10, <1>11, <1>12 DEF IInv, IdsInv, AccumulatePcs

LEMMA StoreKeeps ==
  ASSUME IInv, NEW b \in Threads, StoreId(b)
  PROVE  IInv'
<1>1. /\ UNCHANGED <<input, phase, at, ids, tableKeys, counter>> /\ phase = "build"
      /\ pc[b] = "drawn"
      /\ tableGids' = [tableGids EXCEPT ![Slot(b)] = ids[b]]
      /\ pc' = [pc EXCEPT ![b] = "returned"]
  BY DEF StoreId, Returned
<1>2. /\ rows' = rows /\ op' = op /\ masked' = masked /\ isFloat' = isFloat
      /\ Threads' = Threads /\ Size' = Size /\ Slots' = Slots
      /\ \A c : Key(c)' = Key(c)
  BY <1>1, RowsStay
<1>3. InTable /\ TypeOK /\ TableInv /\ IdsInv
  BY <1>1 DEF IInv, InTable
<1>4. /\ at[b] < Size /\ Slot(b) \in Slots
      /\ ids \in [Threads -> Nat \cup {NoId}]
      /\ tableGids \in [Slots -> Nat]
      /\ pc \in [Threads -> {"probe", "found", "lost", "claimed", "drawn",
                             "swap", "returned"}]
  BY <1>1, <1>3, TableFacts DEF TypeOK
<1>5. ids[b] # NoId /\ ids[b] \in Nat
  BY <1>1, <1>3, <1>4 DEF IdsInv, IdsDrawn
<1>6. /\ tableGids' \in [Slots -> Nat]
      /\ tableGids'[Slot(b)] = ids[b]
      /\ \A s \in Slots : s # Slot(b) => tableGids'[s] = tableGids[s]
  BY <1>1, <1>4, <1>5
<1>7. /\ pc'[b] = "returned"
      /\ \A c \in Threads : c # b => pc'[c] = pc[c]
  BY <1>1, <1>4
<1>8. TypeOK'
  <2>1. pc' \in [Threads -> {"probe", "found", "lost", "claimed", "drawn",
                             "swap", "returned"}]
    BY <1>1, <1>4
  <2>2. \A c \in Threads : pc'[c] \in {"found", "lost", "claimed", "drawn"} => at'[c] < Size
    BY <1>1, <1>3, <1>7 DEF TypeOK
  <2> QED BY <1>1, <1>2, <1>3, <1>6, <2>1, <2>2 DEF TypeOK
<1>9. Owner(b) /\ \A c \in Threads : Owner(c)' <=> Owner(c)
  BY <1>1, <1>5, <1>7 DEF Owner
<1>10. TableInv'
  BY <1>1, <1>3, <1>4, <1>7, <1>9, TableKept
<1>11. IdsDense'
  BY <1>1, <1>2, <1>3 DEF IdsInv, IdsDense
<1>12. IdsDrawn'
  BY <1>1, <1>2, <1>3, <1>7 DEF IdsInv, IdsDrawn
<1>13. IdsStored'
  <2>1. \A c : Slot(c)' = Slot(c)
    BY <1>1, <1>2 DEF Slot
  <2>2. ASSUME NEW c \in Threads, ids[c] # NoId, pc'[c] # "drawn"
        PROVE  tableGids'[Slot(c)] = ids[c]
    <3>1. CASE c = b
      BY <1>6, <3>1
    <3>2. CASE c # b
      <4>1. Owner(c) /\ tableGids[Slot(c)] = ids[c]
        BY <1>3, <1>7, <2>2, <3>2 DEF Owner, IdsInv, IdsStored
      <4>2. at[c] < Size /\ Slot(c) # Slot(b)
        BY <1>3, <1>9, <3>2, <4>1 DEF TableInv, OwnersHold
      <4>3. Slot(c) \in Slots
        BY <1>3, <4>2, TableFacts
      <4> QED BY <1>6, <4>1, <4>2, <4>3
    <3> QED BY <3>1, <3>2
  <2> QED BY <1>1, <1>2, <2>1, <2>2 DEF IdsStored
<1> QED BY <1>1, <1>8, <1>10, <1>11, <1>12, <1>13 DEF IInv, IdsInv, AccumulatePcs

\* Once the build kernel has completed, nobody writes the table.
LEMMA LaterKeeps ==
  ASSUME IInv,
         (phase = "build" /\ AllReturned) \/ phase \in {"accumulate", "compact"},
         phase' \in {"accumulate", "compact"}, UNCHANGED <<input, table>>,
         pc' \in [Threads -> {"probe", "swap", "returned"}]
  PROVE  IInv'
<1>1. UNCHANGED <<tableKeys, tableGids, counter, ids, at>>
  BY DEF table
<1>2. /\ rows' = rows /\ op' = op /\ masked' = masked /\ isFloat' = isFloat
      /\ Threads' = Threads /\ Size' = Size /\ Slots' = Slots
      /\ \A c : Key(c)' = Key(c)
  BY RowsStay
<1>3. InTable /\ TypeOK /\ TableInv /\ IdsInv
  BY DEF IInv, InTable
<1>4. \A c : Slot(c)' = Slot(c)
  BY <1>1, <1>2 DEF Slot
<1>5. \A c \in Threads : /\ Owner(c) <=> ids[c] # NoId
                         /\ Owner(c)' <=> Owner(c)
                         /\ ~(phase = "build" /\ pc[c] # "returned")
  BY <1>1 DEF Owner, AllReturned
<1>6. TypeOK'
  <2>1. \A c \in Threads : pc'[c] \in {"probe", "swap", "returned"}
    OBVIOUS
  <2>2. pc' \in [Threads -> {"probe", "found", "lost", "claimed", "drawn",
                             "swap", "returned"}]
    OBVIOUS
  <2> QED BY <1>1, <1>2, <1>3, <2>1, <2>2 DEF TypeOK
<1>7. OwnersHold' /\ SlotsOwned'
  BY <1>1, <1>2, <1>3, <1>4, <1>5 DEF TableInv, OwnersHold, SlotsOwned
<1>8. PathsForeign'
  BY <1>1, <1>2, <1>3 DEF TableInv, PathsForeign
<1>9. LostOccupied' /\ KeysEntered'
  BY <1>1, <1>2, <1>3, <1>5 DEF TableInv, LostOccupied, KeysEntered
<1>10. KeyHasOneSlot'
  BY <1>1, <1>2, <1>3 DEF TableInv, KeyHasOneSlot, InTable
<1>11. IdsDense'
  BY <1>1, <1>2, <1>3 DEF IdsInv, IdsDense
<1>12. IdsDrawn'
  BY DEF IdsDrawn
<1>13. IdsStored'
  BY <1>1, <1>2, <1>3, <1>4, <1>5 DEF IdsInv, IdsStored
<1>14. AccumulatePcs'
  BY <1>2 DEF AccumulatePcs
<1>15. TableInv' /\ IdsInv'
  BY <1>7, <1>8, <1>9, <1>10, <1>11, <1>12, <1>13 DEF TableInv, IdsInv
<1>16. phase' # "start"
  OBVIOUS
<1> QED BY <1>6, <1>14, <1>15, <1>16 DEF IInv

\* A step to a phase without a table.
LEMMA AwayKeeps ==
  ASSUME IInv, phase' \in {"pandas", "done"}, UNCHANGED <<input, counter>>
  PROVE  IInv'
<1>1. TypeOK'
  BY RowsStay DEF IInv, TypeOK, InTable
<1> QED BY <1>1 DEF IInv, InTable, AccumulatePcs

LEMMA AccumulateKeeps ==
  ASSUME IInv, NEW b \in Threads, AccumulateStep(b)
  PROVE  IInv'
<1>1. phase = "accumulate" /\ UNCHANGED <<input, phase, table>>
  BY DEF AccumulateStep, SkipRow, FetchAccumulate, LoadAccumulator, Settle, Swap,
         LoseSwap, Accumulating, Swapping
<1>2. \/ pc' = pc
      \/ pc' = [pc EXCEPT ![b] = "swap"]
      \/ pc' = [pc EXCEPT ![b] = "returned"]
  BY DEF AccumulateStep, SkipRow, FetchAccumulate, LoadAccumulator, Settle, Swap,
         LoseSwap, Returned
<1>3. pc \in [Threads -> {"probe", "swap", "returned"}]
  BY <1>1 DEF IInv, AccumulatePcs
<1>4. pc' \in [Threads -> {"probe", "swap", "returned"}]
  BY <1>2, <1>3
<1> QED BY <1>1, <1>4, LaterKeeps

LEMMA InvInit ==
  ASSUME Init
  PROVE  IInv
<1>1. rows \in Columns /\ masked \in BOOLEAN /\ isFloat \in BOOLEAN
  BY GroupAssumption DEF Init, Columns
<1>2. TypeOK
  BY <1>1 DEF Init, TypeOK, InTable
<1> QED BY <1>2 DEF Init, IInv, AccumulatePcs, InTable

LEMMA InvNext ==
  ASSUME IInv, SoundTable, [Next]_vars
  PROVE  IInv'
<1>1. CASE UNCHANGED vars
  <2>1. UNCHANGED <<input, phase, pc, table>>
    BY <1>1 DEF vars, input, table
  <2>2. Slots' = Slots /\ Threads' = Threads /\ Size' = Size
        /\ \A b : Key(b)' = Key(b) /\ Slot(b)' = Slot(b)
    BY <2>1, RowsStay DEF Slot, table
  <2>3. TypeOK' /\ AccumulatePcs'
    BY <2>1, <2>2 DEF IInv, TypeOK, AccumulatePcs, InTable, input, table
  <2>4. InTable' => TableInv'
    BY <2>1, <2>2 DEF IInv, TableInv, OwnersHold, SlotsOwned, PathsForeign,
       LostOccupied, KeysEntered, KeyHasOneSlot, InTable, Owner, table
  <2>5. InTable' => IdsInv'
    BY <2>1, <2>2 DEF IInv, IdsInv, IdsDense, IdsDrawn, IdsStored, InTable, table
  <2> QED BY <2>1, <2>3, <2>4, <2>5 DEF IInv, table
<1>2. CASE StartBuild
  BY <1>2, StartBuildKeeps
<1>3. CASE StartAccumulate
  <2>1. /\ phase = "build" \/ phase = "accumulate"
        /\ AllReturned /\ phase' = "accumulate"
        /\ UNCHANGED <<input, table>> /\ pc' = [b \in Threads |-> "probe"]
    BY <1>3 DEF StartAccumulate
  <2> QED BY <2>1, LaterKeeps
<1>4. CASE StartCompact
  <2>1. phase = "accumulate" /\ phase' = "compact" /\ UNCHANGED <<input, table, pc>>
    BY <1>4 DEF StartCompact
  <2>2. pc' \in [Threads -> {"probe", "swap", "returned"}]
    BY <2>1 DEF IInv, AccumulatePcs
  <2> QED BY <2>1, <2>2, LaterKeeps
<1>5. CASE Finish \/ DeviceError \/ FallBack
  <2>1. phase' \in {"pandas", "done"} /\ UNCHANGED <<input, counter>>
    BY <1>5 DEF Finish, DeviceError, FallBack, table
  <2> QED BY <2>1, AwayKeeps
<1>6. ASSUME NEW b \in Threads, BuildStep(b)
      PROVE  IInv'
  <2>1. CASE LoadSlot(b) \/ LoseSlot(b) \/ ReloadSlot(b)
    BY <2>1, LookKeeps
  <2>2. CASE GiveUp(b)
    BY <2>2, NeverFull DEF GiveUp, InTable
  <2>3. CASE Claim(b)
    BY <2>3, ClaimKeeps
  <2>4. CASE DrawId(b)
    BY <2>4, DrawKeeps
  <2>5. CASE StoreId(b)
    BY <2>5, StoreKeeps
  <2> QED BY <1>6, <2>1, <2>2, <2>3, <2>4, <2>5 DEF BuildStep
<1>7. ASSUME NEW b \in Threads, AccumulateStep(b)
      PROVE  IInv'
  BY <1>7, AccumulateKeeps
<1>8. ASSUME NEW s \in compacting, CompactSlot(s)
      PROVE  IInv'
  <2>1. phase = "compact" /\ phase' = "compact" /\ UNCHANGED <<input, table, pc>>
    BY <1>8 DEF CompactSlot
  <2>2. pc' \in [Threads -> {"probe", "swap", "returned"}]
    BY <2>1 DEF IInv, AccumulatePcs
  <2> QED BY <2>1, <2>2, LaterKeeps
<1>9. CASE Idle
  BY <1>1, <1>9 DEF Idle
<1> QED BY <1>1, <1>2, <1>3, <1>4, <1>5, <1>6, <1>7, <1>8, <1>9 DEF Next, HostStep

LEMMA Invariance ==
  SoundTable => (Spec => []IInv)
<1> SUFFICES ASSUME SoundTable PROVE Spec => []IInv
  OBVIOUS
<1>1. Init => IInv
  BY InvInit
<1>2. IInv /\ [Next]_vars => IInv'
  BY InvNext
<1> QED BY <1>1, <1>2, PTL DEF Spec

\* The accumulate kernels find the group of every row.
LEMMA InvRowsFindGroups ==
  ASSUME IInv
  PROVE  RowsFindGroups
<1> SUFFICES ASSUME (phase = "build" /\ AllReturned) \/ phase \in {"accumulate", "compact"},
                    NEW b \in Threads
             PROVE  Hits(Key(b)) # {}
  BY DEF RowsFindGroups
<1>1. InTable
  BY DEF InTable
<1>2. phase # "build" \/ pc[b] = "returned"
  BY DEF AllReturned
<1>3. PICK s \in Slots : tableKeys[s] = Encode[Key(b)]
  BY <1>1, <1>2 DEF IInv, TableInv, KeysEntered
<1>4. PICK p \in 0 .. Size - 1 : SlotAt(Key(b), p, Size) = s
  BY <1>1, TableFacts, SlotFacts DEF Slots
<1> QED BY <1>3, <1>4 DEF Hits

\* The occupied slots are numbered without a gap, and no two alike.
LEMMA InvGroupsNumbered ==
  ASSUME IInv, SoundTable
  PROVE  GroupsNumbered
<1> SUFFICES ASSUME (phase = "build" /\ AllReturned) \/ phase \in {"accumulate", "compact"}
             PROVE  /\ \A s \in Slots : tableKeys[s] # Empty => tableGids[s] \in 0 .. counter - 1
                    /\ \A s, u \in Slots :
                         /\ tableKeys[s] # Empty /\ tableKeys[u] # Empty
                         /\ tableGids[s] = tableGids[u]
                         => s = u
                    /\ \A g \in 0 .. counter - 1 :
                         \E s \in Slots : tableKeys[s] # Empty /\ tableGids[s] = g
  BY DEF GroupsNumbered
<1>1. InTable /\ TableInv /\ IdsInv
  BY DEF IInv, InTable
<1>2. \A b \in Threads : /\ Owner(b) <=> ids[b] # NoId
                         /\ ids[b] # NoId => tableGids[Slot(b)] = ids[b]
  BY <1>1 DEF Owner, AllReturned, IdsInv, IdsStored
<1>3. \A s \in Slots : tableKeys[s] # Empty =>
        \E b \in Threads : ids[b] # NoId /\ Slot(b) = s /\ tableGids[s] = ids[b]
  BY <1>1, <1>2 DEF TableInv, SlotsOwned
<1>4. ASSUME NEW g \in 0 .. counter - 1
      PROVE  \E s \in Slots : tableKeys[s] # Empty /\ tableGids[s] = g
  <2>1. PICK b \in Threads : ids[b] = g
    BY <1>1 DEF IdsInv, IdsDense
  <2>2. g # NoId
    BY DEF NoId
  <2>3. at[b] < Size /\ tableKeys[Slot(b)] = Encode[Key(b)] /\ tableGids[Slot(b)] = g
    BY <1>1, <1>2, <2>1, <2>2 DEF TableInv, OwnersHold
  <2>4. Slot(b) \in Slots /\ Encode[Key(b)] # Empty
    BY <1>1, <2>3, TableFacts DEF SoundTable
  <2> QED BY <2>3, <2>4
<1>5. \A s \in Slots : tableKeys[s] # Empty => tableGids[s] \in 0 .. counter - 1
  BY <1>1, <1>3 DEF IdsInv, IdsDense
<1>6. \A s, u \in Slots :
        /\ tableKeys[s] # Empty /\ tableKeys[u] # Empty
        /\ tableGids[s] = tableGids[u]
        => s = u
  BY <1>1, <1>3 DEF IdsInv, IdsDense
<1> QED BY <1>4, <1>5, <1>6

\* There are no more groups than rows.
LEMMA InvGroupsFit ==
  ASSUME IInv
  PROVE  GroupsFit
<1> SUFFICES ASSUME InTable PROVE counter <= Cardinality(Threads)
  BY DEF GroupsFit
<1>1. /\ IsFiniteSet(Threads) /\ Cardinality(Threads) \in Nat /\ counter \in Nat
  BY TableFacts, ThreadFacts
<1>2. PICK n \in Nat : n = counter
  BY <1>1
<1> DEFINE drawer == [g \in 0 .. n - 1 |-> CHOOSE b \in Threads : ids[b] = g]
<1>3. \A g \in 0 .. n - 1 : \E b \in Threads : ids[b] = g
  BY <1>2 DEF IInv, IdsInv, IdsDense
<1>4. \A g \in 0 .. n - 1 : drawer[g] \in Threads /\ ids[drawer[g]] = g
  BY <1>3
<1> HIDE DEF drawer
<1>5. drawer \in [0 .. n - 1 -> Threads]
  BY <1>4 DEF drawer
<1>6. /\ IsFiniteSet(0 .. n - 1)
      /\ Cardinality(0 .. n - 1) = IF 0 > n - 1 THEN 0 ELSE n - 1 - 0 + 1
  BY FS_Interval
<1>7. Cardinality(0 .. n - 1) = n
  BY <1>6
<1>8. Cardinality(0 .. n - 1) <= Cardinality(Threads)
  <2> SUFFICES ASSUME Cardinality(Threads) < Cardinality(0 .. n - 1) PROVE FALSE
    BY <1>1, <1>7
  <2>1. \E g, h \in 0 .. n - 1 : g # h /\ drawer[g] = drawer[h]
    BY <1>1, <1>5, <1>6, FS_PigeonHole
  <2> QED BY <1>4, <2>1
<1> QED BY <1>2, <1>7, <1>8

-----------------------------------------------------------------------------
(* The theorems *)

\* The states of the threads, the table and the group numbers keep their
\* types.
THEOREM GroupTypes ==
  SoundTable => (Spec => []TypeOK)
<1>1. IInv => TypeOK
  BY DEF IInv
<1> QED BY <1>1, Invariance, PTL

\* However the build threads interleave, a key gets one slot.
THEOREM GroupKeyHasOneSlot ==
  SoundTable => (Spec => []KeyHasOneSlot)
<1>1. IInv => KeyHasOneSlot
  BY DEF IInv, TableInv, KeyHasOneSlot
<1> QED BY <1>1, Invariance, PTL

\* After the build kernel, the accumulate kernels find the group of every
\* row.
THEOREM GroupRowsFindGroups ==
  SoundTable => (Spec => []RowsFindGroups)
<1>1. IInv => RowsFindGroups
  BY InvRowsFindGroups
<1> QED BY <1>1, Invariance, PTL

\* After the build kernel, the occupied slots are numbered without a gap, and
\* no two alike.
THEOREM GroupNumbers ==
  SoundTable => (Spec => []GroupsNumbered)
<1>1. CASE SoundTable
  <2>1. IInv => GroupsNumbered
    BY <1>1, InvGroupsNumbered
  <2> QED BY <1>1, <2>1, Invariance, PTL
<1> QED BY <1>1

\* The group counter never passes the number of rows, and with it the cells
\* of the accumulators and of the output.
THEOREM GroupCounterFits ==
  SoundTable => (Spec => []GroupsFit)
<1>1. IInv => GroupsFit
  BY InvGroupsFit
<1> QED BY <1>1, Invariance, PTL

-----------------------------------------------------------------------------
(* What is folded into an accumulator *)

\* A missing key or value carries a mask.  The code does not see to it: the
\* DataFrame's group-by makes no mask (_groupby_dispatch calls _make_series), so of
\* its calls this leaves out those with a NaN in the key or in the column, and the
\* masked calls are made to the engine itself.
NoBareNaN ==
  \A f \in Inputs : ~f.masked =>
    \A i \in DOMAIN f.rows : Class[f.rows[i].key] # NaN /\ f.rows[i].val # NaN

\* NaN is told from values and from sums of them.
NaNApart ==
  /\ NaN \notin -Half .. Half - 1
  /\ NaN \notin -(MaxRows * Half) .. MaxRows * Half

SoundValues == NoBareNaN /\ NaNApart

\* The frame is one of those that are looked at.
FromInput ==
  \E f \in Inputs : rows = f.rows /\ masked = f.masked /\ isFloat = f.isFloat

Finite == -Half .. Half - 1

\* What an accumulator of the pass for o holds, if no sum is a NaN.
Contents(o) == IF o = "count" \/ (o = "sum" /\ isFloat) THEN Int ELSE Finite

\* A row is folded into it.
FoldStep(o) ==
  [q \in Threads \X Contents(o) |->
     CASE o = "sum" -> IF isFloat THEN q[2] + rows[q[1]].val
                                  ELSE Wrapped(q[2] + rows[q[1]].val)
       [] o = "count" -> q[2] + 1
       [] o \in {"min", "max"} ->
            IF Keeps(o, q[2], rows[q[1]].val) THEN q[2] ELSE rows[q[1]].val]

\* The rows M folded in pass p.
Folded(p, M) == SetFold(M, Identity(p), FoldStep(Passes[p]))

\* The threads have keys and values.
LEMMA ThreadValues ==
  ASSUME SoundValues, FromInput
  PROVE  /\ Threads = {i \in DOMAIN rows : Class[rows[i].key] # NaN /\ rows[i].val # NaN}
         /\ \A b \in Threads : rows[b].val \in Finite
         /\ rows \in Columns /\ isFloat \in BOOLEAN /\ masked \in BOOLEAN
<1>1. PICK f \in Inputs : rows = f.rows /\ masked = f.masked /\ isFloat = f.isFloat
  BY DEF FromInput
<1>2. rows \in Seq(Row) /\ isFloat \in BOOLEAN /\ masked \in BOOLEAN
  BY <1>1, GroupAssumption
<1>3. Threads = {i \in DOMAIN rows : Class[rows[i].key] # NaN /\ rows[i].val # NaN}
  BY <1>1, <1>2 DEF Threads, SoundValues, NoBareNaN
<1>4. ASSUME NEW b \in Threads PROVE rows[b].val \in Finite
  <2>1. b \in DOMAIN rows /\ rows[b].val # NaN
    BY <1>3
  <2>2. rows[b] \in Row
    BY <1>2, <2>1
  <2> QED BY <2>1, <2>2 DEF Row, Values, Finite
<1>5. rows \in Columns
  BY <1>1 DEF Columns
<1> QED BY <1>2, <1>3, <1>4, <1>5

\* Sums that wrap around do so in any order.
LEMMA WrappedFacts ==
  /\ \A n \in Int : Wrapped(n) \in Finite
  /\ \A n \in Int, v \in Int : Wrapped(Wrapped(n) + v) = Wrapped(n + v)
<1> DEFINE d == 2 * Half
<1>1. d \in Nat \ {0} /\ Half \in Nat \ {0} /\ d = Half + Half
  BY GroupAssumption
<1> HIDE DEF d
<1>2. \A n : Wrapped(n) = ((n + Half) % d) - Half
  BY DEF Wrapped, d
<1>3. ASSUME NEW n \in Int PROVE Wrapped(n) \in Finite /\ (n + Half) % d \in 0 .. d - 1
  <2> DEFINE r == (n + Half) % d
  <2>1. r \in 0 .. d - 1
    BY <1>1
  <2> HIDE DEF r
  <2>2. r - Half \in -Half .. Half - 1
    BY <1>1, <2>1
  <2> QED BY <1>2, <2>1, <2>2 DEF r, Finite
<1>4. ASSUME NEW n \in Int, NEW v \in Int
      PROVE  Wrapped(Wrapped(n) + v) = Wrapped(n + v)
  <2> DEFINE r == (n + Half) % d
             a == n + Half
  <2>1. r \in Int /\ a \in Int
    BY <1>1, <1>3
  <2>2. (r + v) % d = (a + v) % d
    BY <1>1, <2>1, ModPlus
  <2>3. Wrapped(n) = r - Half
    BY <1>2
  <2> HIDE DEF r
  <2>4. (Wrapped(n) + v) + Half = r + v
    BY <1>1, <2>1, <2>3
  <2>5. a + v = (n + v) + Half
    BY <1>1
  <2>6. Wrapped(Wrapped(n) + v) = ((r + v) % d) - Half
    BY <1>2, <2>4
  <2>7. Wrapped(n + v) = ((a + v) % d) - Half
    BY <1>2, <2>5
  <2> QED BY <2>2, <2>6, <2>7
<1> QED BY <1>3, <1>4

\* The smaller, or larger, of two numbers is kept.
LEMMA KeepsFacts ==
  ASSUME SoundValues, NEW o \in {"min", "max"}, NEW x \in Finite, NEW v \in Finite
  PROVE  Keeps(o, x, v) <=> IF o = "min" THEN x <= v ELSE x >= v
BY DEF SoundValues, NaNApart, Finite, Keeps

AllOps == {"sum", "count", "min", "max"}

\* A row at a time, in any order.
LEMMA FoldStepFacts ==
  ASSUME SoundValues, FromInput, NEW o \in AllOps
  PROVE  /\ FoldStep(o) \in FoldSteps(Threads, Contents(o))
         /\ Commutes(FoldStep(o), Threads, Contents(o))
<1> DEFINE V == Contents(o)
           f == FoldStep(o)
<1>1. \A b \in Threads : rows[b].val \in Finite /\ rows[b].val \in Int
  BY ThreadValues, GroupAssumption DEF Finite
<1>2. isFloat \in BOOLEAN
  BY ThreadValues
<1>3. Finite \subseteq Int
  BY GroupAssumption DEF Finite
<1>4. CASE o = "sum" /\ isFloat
  <2>1. V = Int
    BY <1>4 DEF Contents
  <2>2. \A b \in Threads, x \in V : f[<<b, x>>] = x + rows[b].val
    BY <1>4 DEF FoldStep
  <2>3. f = [q \in Threads \X V |-> q[2] + rows[q[1]].val]
    BY <1>4 DEF FoldStep
  <2>4. f \in FoldSteps(Threads, V)
    BY <1>1, <2>1, <2>3 DEF FoldSteps
  <2>5. Commutes(f, Threads, V)
    <3> SUFFICES ASSUME NEW i \in Threads, NEW j \in Threads, NEW x \in V
                 PROVE  f[<<i, f[<<j, x>>]>>] = f[<<j, f[<<i, x>>]>>]
      BY DEF Commutes
    <3> HIDE DEF f, V
    <3>1. f[<<j, x>>] = x + rows[j].val /\ f[<<i, x>>] = x + rows[i].val
      BY <2>2
    <3>2. f[<<j, x>>] \in V /\ f[<<i, x>>] \in V
      BY <1>1, <2>1, <3>1
    <3>3. f[<<i, f[<<j, x>>]>>] = f[<<j, x>>] + rows[i].val
          /\ f[<<j, f[<<i, x>>]>>] = f[<<i, x>>] + rows[j].val
      BY <2>2, <3>2
    <3>4. (x + rows[j].val) + rows[i].val = (x + rows[i].val) + rows[j].val
      BY <1>1, <2>1
    <3> QED BY <3>1, <3>3, <3>4
  <2> QED BY <2>4, <2>5
<1>5. CASE o = "sum" /\ ~isFloat
  <2>1. V = Finite
    BY <1>5 DEF Contents
  <2>2. \A b \in Threads, x \in V : f[<<b, x>>] = Wrapped(x + rows[b].val)
    BY <1>5 DEF FoldStep
  <2>3. f = [q \in Threads \X V |-> Wrapped(q[2] + rows[q[1]].val)]
    BY <1>5 DEF FoldStep
  <2>4. f \in FoldSteps(Threads, V)
    <3>1. ASSUME NEW b \in Threads, NEW x \in V PROVE Wrapped(x + rows[b].val) \in V
      <4>1. x + rows[b].val \in Int
        <5>1. x \in Int /\ rows[b].val \in Int
          BY <1>1, <1>3, <2>1
        <5> QED BY <5>1
      <4> QED BY <2>1, <4>1, WrappedFacts
    <3> QED BY <2>3, <3>1 DEF FoldSteps
  <2>5. Commutes(f, Threads, V)
    <3> SUFFICES ASSUME NEW i \in Threads, NEW j \in Threads, NEW x \in V
                 PROVE  f[<<i, f[<<j, x>>]>>] = f[<<j, f[<<i, x>>]>>]
      BY DEF Commutes
    <3> HIDE DEF f, V
    <3>1. f[<<j, x>>] = Wrapped(x + rows[j].val) /\ f[<<i, x>>] = Wrapped(x + rows[i].val)
      BY <2>2
    <3>2. x \in Int /\ rows[i].val \in Int /\ rows[j].val \in Int
      BY <1>1, <1>3, <2>1
    <3>3. x + rows[j].val \in Int /\ x + rows[i].val \in Int
      BY <3>2
    <3>4. f[<<j, x>>] \in V /\ f[<<i, x>>] \in V
      BY <2>1, <3>1, <3>3, WrappedFacts
    <3>5. /\ f[<<i, f[<<j, x>>]>>] = Wrapped(Wrapped(x + rows[j].val) + rows[i].val)
          /\ f[<<j, f[<<i, x>>]>>] = Wrapped(Wrapped(x + rows[i].val) + rows[j].val)
      BY <2>2, <3>1, <3>4
    <3>6. /\ Wrapped(Wrapped(x + rows[j].val) + rows[i].val)
               = Wrapped((x + rows[j].val) + rows[i].val)
          /\ Wrapped(Wrapped(x + rows[i].val) + rows[j].val)
               = Wrapped((x + rows[i].val) + rows[j].val)
      BY <3>2, <3>3, WrappedFacts
    <3>7. (x + rows[j].val) + rows[i].val = (x + rows[i].val) + rows[j].val
      BY <3>2
    <3> QED BY <3>5, <3>6, <3>7
  <2> QED BY <2>4, <2>5
<1>6. CASE o = "count"
  <2>1. V = Int
    BY <1>6 DEF Contents
  <2>2. \A b \in Threads, x \in V : f[<<b, x>>] = x + 1
    BY <1>6 DEF FoldStep
  <2>3. f = [q \in Threads \X V |-> q[2] + 1]
    BY <1>6 DEF FoldStep
  <2>4. f \in FoldSteps(Threads, V)
    BY <2>1, <2>3 DEF FoldSteps
  <2>5. Commutes(f, Threads, V)
    <3> HIDE DEF f, V
    <3> QED BY <2>1, <2>2 DEF Commutes
  <2> QED BY <2>4, <2>5
<1>7. CASE o \in {"min", "max"}
  <2>1. V = Finite
    BY <1>7 DEF Contents
  <2>2. \A b \in Threads, x \in V :
          f[<<b, x>>] = IF Keeps(o, x, rows[b].val) THEN x ELSE rows[b].val
    BY <1>7 DEF FoldStep
  <2>3. f = [q \in Threads \X V |->
               IF Keeps(o, q[2], rows[q[1]].val) THEN q[2] ELSE rows[q[1]].val]
    BY <1>7 DEF FoldStep
  <2>4. f \in FoldSteps(Threads, V)
    BY <1>1, <2>1, <2>3 DEF FoldSteps
  <2>5. Commutes(f, Threads, V)
    <3> SUFFICES ASSUME NEW i \in Threads, NEW j \in Threads, NEW x \in V
                 PROVE  f[<<i, f[<<j, x>>]>>] = f[<<j, f[<<i, x>>]>>]
      BY DEF Commutes
    <3> HIDE DEF f, V
    <3>1. \A b \in Threads, y \in V :
            f[<<b, y>>] = IF (IF o = "min" THEN y <= rows[b].val ELSE y >= rows[b].val)
                            THEN y ELSE rows[b].val
      BY <1>1, <1>7, <2>1, <2>2, KeepsFacts
    <3>2. x \in Int /\ rows[i].val \in Int /\ rows[j].val \in Int
      BY <1>1, <1>3, <2>1
    <3>3. f[<<j, x>>] \in V /\ f[<<i, x>>] \in V
      BY <1>1, <2>1, <3>1
    <3>4. CASE o = "min"
      BY <3>1, <3>2, <3>3, <3>4
    <3>5. CASE o = "max"
      BY <3>1, <3>2, <3>3, <3>5
    <3> QED BY <1>7, <3>4, <3>5
  <2> QED BY <2>4, <2>5
<1> QED BY <1>2, <1>4, <1>5, <1>6, <1>7 DEF AllOps

\* A mean takes two passes, the others one.
LEMMA PassFacts ==
  ASSUME op \in Ops
  PROVE  /\ Len(Passes) \in Nat \ {0} /\ DOMAIN Passes = 1 .. Len(Passes)
         /\ \A p \in DOMAIN Passes :
              Passes[p] \in AllOps /\ Identity(p) \in Contents(Passes[p])
<1>1. op \in {"sum", "count", "min", "max", "mean"} /\ Half \in Nat \ {0}
  BY GroupAssumption
<1>2. CASE op = "mean"
  <2>1. Passes = <<"sum", "count">>
    BY <1>2 DEF Passes
  <2>2. \A p \in 1 .. 2 : Passes[p] \in {"sum", "count"}
    BY <2>1
  <2>3. \A p \in 1 .. 2 : Identity(p) = 0
    BY <2>2 DEF Identity
  <2>4. 0 \in Finite
    BY <1>1 DEF Finite
  <2>5. Len(Passes) = 2 /\ DOMAIN Passes = 1 .. 2
    BY <2>1
  <2> QED BY <2>2, <2>3, <2>4, <2>5 DEF AllOps, Contents
<1>3. CASE op # "mean"
  <2>1. Passes = <<op>>
    BY <1>3 DEF Passes
  <2>2. Len(Passes) = 1 /\ DOMAIN Passes = 1 .. 1 /\ Passes[1] = op
    BY <2>1
  <2>3. {0, Half - 1, -Half} \subseteq Finite
    BY <1>1 DEF Finite
  <2>4. op \in AllOps
    BY <1>1, <1>3 DEF AllOps
  <2>5. Identity(1) \in Contents(op)
    <3>1. op = "min" => Identity(1) = Half - 1
      BY <2>2 DEF Identity
    <3>2. op = "max" => Identity(1) = -Half
      BY <2>2 DEF Identity
    <3>3. op \in {"sum", "count"} => Identity(1) = 0
      BY <2>2 DEF Identity
    <3> QED BY <2>3, <2>4, <3>1, <3>2, <3>3 DEF AllOps, Contents
  <2> QED BY <2>2, <2>4, <2>5
<1> QED BY <1>2, <1>3

\* No row, and a row more.
LEMMA FoldedFacts ==
  ASSUME SoundValues, FromInput, op \in Ops, NEW p \in DOMAIN Passes
  PROVE  /\ Folded(p, {}) = Identity(p)
         /\ \A M \in SUBSET Threads : Folded(p, M) \in Contents(Passes[p])
         /\ \A M \in SUBSET Threads : \A b \in Threads \ M :
              Folded(p, M \cup {b}) = FoldStep(Passes[p])[<<b, Folded(p, M)>>]
<1> DEFINE I == Threads
           V == Contents(Passes[p])
           a == Identity(p)
           step == FoldStep(Passes[p])
<1>1. a \in V /\ step \in FoldSteps(I, V) /\ Commutes(step, I, V)
  BY PassFacts, FoldStepFacts
<1>2. \A M \in SUBSET I : IsFiniteSet(M)
  BY ThreadValues, ThreadFacts, FS_Subset
<1>3. /\ SetFold({}, a, step) = a
      /\ \A S \in SUBSET I : IsFiniteSet(S) =>
           /\ SetFold(S, a, step) \in V
           /\ \A i \in I \ S : SetFold(S \cup {i}, a, step) = step[<<i, SetFold(S, a, step)>>]
  <2> HIDE DEF I, V, a, step
  <2> QED BY <1>1, FoldSteady
<1>4. \A M : Folded(p, M) = SetFold(M, a, step)
  BY DEF Folded
<1> HIDE DEF I, V, a, step
<1>5. /\ Folded(p, {}) = a
      /\ \A M \in SUBSET I : Folded(p, M) \in V
      /\ \A M \in SUBSET I : \A b \in I \ M : Folded(p, M \cup {b}) = step[<<b, Folded(p, M)>>]
  BY <1>2, <1>3, <1>4
<1> QED BY <1>5 DEF I, V, a, step

\* A sum of n values lies between n times the least and n times the largest.
LEMMA SumsInRange ==
  ASSUME SoundValues, FromInput, op \in Ops, NEW p \in DOMAIN Passes, Passes[p] = "sum"
  PROVE  \A M \in SUBSET Threads : Folded(p, M) \in Int /\ Folded(p, M) # NaN
<1>1. /\ IsFiniteSet(Threads) /\ \A M \in SUBSET Threads : IsFiniteSet(M)
      /\ \A b \in Threads : rows[b].val \in Finite
      /\ isFloat \in BOOLEAN
  BY ThreadValues, ThreadFacts, FS_Subset
<1>2. Half \in Nat \ {0} /\ MaxRows \in Nat
  BY GroupAssumption
<1>3. CASE ~isFloat
  <2>1. \A M \in SUBSET Threads : Folded(p, M) \in Finite
    BY <1>3, FoldedFacts DEF Contents
  <2> QED BY <1>2, <2>1 DEF SoundValues, NaNApart, Finite
<1>4. CASE isFloat
  <2> DEFINE Bound(M) == Cardinality(M) * Half
             P == {M \in SUBSET Threads : Folded(p, M) \in -Bound(M) .. Bound(M)}
  <2>1. Identity(p) = 0
    BY DEF Identity
  <2>2. ASSUME NEW M \in SUBSET Threads, \A b \in M : M \ {b} \in P PROVE M \in P
    <3>1. CASE M = {}
      <4>1. Folded(p, M) = 0 /\ Cardinality(M) = 0
        BY <2>1, <3>1, FoldedFacts, FS_EmptySet
      <4>2. Bound(M) = 0
        BY <1>2, <4>1
      <4> QED BY <4>1, <4>2
    <3>2. CASE M # {}
      <4>1. PICK b \in M : TRUE
        BY <3>2
      <4> DEFINE N == M \ {b}
                 n == Cardinality(N)
                 x == Folded(p, N)
                 v == rows[b].val
      <4>2. N \in SUBSET Threads /\ b \in Threads \ N /\ N \cup {b} = M /\ N \in P
        BY <2>2, <4>1
      <4>3. n \in Nat /\ Cardinality(M) = n + 1
        <5>1. Cardinality(N) = Cardinality(M) - 1
          BY <1>1, <4>1, FS_RemoveElement
        <5>2. Cardinality(M) \in Nat /\ Cardinality(N) \in Nat
          BY <1>1, <4>2, FS_CardinalityType
        <5> QED BY <5>1, <5>2
      <4>4. x \in -(n * Half) .. n * Half /\ x \in Contents("sum")
        BY <4>2, FoldedFacts
      <4>5. Folded(p, M) = FoldStep("sum")[<<b, x>>]
        BY <4>2, FoldedFacts
      <4>6. FoldStep("sum")[<<b, x>>] = x + v
        BY <1>4, <4>2, <4>4 DEF FoldStep
      <4>7. v \in -Half .. Half - 1
        BY <1>1, <4>2 DEF Finite
      <4>8. Bound(M) = n * Half + Half
        BY <1>2, <4>3
      <4> DEFINE k == n * Half
      <4>9. k \in Nat
        BY <1>2, <4>3
      <4> HIDE DEF n, x, v, k, Bound, N
      <4>10. x + v \in -(k + Half) .. k + Half
        BY <1>2, <4>4, <4>7, <4>9 DEF k
      <4> QED BY <4>5, <4>6, <4>8, <4>10 DEF k
    <3> QED BY <3>1, <3>2
  <2>3. \A M \in SUBSET Threads : M \in P
    <3> HIDE DEF P
    <3> QED BY <1>1, <2>2, SubsetInduction
  <2>4. ASSUME NEW M \in SUBSET Threads PROVE Cardinality(M) \in 0 .. MaxRows
    <3>1. rows \in Seq(Row) /\ Len(rows) <= MaxRows
      BY ThreadValues, GroupAssumption DEF Columns
    <3> DEFINE n == Len(rows)
    <3>2. n \in Nat /\ DOMAIN rows = 1 .. n
      BY <3>1
    <3>3. M \in SUBSET (1 .. n)
      BY <3>2 DEF Threads
    <3> HIDE DEF n
    <3>4. IsFiniteSet(1 .. n) /\ Cardinality(1 .. n) = IF 1 > n THEN 0 ELSE n - 1 + 1
      BY <3>2, FS_Interval
    <3>5. Cardinality(M) <= Cardinality(1 .. n) /\ Cardinality(M) \in Nat
      BY <1>1, <3>3, <3>4, FS_Subset, FS_CardinalityType
    <3>6. n <= MaxRows
      BY <3>1 DEF n
    <3> QED BY <1>2, <3>2, <3>4, <3>5, <3>6
  <2>5. ASSUME NEW M \in SUBSET Threads PROVE Folded(p, M) \in Int /\ Folded(p, M) # NaN
    <3> DEFINE n == Cardinality(M)
               k == n * Half
               m == MaxRows * Half
    <3>1. n \in 0 .. MaxRows /\ Folded(p, M) \in -k .. k
      BY <2>3, <2>4
    <3>2. k \in Nat /\ m \in Nat /\ k <= m
      <4> HIDE DEF n
      <4>1. n \in Nat /\ MaxRows - n \in Nat
        BY <1>2, <3>1
      <4>2. (MaxRows - n) * Half \in Nat
        BY <1>2, <4>1
      <4>3. (MaxRows - n) * Half = MaxRows * Half - n * Half
        BY <1>2, <4>1
      <4>4. n * Half \in Nat /\ MaxRows * Half \in Nat
        BY <1>2, <4>1
      <4> QED BY <4>2, <4>3, <4>4
    <3>3. NaN \notin -m .. m
      BY DEF SoundValues, NaNApart
    <3> HIDE DEF k, m
    <3> QED BY <3>1, <3>2, <3>3
  <2> QED BY <2>5
<1> QED BY <1>1, <1>3, <1>4

\* The combination of the kernel is a step of the fold.
LEMMA FoldedAdds ==
  ASSUME SoundValues, FromInput, op \in Ops, NEW p \in DOMAIN Passes
  PROVE  \A M \in SUBSET Threads : \A b \in Threads \ M :
           Folded(p, M \cup {b}) = Combined(Passes[p], Folded(p, M), rows[b].val)
<1> SUFFICES ASSUME NEW M \in SUBSET Threads, NEW b \in Threads \ M
             PROVE  Folded(p, M \cup {b}) = Combined(Passes[p], Folded(p, M), rows[b].val)
  OBVIOUS
<1> DEFINE o == Passes[p]
           x == Folded(p, M)
           v == rows[b].val
<1>1. o \in AllOps /\ x \in Contents(o) /\ v \in Finite /\ v # NaN
  BY PassFacts, FoldedFacts, ThreadValues DEF SoundValues, NaNApart, Finite
<1>2. Folded(p, M \cup {b}) = FoldStep(o)[<<b, x>>]
  BY FoldedFacts
<1>3. o = "sum" => x # NaN
  BY SumsInRange
<1> HIDE DEF o, x
<1>4. FoldStep(o)[<<b, x>>] =
        CASE o = "sum" -> IF isFloat THEN x + v ELSE Wrapped(x + v)
          [] o = "count" -> x + 1
          [] o \in {"min", "max"} -> IF Keeps(o, x, v) THEN x ELSE v
  BY <1>1 DEF FoldStep
<1>5. o = "sum" => FoldStep(o)[<<b, x>>] = Combined(o, x, v)
  BY <1>1, <1>3, <1>4 DEF Combined, Plus
<1>6. o = "count" => FoldStep(o)[<<b, x>>] = Combined(o, x, v)
  BY <1>4 DEF Combined
<1>7. o \in {"min", "max"} => FoldStep(o)[<<b, x>>] = Combined(o, x, v)
  BY <1>4 DEF Combined
<1>8. FoldStep(o)[<<b, x>>] = Combined(o, x, v)
  BY <1>1, <1>5, <1>6, <1>7 DEF AllOps
<1> QED BY <1>2, <1>8 DEF o, x

-----------------------------------------------------------------------------
(* The accumulators *)

\* The rows of a slot's key, and those whose threads have returned.
RowsOf(s) == {b \in Threads : Encode[Key(b)] = tableKeys[s]}
Done(s) == {b \in RowsOf(s) : pc[b] = "returned"}

Occupied == {s \in Slots : tableKeys[s] # Empty}

\* Which pass runs in which phase.
PassInPlace ==
  /\ phase \in {"start", "build"} => pass = 0
  /\ phase = "accumulate" => pass \in DOMAIN Passes
  /\ phase = "compact" => pass = Len(Passes)

\* Nobody has accumulated in the passes to come.
LaterPasses ==
  /\ accum \in [DOMAIN Passes -> [Cells -> Int]]
  /\ \A p \in DOMAIN Passes : p > pass => \A g \in Cells : accum[p][g] = Identity(p)

\* Passes that are over have folded the rows of every group.
EarlierPasses ==
  \A p \in DOMAIN Passes : p < pass \/ phase = "compact" =>
    \A s \in Occupied : accum[p][tableGids[s]] = Folded(p, RowsOf(s))

\* The one that runs has folded those whose threads have returned.
CurrentPass == \A s \in Occupied : accum[pass][tableGids[s]] = Folded(pass, Done(s))

\* An accumulator only moves away from what a thread in the swap loop read.
SwapsFollow ==
  /\ expected = [b \in Threads |-> expected[b]]
  /\ \A b \in Threads : pc[b] = "swap" =>
       /\ Swaps(Passes[pass])
       /\ expected[b] \in Finite
       /\ Keeps(Passes[pass], Accumulator(b), expected[b])

AccumInv ==
  /\ FromInput
  /\ PassInPlace
  /\ InTable => LaterPasses /\ EarlierPasses
  /\ phase = "accumulate" => CurrentPass /\ SwapsFollow

\* What is said of a frame stays true of it.
LEMMA InputStays ==
  ASSUME UNCHANGED input
  PROVE  /\ Passes' = Passes /\ Cells' = Cells /\ Threads' = Threads /\ Slots' = Slots
         /\ Size' = Size
         /\ \A p : Identity(p)' = Identity(p)
         /\ \A p, M : Folded(p, M)' = Folded(p, M)
         /\ \A b : Key(b)' = Key(b)
         /\ FromInput' = FromInput
<1>1. rows' = rows /\ op' = op /\ masked' = masked /\ isFloat' = isFloat
  BY DEF input
<1>2. Threads' = Threads /\ Slots' = Slots /\ Size' = Size /\ \A b : Key(b)' = Key(b)
  BY RowsStay
<1>3. Passes' = Passes
  BY <1>1 DEF Passes
<1>4. \A p : Identity(p)' = Identity(p)
  BY <1>3 DEF Identity
<1>5. Cells' = Cells
  BY <1>2 DEF Cells
<1>6. \A o : FoldStep(o)' = FoldStep(o)
  BY <1>1, <1>2 DEF FoldStep, Contents, Wrapped, Keeps, Finite
<1>7. \A p, M : Folded(p, M)' = Folded(p, M)
  BY <1>3, <1>4, <1>6 DEF Folded
<1>8. FromInput' = FromInput
  BY <1>1 DEF FromInput
<1> QED BY <1>2, <1>3, <1>4, <1>5, <1>7, <1>8

\* Each group has a cell, and none shares it.
LEMMA CellFacts ==
  ASSUME IInv, SoundTable,
         (phase = "build" /\ AllReturned) \/ phase \in {"accumulate", "compact"}
  PROVE  /\ \A s \in Occupied : tableGids[s] \in Cells /\ tableGids[s] \in 0 .. counter - 1
         /\ \A s, u \in Occupied : tableGids[s] = tableGids[u] => s = u
         /\ \A g \in 0 .. counter - 1 : \E s \in Occupied : tableGids[s] = g
         /\ counter \in Nat
<1>1. GroupsNumbered /\ GroupsFit
  BY InvGroupsNumbered, InvGroupsFit
<1>2. InTable
  BY DEF InTable
<1>3. counter <= Cardinality(Threads) /\ counter \in Nat /\ Cardinality(Threads) \in Nat
  BY <1>1, <1>2, TableFacts, ThreadFacts DEF GroupsFit
<1>4. 0 .. counter - 1 \subseteq Cells
  BY <1>3 DEF Cells
<1>5. /\ \A s \in Occupied : tableGids[s] \in 0 .. counter - 1
      /\ \A s, u \in Occupied : tableGids[s] = tableGids[u] => s = u
      /\ \A g \in 0 .. counter - 1 : \E s \in Occupied : tableGids[s] = g
  BY <1>1 DEF GroupsNumbered, Occupied
<1> QED BY <1>3, <1>4, <1>5

\* hash_probe comes to the slot of a row's key.
LEMMA GroupFacts ==
  ASSUME IInv, SoundTable, phase = "accumulate", NEW b \in Threads
  PROVE  \E s \in Occupied :
           /\ GroupOf(b) = tableGids[s] /\ GroupOf(b) \in Cells
           /\ b \in RowsOf(s)
           /\ \A u \in Occupied : b \in RowsOf(u) => u = s
<1> DEFINE k == Key(b)
<1>1. InTable /\ Size \in Nat \ {0} /\ k \in Keys
  BY TableFacts DEF InTable
<1>2. Hits(k) # {} /\ Hits(k) \subseteq Nat
  BY <1>1, InvRowsFindGroups DEF RowsFindGroups, Hits
<1>3. \E p \in Hits(k) : \A q \in Hits(k) : p <= q
  <2> DEFINE H == Hits(k)
  <2>1. H # {} /\ H \in SUBSET Nat
    BY <1>2
  <2> HIDE DEF H
  <2>2. PICK n \in H : TRUE
    BY <2>1
  <2>3. \E p \in H : \A q \in H : p <= q
    BY <2>1, <2>2, LeastNumber
  <2> QED BY <2>3 DEF H
<1> DEFINE p == FirstHit(k)
<1>4. p \in Hits(k)
  BY <1>3 DEF FirstHit
<1> DEFINE s == SlotAt(k, p, Size)
<1>5. p \in 0 .. Size - 1 /\ tableKeys[s] = Encode[k]
  BY <1>4 DEF Hits
<1>6. s \in Slots
  <2> HIDE DEF p
  <2> QED BY <1>1, <1>5, SlotFacts DEF Slots
<1>7. Encode[k] # Empty
  BY <1>1 DEF SoundTable
<1>8. GroupOf(b) = tableGids[s]
  BY DEF GroupOf
<1> HIDE DEF s, p
<1>9. s \in Occupied /\ b \in RowsOf(s)
  BY <1>5, <1>6, <1>7 DEF Occupied, RowsOf
<1>10. \A u \in Occupied : b \in RowsOf(u) => u = s
  BY <1>1, <1>5, <1>6, <1>7 DEF Occupied, RowsOf, IInv, TableInv, KeyHasOneSlot
<1>11. tableGids[s] \in Cells
  BY <1>9, CellFacts
<1> QED BY <1>8, <1>9, <1>10, <1>11

\* What an accumulator holds for a minimum or maximum is a value.
LEMMA SwapFacts ==
  ASSUME SoundValues, FromInput, op \in Ops, NEW p \in DOMAIN Passes, Swaps(Passes[p])
  PROVE  /\ Passes[p] \in {"min", "max"} /\ Contents(Passes[p]) = Finite
         /\ \A x \in Finite : Keeps(Passes[p], x, x)
         /\ \A x, y, z \in Finite :
              Keeps(Passes[p], x, y) /\ Keeps(Passes[p], y, z) => Keeps(Passes[p], x, z)
         /\ \A x, v \in Finite : Combined(Passes[p], x, v) \in Finite
                                 /\ Keeps(Passes[p], Combined(Passes[p], x, v), x)
<1> DEFINE o == Passes[p]
<1>1. o \in {"min", "max"} /\ Contents(o) = Finite
  BY DEF Swaps, Contents
<1>2. Finite \subseteq Int
  BY GroupAssumption DEF Finite
<1> HIDE DEF o
<1>3. \A x, v \in Finite : Keeps(o, x, v) <=> IF o = "min" THEN x <= v ELSE x >= v
  BY <1>1, KeepsFacts
<1>4. \A x, v \in Finite : Combined(o, x, v) = IF Keeps(o, x, v) THEN x ELSE v
  BY <1>1 DEF Combined
<1>5. \A x \in Finite : Keeps(o, x, x)
  BY <1>2, <1>3
<1>6. ASSUME NEW x \in Finite, NEW y \in Finite, NEW z \in Finite,
             Keeps(o, x, y), Keeps(o, y, z)
      PROVE  Keeps(o, x, z)
  <2>1. x \in Int /\ y \in Int /\ z \in Int
    BY <1>2
  <2> QED BY <1>3, <1>6, <2>1
<1>7. ASSUME NEW x \in Finite, NEW v \in Finite
      PROVE  Combined(o, x, v) \in Finite /\ Keeps(o, Combined(o, x, v), x)
  <2>1. x \in Int /\ v \in Int
    BY <1>2
  <2>2. CASE Keeps(o, x, v)
    BY <1>4, <1>5, <2>2
  <2>3. CASE ~Keeps(o, x, v)
    <3>1. Combined(o, x, v) = v
      BY <1>4, <2>3
    <3>2. Keeps(o, v, x)
      BY <1>1, <1>3, <2>1, <2>3
    <3> QED BY <3>1, <3>2
  <2> QED BY <2>2, <2>3
<1> QED BY <1>1, <1>5, <1>6, <1>7 DEF o

\* The accumulator of a thread, while its pass runs.
LEMMA AccumulatorFacts ==
  ASSUME IInv, SoundTable, SoundValues, AccumInv, phase = "accumulate", NEW b \in Threads
  PROVE  /\ Accumulator(b) = accum[pass][GroupOf(b)]
         /\ Accumulator(b) \in Contents(Passes[pass])
         /\ GroupOf(b) \in Cells
<1>1. PICK s \in Occupied :
        GroupOf(b) = tableGids[s] /\ GroupOf(b) \in Cells /\ b \in RowsOf(s)
  BY GroupFacts
<1>2. pass \in DOMAIN Passes /\ CurrentPass /\ FromInput /\ op \in Ops
  BY DEF AccumInv, PassInPlace, IInv, TypeOK
<1>3. Accumulator(b) = accum[pass][GroupOf(b)]
  BY <1>1 DEF Accumulator
<1>4. accum[pass][GroupOf(b)] = Folded(pass, Done(s))
  BY <1>1, <1>2 DEF CurrentPass
<1>5. Done(s) \in SUBSET Threads
  BY DEF Done, RowsOf
<1> QED BY <1>1, <1>2, <1>3, <1>4, <1>5, FoldedFacts

\* A thread folds its row into its accumulator and returns.
LEMMA AddRow ==
  ASSUME IInv, SoundTable, SoundValues, AccumInv, phase = "accumulate",
         NEW b \in Threads, pc[b] # "returned",
         UNCHANGED <<input, phase, pass, table, expected>>, Returned(b),
         SetAccumulator(b, Combined(Passes[pass], Accumulator(b), rows[b].val))
  PROVE  AccumInv'
<1> DEFINE o == Passes[pass]
           v == Combined(o, Accumulator(b), rows[b].val)
<1>1. /\ Passes' = Passes /\ Cells' = Cells /\ Threads' = Threads /\ Slots' = Slots
      /\ \A p, M : Folded(p, M)' = Folded(p, M)
      /\ \A p : Identity(p)' = Identity(p)
      /\ \A c : Key(c)' = Key(c)
      /\ FromInput'
  BY InputStays DEF AccumInv
<1>2. /\ InTable /\ pass \in DOMAIN Passes /\ FromInput /\ op \in Ops
      /\ LaterPasses /\ EarlierPasses /\ CurrentPass /\ SwapsFollow
      /\ pc \in [Threads -> {"probe", "swap", "returned"}]
  BY DEF AccumInv, PassInPlace, IInv, TypeOK, InTable, AccumulatePcs
<1>3. UNCHANGED <<tableKeys, tableGids, phase, pass, expected>>
  BY DEF table
<1>4. pc' = [pc EXCEPT ![b] = "returned"]
  BY DEF Returned
<1>5. PICK s \in Occupied :
        /\ GroupOf(b) = tableGids[s] /\ GroupOf(b) \in Cells /\ b \in RowsOf(s)
        /\ \A u \in Occupied : b \in RowsOf(u) => u = s
  BY GroupFacts
<1>6. /\ Occupied' = Occupied
      /\ \A u : RowsOf(u)' = RowsOf(u)
      /\ \A c : GroupOf(c)' = GroupOf(c)
  <2>1. \A k : Hits(k)' = Hits(k)
    BY <1>3, InputStays DEF Hits
  <2>2. \A k : FirstHit(k)' = FirstHit(k)
    BY <2>1 DEF FirstHit
  <2>3. \A c : GroupOf(c)' = GroupOf(c)
    BY <1>1, <1>3, <2>2, InputStays DEF GroupOf
  <2> QED BY <1>1, <1>3, <2>3 DEF Occupied, RowsOf
<1>7. accum \in [DOMAIN Passes -> [Cells -> Int]]
  BY <1>2 DEF LaterPasses
<1>8. accum' = [accum EXCEPT ![pass] =
                  [g \in Cells |-> IF g = GroupOf(b) THEN v ELSE accum[pass][g]]]
  BY DEF SetAccumulator
<1>9. Accumulator(b) = Folded(pass, Done(s)) /\ Done(s) \in SUBSET Threads
      /\ b \in Threads \ Done(s)
  <2>1. Accumulator(b) = accum[pass][GroupOf(b)]
    BY AccumulatorFacts
  <2>2. accum[pass][GroupOf(b)] = Folded(pass, Done(s))
    BY <1>2, <1>5 DEF CurrentPass
  <2> QED BY <2>1, <2>2 DEF Done, RowsOf
<1>10. v = Folded(pass, Done(s) \cup {b}) /\ v \in Contents(o)
  <2>1. v = Folded(pass, Done(s) \cup {b})
    BY <1>2, <1>9, FoldedAdds
  <2>2. Done(s) \cup {b} \in SUBSET Threads
    BY <1>9
  <2> QED BY <1>2, <2>1, <2>2, FoldedFacts
<1>11. v \in Int
  <2>1. Contents(o) \subseteq Int
    BY GroupAssumption DEF Contents, Finite
  <2> QED BY <1>10, <2>1
<1> HIDE DEF v
<1>12. /\ accum' \in [DOMAIN Passes -> [Cells -> Int]]
       /\ \A p \in DOMAIN Passes : p # pass => accum'[p] = accum[p]
       /\ \A g \in Cells : accum'[pass][g] = IF g = GroupOf(b) THEN v ELSE accum[pass][g]
  BY <1>2, <1>7, <1>8, <1>11
<1>13. ASSUME NEW u \in Occupied
       PROVE  Done(u)' = IF u = s THEN Done(u) \cup {b} ELSE Done(u)
  <2>1. Done(u)' = {c \in RowsOf(u) : pc'[c] = "returned"}
    BY <1>6 DEF Done
  <2>2. b \in RowsOf(u) <=> u = s
    BY <1>5
  <2>3. \A c \in RowsOf(u) : pc'[c] = IF c = b THEN "returned" ELSE pc[c]
    BY <1>2, <1>4 DEF RowsOf
  <2> QED BY <2>1, <2>2, <2>3 DEF Done
<1>14. \A u \in Occupied : tableGids[u] \in Cells /\ (tableGids[u] = GroupOf(b) => u = s)
  BY <1>5, CellFacts
<1>15. CurrentPass'
  <2> SUFFICES ASSUME NEW u \in Occupied
               PROVE  accum'[pass][tableGids[u]] = Folded(pass, Done(u)')
    BY <1>1, <1>3, <1>6 DEF CurrentPass
  <2>1. CASE u = s
    BY <1>5, <1>10, <1>12, <1>13, <2>1
  <2>2. CASE u # s
    BY <1>2, <1>12, <1>13, <1>14, <2>2 DEF CurrentPass
  <2> QED BY <2>1, <2>2
<1>16. LaterPasses'
  <2>1. \A p \in DOMAIN Passes : p > pass => accum'[p] = accum[p]
    BY <1>2, <1>12, PassFacts
  <2> QED BY <1>1, <1>2, <1>3, <1>12, <2>1 DEF LaterPasses
<1>17. EarlierPasses'
  <2>1. \A p \in DOMAIN Passes : p < pass => accum'[p] = accum[p]
    BY <1>2, <1>12, PassFacts
  <2> QED BY <1>1, <1>2, <1>3, <1>6, <2>1 DEF EarlierPasses
<1>18. SwapsFollow'
  <2> SUFFICES ASSUME NEW c \in Threads, pc'[c] = "swap"
               PROVE  /\ Swaps(o)' /\ (expected[c] \in Finite)'
                      /\ Keeps(o, Accumulator(c)', expected[c])
    BY <1>1, <1>2, <1>3 DEF SwapsFollow, Keeps
  <2>1. pc[c] = "swap" /\ c # b
    BY <1>2, <1>4
  <2>2. Swaps(o) /\ expected[c] \in Finite /\ Keeps(o, Accumulator(c), expected[c])
    BY <1>2, <2>1 DEF SwapsFollow
  <2>3. Swaps(o)' /\ (expected[c] \in Finite)'
    BY <1>1, <1>3, <2>2 DEF Swaps, input, Finite
  <2>4. Accumulator(c) = accum[pass][GroupOf(c)] /\ GroupOf(c) \in Cells
    BY AccumulatorFacts
  <2>5. Accumulator(c)' = accum'[pass][GroupOf(c)]
    BY <1>1, <1>3, <1>6, <2>4 DEF Accumulator
  <2>6. CASE GroupOf(c) # GroupOf(b)
    BY <1>12, <2>2, <2>3, <2>4, <2>5, <2>6
  <2>7. CASE GroupOf(c) = GroupOf(b)
    <3>1. Accumulator(c)' = v /\ Accumulator(c) = Accumulator(b)
      BY <1>12, <2>4, <2>5, <2>7, AccumulatorFacts
    <3>2. Accumulator(b) \in Finite /\ v \in Finite /\ rows[b].val \in Finite
      BY <1>2, <1>10, <2>2, SwapFacts, AccumulatorFacts, ThreadValues
    <3>3. Keeps(o, v, Accumulator(b))
      BY <1>2, <2>2, <3>2, SwapFacts DEF v
    <3>4. Keeps(o, v, expected[c])
      BY <1>2, <2>2, <3>1, <3>2, <3>3, SwapFacts
    <3> QED BY <2>3, <3>1, <3>4
  <2> QED BY <2>3, <2>6, <2>7
<1>19. PassInPlace'
  BY <1>1, <1>2, <1>3 DEF AccumInv, PassInPlace
<1> QED BY <1>1, <1>15, <1>16, <1>17, <1>18, <1>19 DEF AccumInv

\* A thread reads its accumulator to compare and swap it.
LEMMA ReadAccumulator ==
  ASSUME IInv, SoundTable, SoundValues, AccumInv, phase = "accumulate",
         NEW b \in Threads, pc[b] # "returned", Swaps(Passes[pass]),
         UNCHANGED <<input, phase, pass, table, accum>>,
         pc' = [pc EXCEPT ![b] = "swap"],
         expected' = [expected EXCEPT ![b] = Accumulator(b)]
  PROVE  AccumInv'
<1> DEFINE o == Passes[pass]
<1>1. /\ Passes' = Passes /\ Cells' = Cells /\ Threads' = Threads /\ Slots' = Slots
      /\ \A p, M : Folded(p, M)' = Folded(p, M)
      /\ \A p : Identity(p)' = Identity(p)
      /\ \A c : Key(c)' = Key(c)
      /\ FromInput'
  BY InputStays DEF AccumInv
<1>2. /\ InTable /\ pass \in DOMAIN Passes /\ FromInput /\ op \in Ops
      /\ LaterPasses /\ EarlierPasses /\ CurrentPass /\ SwapsFollow
      /\ pc \in [Threads -> {"probe", "swap", "returned"}]
  BY DEF AccumInv, PassInPlace, IInv, TypeOK, InTable, AccumulatePcs
<1>3. UNCHANGED <<tableKeys, tableGids, phase, pass, accum>>
  BY DEF table
<1>4. /\ Occupied' = Occupied
      /\ \A u : RowsOf(u)' = RowsOf(u)
      /\ \A c : GroupOf(c)' = GroupOf(c)
  <2>1. \A k : Hits(k)' = Hits(k)
    BY <1>3, InputStays DEF Hits
  <2>2. \A k : FirstHit(k)' = FirstHit(k)
    BY <2>1 DEF FirstHit
  <2>3. \A c : GroupOf(c)' = GroupOf(c)
    BY <1>1, <1>3, <2>2, InputStays DEF GroupOf
  <2> QED BY <1>1, <1>3, <2>3 DEF Occupied, RowsOf
<1>5. \A u : Done(u)' = Done(u)
  <2>1. \A u : \A c \in RowsOf(u) : pc'[c] = "returned" <=> pc[c] = "returned"
    BY <1>2 DEF RowsOf
  <2> QED BY <1>4, <2>1 DEF Done
<1>6. CurrentPass'
  BY <1>1, <1>2, <1>3, <1>4, <1>5 DEF CurrentPass
<1>7. LaterPasses' /\ EarlierPasses'
  BY <1>1, <1>2, <1>3, <1>4 DEF LaterPasses, EarlierPasses
<1>8. SwapsFollow'
  <2>1. expected' = [c \in Threads' |-> expected'[c]]
    BY <1>1, <1>2 DEF SwapsFollow
  <2>2. ASSUME NEW c \in Threads, pc'[c] = "swap"
        PROVE  /\ Swaps(o)' /\ expected'[c] \in Finite
               /\ Keeps(o, Accumulator(c)', expected'[c])
    <3>1. Accumulator(c)' = Accumulator(c)
      BY <1>1, <1>3, <1>4 DEF Accumulator
    <3>2. Swaps(o)'
      BY <1>1, <1>3 DEF Swaps, input
    <3>3. CASE c = b
      <4>1. expected'[c] = Accumulator(b)
        BY <1>2, <3>3 DEF SwapsFollow
      <4>2. Accumulator(b) \in Finite
        BY <1>2, AccumulatorFacts, SwapFacts
      <4>3. Keeps(o, Accumulator(b), Accumulator(b))
        BY <1>2, <4>2, SwapFacts
      <4> QED BY <3>1, <3>2, <3>3, <4>1, <4>2, <4>3
    <3>4. CASE c # b
      <4>1. expected'[c] = expected[c] /\ pc[c] = "swap"
        BY <1>2, <2>2, <3>4 DEF SwapsFollow
      <4>2. expected[c] \in Finite /\ Keeps(o, Accumulator(c), expected[c])
        BY <1>2, <4>1 DEF SwapsFollow
      <4> QED BY <3>1, <3>2, <4>1, <4>2
    <3> QED BY <3>3, <3>4
  <2> QED BY <1>1, <1>3, <2>1, <2>2 DEF SwapsFollow, Keeps, Finite
<1>9. PassInPlace'
  BY <1>1, <1>2, <1>3 DEF AccumInv, PassInPlace
<1> QED BY <1>1, <1>6, <1>7, <1>8, <1>9 DEF AccumInv

\* The steps of the accumulate kernels.
LEMMA AccumulateStepFolds ==
  ASSUME IInv, SoundTable, SoundValues, AccumInv, NEW b \in Threads, AccumulateStep(b)
  PROVE  AccumInv'
<1> DEFINE o == Passes[pass]
           v == rows[b].val
           c == Combined(o, Accumulator(b), v)
<1>1. phase = "accumulate" /\ pc[b] # "returned"
  BY DEF AccumulateStep, SkipRow, FetchAccumulate, LoadAccumulator, Settle, Swap,
         LoseSwap, Accumulating, Swapping
<1>2. /\ pass \in DOMAIN Passes /\ FromInput /\ op \in Ops /\ SwapsFollow
      /\ pc \in [Threads -> {"probe", "swap", "returned"}]
      /\ accum \in [DOMAIN Passes -> [Cells -> Int]]
  BY <1>1 DEF AccumInv, PassInPlace, IInv, TypeOK, InTable, AccumulatePcs, LaterPasses
<1>3. CASE SkipRow(b)
  BY <1>1, <1>3, InvRowsFindGroups DEF SkipRow, RowsFindGroups
<1>4. CASE FetchAccumulate(b)
  BY <1>1, <1>4, AddRow DEF FetchAccumulate
<1>5. CASE LoadAccumulator(b)
  BY <1>1, <1>5, ReadAccumulator DEF LoadAccumulator
<1>6. ASSUME pc[b] = "swap"
      PROVE  /\ Swaps(o) /\ expected[b] \in Finite /\ Accumulator(b) \in Finite
             /\ v \in Finite /\ Keeps(o, Accumulator(b), expected[b])
             /\ c = IF Keeps(o, Accumulator(b), v) THEN Accumulator(b) ELSE v
  <2>1. Swaps(o) /\ expected[b] \in Finite /\ Keeps(o, Accumulator(b), expected[b])
    BY <1>2, <1>6 DEF SwapsFollow
  <2>2. o \in {"min", "max"} /\ Accumulator(b) \in Finite /\ v \in Finite
    BY <1>1, <1>2, <2>1, SwapFacts, AccumulatorFacts, ThreadValues
  <2>3. c = IF Keeps(o, Accumulator(b), v) THEN Accumulator(b) ELSE v
    BY <2>2 DEF Combined
  <2> QED BY <2>1, <2>2, <2>3
<1>7. CASE Settle(b)
  <2>1. pc[b] = "swap" /\ Keeps(o, expected[b], v) /\ Returned(b)
        /\ UNCHANGED <<input, phase, pass, table, accum, expected>>
    BY <1>7 DEF Settle, Swapping, results
  <2>2. Keeps(o, Accumulator(b), v)
    BY <1>2, <1>6, <2>1, SwapFacts
  <2>3. c = Accumulator(b)
    BY <1>6, <2>1, <2>2
  <2>4. Accumulator(b) = accum[pass][GroupOf(b)]
    BY <1>1, AccumulatorFacts
  <2>5. accum[pass] = [g \in Cells |-> IF g = GroupOf(b) THEN c ELSE accum[pass][g]]
    BY <1>2, <2>3, <2>4
  <2> HIDE DEF c
  <2>6. SetAccumulator(b, c)
    BY <1>2, <2>1, <2>5 DEF SetAccumulator
  <2> QED BY <1>1, <2>1, <2>6, AddRow DEF c
<1>8. CASE Swap(b)
  <2>1. /\ pc[b] = "swap" /\ ~Keeps(o, expected[b], v) /\ Returned(b)
        /\ Accumulator(b) = expected[b] /\ SetAccumulator(b, v)
        /\ UNCHANGED <<input, phase, pass, table, expected>>
    BY <1>8 DEF Swap, Swapping, MaySwap
  <2>2. c = v
    BY <1>6, <2>1
  <2>3. SetAccumulator(b, c)
    <3> HIDE DEF c
    <3> QED BY <2>1, <2>2
  <2> QED BY <1>1, <2>1, <2>3, AddRow
<1>9. CASE LoseSwap(b)
  <2>1. /\ pc[b] = "swap" /\ pc' = pc
        /\ expected' = [expected EXCEPT ![b] = Accumulator(b)]
        /\ UNCHANGED <<input, phase, pass, table, accum>>
    BY <1>9 DEF LoseSwap, Swapping
  <2>2. pc' = [pc EXCEPT ![b] = "swap"]
    BY <1>2, <2>1
  <2> QED BY <1>1, <1>6, <2>1, <2>2, ReadAccumulator
<1> QED BY <1>3, <1>4, <1>5, <1>7, <1>8, <1>9 DEF AccumulateStep

\* The next pass begins with accumulators nobody has touched.
LEMMA StartAccumulateFolds ==
  ASSUME IInv, SoundTable, SoundValues, AccumInv, StartAccumulate
  PROVE  AccumInv'
<1>1. /\ Passes' = Passes /\ Cells' = Cells /\ Threads' = Threads /\ Slots' = Slots
      /\ \A p, M : Folded(p, M)' = Folded(p, M)
      /\ \A p : Identity(p)' = Identity(p)
      /\ \A c : Key(c)' = Key(c)
      /\ FromInput'
  BY InputStays DEF AccumInv, StartAccumulate
<1>2. /\ phase = "build" \/ (phase = "accumulate" /\ pass < Len(Passes))
      /\ AllReturned /\ phase' = "accumulate" /\ pass' = pass + 1
      /\ pc' = [b \in Threads |-> "probe"] /\ expected' = [b \in Threads |-> 0]
      /\ UNCHANGED <<tableKeys, tableGids, accum>>
  BY DEF StartAccumulate, table
<1>3. op \in Ops /\ FromInput /\ LaterPasses /\ EarlierPasses /\ PassInPlace /\ InTable
  BY <1>2 DEF AccumInv, IInv, TypeOK, InTable
<1>4. DOMAIN Passes = 1 .. Len(Passes) /\ Len(Passes) \in Nat \ {0}
  BY <1>3, PassFacts
<1>5. pass \in 0 .. Len(Passes) - 1 /\ (phase = "build" => pass = 0)
      /\ (phase = "accumulate" => pass \in DOMAIN Passes)
  BY <1>2, <1>3, <1>4 DEF PassInPlace
<1>6. pass' \in DOMAIN Passes /\ pass' > pass
  BY <1>2, <1>4, <1>5
<1>7. Occupied' = Occupied /\ \A u : RowsOf(u)' = RowsOf(u)
  BY <1>1, <1>2 DEF Occupied, RowsOf
<1>8. CurrentPass'
  <2> SUFFICES ASSUME NEW s \in Occupied
               PROVE  accum[pass'][tableGids[s]] = Folded(pass', Done(s)')
    BY <1>1, <1>2, <1>7 DEF CurrentPass
  <2>1. Done(s)' = {}
    BY <1>1, <1>2, <1>7 DEF Done, RowsOf
  <2>2. tableGids[s] \in Cells
    BY <1>2, CellFacts
  <2>3. accum[pass'][tableGids[s]] = Identity(pass')
    BY <1>3, <1>6, <2>2 DEF LaterPasses
  <2>4. Folded(pass', {}) = Identity(pass')
    BY <1>3, <1>6, FoldedFacts
  <2> QED BY <2>1, <2>3, <2>4
<1>9. LaterPasses'
  <2>1. \A p \in DOMAIN Passes : p > pass' => p > pass
    BY <1>2, <1>4, <1>5
  <2> QED BY <1>1, <1>2, <1>3, <2>1 DEF LaterPasses
<1>10. EarlierPasses'
  <2> SUFFICES ASSUME NEW p \in DOMAIN Passes, p < pass', NEW s \in Occupied
               PROVE  accum[p][tableGids[s]] = Folded(p, RowsOf(s))
    BY <1>1, <1>2, <1>7 DEF EarlierPasses
  <2>1. p < pass \/ p = pass
    BY <1>2, <1>4, <1>5
  <2>2. CASE p < pass
    BY <1>3, <2>2 DEF EarlierPasses
  <2>3. CASE p = pass
    <3>1. phase = "accumulate" /\ CurrentPass
      BY <1>2, <1>4, <1>5, <2>3 DEF AccumInv
    <3>2. Done(s) = RowsOf(s)
      BY <1>2 DEF Done, RowsOf, AllReturned
    <3> QED BY <2>3, <3>1, <3>2 DEF CurrentPass
  <2> QED BY <2>1, <2>2, <2>3
<1>11. SwapsFollow'
  BY <1>1, <1>2 DEF SwapsFollow
<1>12. PassInPlace'
  BY <1>1, <1>2, <1>6 DEF PassInPlace
<1> QED BY <1>1, <1>8, <1>9, <1>10, <1>11, <1>12 DEF AccumInv

\* After the last pass every accumulator has all rows of its group.
LEMMA StartCompactFolds ==
  ASSUME IInv, SoundTable, SoundValues, AccumInv, StartCompact
  PROVE  AccumInv'
<1>1. /\ Passes' = Passes /\ Cells' = Cells /\ Threads' = Threads /\ Slots' = Slots
      /\ \A p, M : Folded(p, M)' = Folded(p, M)
      /\ \A p : Identity(p)' = Identity(p)
      /\ \A c : Key(c)' = Key(c)
      /\ FromInput'
  BY InputStays DEF AccumInv, StartCompact
<1>2. /\ phase = "accumulate" /\ pass = Len(Passes) /\ AllReturned /\ phase' = "compact"
      /\ UNCHANGED <<tableKeys, tableGids, accum, pass>>
  BY DEF StartCompact, table
<1>3. op \in Ops /\ LaterPasses /\ EarlierPasses /\ CurrentPass
  BY <1>2 DEF AccumInv, IInv, TypeOK, InTable
<1>4. DOMAIN Passes = 1 .. Len(Passes) /\ Len(Passes) \in Nat \ {0}
  BY <1>3, PassFacts
<1>5. Occupied' = Occupied /\ \A u : RowsOf(u)' = RowsOf(u)
  BY <1>1, <1>2 DEF Occupied, RowsOf
<1>6. LaterPasses'
  BY <1>1, <1>2, <1>3 DEF LaterPasses
<1>7. EarlierPasses'
  <2> SUFFICES ASSUME NEW p \in DOMAIN Passes, NEW s \in Occupied
               PROVE  accum[p][tableGids[s]] = Folded(p, RowsOf(s))
    BY <1>1, <1>2, <1>5 DEF EarlierPasses
  <2>1. p < pass \/ p = pass
    BY <1>2, <1>4
  <2>2. Done(s) = RowsOf(s)
    BY <1>2 DEF Done, RowsOf, AllReturned
  <2> QED BY <1>3, <2>1, <2>2 DEF EarlierPasses, CurrentPass
<1> QED BY <1>1, <1>2, <1>6, <1>7 DEF AccumInv, PassInPlace

LEMMA AccumInit == Init => AccumInv
  BY DEF Init, AccumInv, FromInput, PassInPlace, InTable

LEMMA AccumNext ==
  ASSUME IInv, SoundTable, SoundValues, AccumInv, [Next]_vars
  PROVE  AccumInv'
<1>1. ASSUME UNCHANGED <<input, phase, pass, pc, table, accum, expected>>
      PROVE  AccumInv'
  <2>1. /\ Passes' = Passes /\ Cells' = Cells /\ Threads' = Threads /\ Slots' = Slots
        /\ \A p, M : Folded(p, M)' = Folded(p, M)
        /\ \A p : Identity(p)' = Identity(p)
        /\ \A c : Key(c)' = Key(c)
        /\ FromInput'
    BY <1>1, InputStays DEF AccumInv
  <2>2. UNCHANGED <<tableKeys, tableGids>>
    BY <1>1 DEF table
  <2>3. /\ Occupied' = Occupied
        /\ \A u : RowsOf(u)' = RowsOf(u) /\ Done(u)' = Done(u)
        /\ \A c : GroupOf(c)' = GroupOf(c)
    <3>1. \A k : Hits(k)' = Hits(k)
      BY <1>1, <2>2, InputStays DEF Hits
    <3>2. \A k : FirstHit(k)' = FirstHit(k)
      BY <3>1 DEF FirstHit
    <3>3. \A c : GroupOf(c)' = GroupOf(c)
      BY <1>1, <2>1, <2>2, <3>2, InputStays DEF GroupOf
    <3>4. Occupied' = Occupied /\ \A u : RowsOf(u)' = RowsOf(u)
      BY <2>1, <2>2 DEF Occupied, RowsOf
    <3> QED BY <1>1, <3>3, <3>4 DEF Done
  <2>4. InTable' <=> InTable
    BY <1>1 DEF InTable
  <2>5. InTable => LaterPasses' /\ EarlierPasses'
    BY <1>1, <2>1, <2>2, <2>3 DEF AccumInv, LaterPasses, EarlierPasses
  <2>6. phase = "accumulate" => CurrentPass'
    BY <1>1, <2>1, <2>2, <2>3 DEF AccumInv, CurrentPass
  <2>7. phase = "accumulate" => SwapsFollow'
    <3> SUFFICES ASSUME phase = "accumulate" PROVE SwapsFollow'
      OBVIOUS
    <3>1. SwapsFollow
      BY DEF AccumInv
    <3>2. \A c : Accumulator(c)' = Accumulator(c)
      BY <1>1, <2>1, <2>3 DEF Accumulator
    <3>3. \A o : Swaps(o)' = Swaps(o)
      BY <1>1 DEF Swaps, input
    <3> QED BY <1>1, <2>1, <3>1, <3>2, <3>3 DEF SwapsFollow
  <2>8. PassInPlace'
    BY <1>1, <2>1 DEF AccumInv, PassInPlace
  <2> QED BY <1>1, <2>1, <2>4, <2>5, <2>6, <2>7, <2>8 DEF AccumInv
<1>2. CASE UNCHANGED vars \/ Idle
  BY <1>1, <1>2 DEF vars, Idle, input, table
<1>3. CASE StartBuild
  <2>1. /\ phase = "start" /\ phase' = "build" /\ UNCHANGED <<input, pass>>
        /\ accum' = [p \in DOMAIN Passes |-> [g \in Cells |-> Identity(p)]]
    BY <1>3 DEF StartBuild
  <2>2. /\ Passes' = Passes /\ Cells' = Cells /\ \A p : Identity(p)' = Identity(p)
        /\ FromInput'
    BY <2>1, InputStays DEF AccumInv
  <2>3. pass = 0 /\ op \in Ops
    BY <2>1 DEF AccumInv, PassInPlace, IInv, TypeOK
  <2>4. \A p \in DOMAIN Passes : Identity(p) \in Int /\ ~(p < 0) /\ p > 0
    <3>1. Contents("sum") \subseteq Int /\ \A o : Contents(o) \subseteq Int
      BY GroupAssumption DEF Contents, Finite
    <3> QED BY <2>3, <3>1, PassFacts
  <2>5. LaterPasses'
    BY <2>1, <2>2, <2>4 DEF LaterPasses
  <2>6. EarlierPasses'
    BY <2>1, <2>2, <2>3, <2>4 DEF EarlierPasses
  <2>7. PassInPlace'
    BY <2>1, <2>3 DEF PassInPlace
  <2> QED BY <2>1, <2>2, <2>5, <2>6, <2>7 DEF AccumInv
<1>4. CASE StartAccumulate
  BY <1>4, StartAccumulateFolds
<1>5. CASE StartCompact
  BY <1>5, StartCompactFolds
<1>6. CASE Finish \/ DeviceError \/ FallBack
  <2>1. phase' \in {"pandas", "done"} /\ UNCHANGED input
    BY <1>6 DEF Finish, DeviceError, FallBack
  <2>2. FromInput'
    BY <2>1, InputStays DEF AccumInv
  <2> QED BY <2>1, <2>2 DEF AccumInv, InTable, PassInPlace
<1>7. ASSUME NEW b \in Threads, BuildStep(b) PROVE AccumInv'
  <2>1. phase = "build" /\ UNCHANGED <<input, phase, pass, accum, expected>>
    BY <1>7 DEF BuildStep, LoadSlot, GiveUp, Claim, LoseSlot, ReloadSlot, DrawId, StoreId,
                Probing, results, table
  <2>2. /\ Passes' = Passes /\ Cells' = Cells /\ \A p : Identity(p)' = Identity(p)
        /\ FromInput'
    BY <2>1, InputStays DEF AccumInv
  <2>3. LaterPasses /\ pass = 0 /\ op \in Ops
    BY <2>1 DEF AccumInv, PassInPlace, IInv, TypeOK, InTable
  <2>4. \A p \in DOMAIN Passes : ~(p < 0)
    BY <2>3, PassFacts
  <2>5. LaterPasses'
    BY <2>1, <2>2, <2>3 DEF LaterPasses
  <2>6. EarlierPasses'
    BY <2>1, <2>2, <2>3, <2>4 DEF EarlierPasses
  <2>7. PassInPlace'
    BY <2>1, <2>3 DEF PassInPlace
  <2> QED BY <2>1, <2>2, <2>5, <2>6, <2>7 DEF AccumInv
<1>8. ASSUME NEW b \in Threads, AccumulateStep(b) PROVE AccumInv'
  BY <1>8, AccumulateStepFolds
<1>9. ASSUME NEW s \in compacting, CompactSlot(s) PROVE AccumInv'
  BY <1>1, <1>9 DEF CompactSlot
<1> QED BY <1>2, <1>3, <1>4, <1>5, <1>6, <1>7, <1>8, <1>9 DEF Next, HostStep

LEMMA AccumInvariance == SoundTable /\ SoundValues => (Spec => [](IInv /\ AccumInv))
<1> SUFFICES ASSUME SoundTable, SoundValues PROVE Spec => [](IInv /\ AccumInv)
  OBVIOUS
<1>1. Init => IInv /\ AccumInv
  BY InvInit, AccumInit
<1>2. (IInv /\ AccumInv) /\ [Next]_vars => (IInv /\ AccumInv)'
  BY InvNext, AccumNext
<1> QED BY <1>1, <1>2, PTL DEF Spec

\* The fold over the rows' values is the fold over the rows.
LEMMA FoldedIs ==
  ASSUME SoundValues, FromInput, op \in Ops, NEW p \in DOMAIN Passes,
         NEW M \in SUBSET Threads
  PROVE  FoldFunctionOnSet(LAMBDA v, x : Combined(Passes[p], x, v), Identity(p),
                           [b \in Threads |-> rows[b].val], M) = Folded(p, M)
<1> DEFINE o == Passes[p]
           vals == [b \in Threads |-> rows[b].val]
           f[s \in SUBSET M] ==
             IF s = {} THEN Identity(p)
             ELSE LET x == CHOOSE x \in s : TRUE
                  IN  Combined(o, f[s \ {x}], vals[x])
           g == [s \in SUBSET M |-> Folded(p, s)]
<1>1. FoldFunctionOnSet(LAMBDA v, x : Combined(Passes[p], x, v), Identity(p), vals, M) = f[M]
  BY DEF FoldFunctionOnSet, MapThenFoldSet
<1>2. \A s : s # {} => (CHOOSE x \in s : TRUE) \in s
  OBVIOUS
<1>3. ASSUME NEW s \in SUBSET M, s # {}, NEW x \in s
      PROVE  Folded(p, s) = Combined(o, Folded(p, s \ {x}), vals[x])
  <2>1. s \ {x} \in SUBSET Threads /\ x \in Threads \ (s \ {x}) /\ (s \ {x}) \cup {x} = s
    BY <1>3
  <2>2. Folded(p, (s \ {x}) \cup {x}) = Combined(Passes[p], Folded(p, s \ {x}), rows[x].val)
    BY <2>1, FoldedAdds
  <2>3. vals[x] = rows[x].val
    BY <2>1
  <2> QED BY <2>1, <2>2, <2>3
<1>4. Folded(p, {}) = Identity(p)
  BY FoldedFacts
<1> HIDE DEF o, vals
<1>5. g = [s \in SUBSET M |->
             IF s = {} THEN Identity(p)
             ELSE LET x == CHOOSE x \in s : TRUE
                  IN  Combined(o, g[s \ {x}], vals[x])]
  <2>1. ASSUME NEW s \in SUBSET M
        PROVE  Folded(p, s) =
                 IF s = {} THEN Identity(p)
                 ELSE LET x == CHOOSE x \in s : TRUE
                      IN  Combined(o, g[s \ {x}], vals[x])
    <3>1. CASE s = {}
      BY <1>4, <3>1
    <3>2. CASE s # {}
      <4> DEFINE x == CHOOSE x \in s : TRUE
      <4>1. x \in s
        BY <1>2, <3>2
      <4> HIDE DEF x
      <4>2. g[s \ {x}] = Folded(p, s \ {x})
        OBVIOUS
      <4>3. Folded(p, s) = Combined(o, g[s \ {x}], vals[x])
        BY <1>3, <3>2, <4>1, <4>2
      <4> QED BY <3>2, <4>3 DEF x
    <3> QED BY <3>1, <3>2
  <2> QED BY <2>1
<1>6. f = [s \in SUBSET M |->
             IF s = {} THEN Identity(p)
             ELSE LET x == CHOOSE x \in s : TRUE
                  IN  Combined(o, f[s \ {x}], vals[x])]
  <2> HIDE DEF g
  <2>1. \E u : u = [s \in SUBSET M |->
                      IF s = {} THEN Identity(p)
                      ELSE LET x == CHOOSE x \in s : TRUE
                           IN  Combined(o, u[s \ {x}], vals[x])]
    BY <1>5
  <2> QED BY <2>1
<1>7. \A s \in SUBSET M : g[s] = Folded(p, s)
  OBVIOUS
<1> HIDE DEF f, g
<1> DEFINE P == {s \in SUBSET M : f[s] = g[s]}
<1>8. ASSUME NEW s \in SUBSET M, \A x \in s : s \ {x} \in P PROVE s \in P
  <2>1. CASE s = {}
    BY <1>5, <1>6, <2>1
  <2>2. CASE s # {}
    <3> DEFINE x == CHOOSE x \in s : TRUE
    <3>1. x \in s
      BY <1>2, <2>2
    <3>2. f[s] = Combined(o, f[s \ {x}], vals[x]) /\ g[s] = Combined(o, g[s \ {x}], vals[x])
      BY <1>5, <1>6, <2>2
    <3> HIDE DEF x
    <3>3. f[s \ {x}] = g[s \ {x}]
      BY <1>8, <3>1
    <3> QED BY <3>2, <3>3
  <2> QED BY <2>1, <2>2
<1>9. \A s \in SUBSET M : s \in P
  <2>1. IsFiniteSet(M)
    BY ThreadValues, ThreadFacts, FS_Subset
  <2> HIDE DEF P
  <2> QED BY <1>8, <2>1, SubsetInduction
<1>10. f[M] = Folded(p, M)
  BY <1>7, <1>9
<1> QED BY <1>1, <1>10 DEF o, vals

LEMMA InvAccumulated ==
  ASSUME SoundValues, IInv, AccumInv
  PROVE  Accumulated
<1> SUFFICES ASSUME phase = "accumulate", NEW s \in Slots, tableKeys[s] # Empty
             PROVE  accum[pass][tableGids[s]] =
                      FoldFunctionOnSet(LAMBDA v, x : Combined(Passes[pass], x, v),
                                        Identity(pass), [b \in Threads |-> rows[b].val],
                                        {b \in Threads : Encode[Key(b)] = tableKeys[s]
                                                           /\ pc[b] = "returned"})
  BY DEF Accumulated
<1>1. Done(s) = {b \in Threads : Encode[Key(b)] = tableKeys[s] /\ pc[b] = "returned"}
  BY DEF Done, RowsOf
<1>2. accum[pass][tableGids[s]] = Folded(pass, Done(s))
  BY DEF AccumInv, CurrentPass, Occupied
<1>3. FromInput /\ pass \in DOMAIN Passes /\ op \in Ops /\ Done(s) \in SUBSET Threads
  BY DEF AccumInv, PassInPlace, IInv, TypeOK, Done, RowsOf
<1>4. FoldFunctionOnSet(LAMBDA v, x : Combined(Passes[pass], x, v), Identity(pass),
                        [b \in Threads |-> rows[b].val], Done(s)) = Folded(pass, Done(s))
  BY <1>3, FoldedIs
<1> QED BY <1>1, <1>2, <1>4

\* At every moment of an accumulate pass, an accumulator is the fold of the
\* rows of its group whose threads have returned, however the atomic updates
\* of the threads interleave and whichever of them the swap loops repeat, in
\* frames without a NaN that no mask marks.
THEOREM GroupAccumulates == SoundTable /\ NoBareNaN /\ NaNApart => (Spec => []Accumulated)
<1> SUFFICES ASSUME SoundTable, SoundValues PROVE Spec => []Accumulated
  BY DEF SoundValues
<1>1. IInv /\ AccumInv => Accumulated
  BY InvAccumulated
<1> QED BY <1>1, AccumInvariance, PTL

-----------------------------------------------------------------------------
(* The aggregates *)

SumOver(r, I) == FoldFunctionOnSet(+, 0, [i \in DOMAIN r |-> r[i].val], I)

\* Keys that are not missing are equal to pandas if they have one encoding.
EncodesGroups ==
  /\ Class \in [Keys -> Int]
  /\ \A k, l \in Keys : Class[k] # NaN => (Class[k] = Class[l] <=> Encode[k] = Encode[l])

\* Every key comes with a value.
GroupsHaveValues ==
  \A f \in Inputs : \A i \in DOMAIN f.rows : Class[f.rows[i].key] # NaN =>
    \E j \in DOMAIN f.rows : Class[f.rows[j].key] = Class[f.rows[i].key]
                             /\ f.rows[j].val # NaN

\* No sum of a group of integers is out of their width.
SumsFit ==
  \A f \in Inputs : ~f.isFloat => \A k \in Keys :
    SumOver(f.rows, {i \in DOMAIN f.rows : Class[f.rows[i].key] = Class[k]
                                           /\ f.rows[i].val # NaN}) \in Finite

SoundGroups == EncodesGroups /\ GroupsHaveValues /\ SumsFit

LEMMA GroupsCardinality == \A S : Groups!Cardinality(S) = Cardinality(S)
  BY DEF Groups!Cardinality, Cardinality

LEMMA SumIsSumOver == \A I : Groups!SumOf(I) = SumOver(rows, I)
  BY DEF Groups!SumOf, SumOver, Groups!FoldFunctionOnSet, FoldFunctionOnSet,
         Groups!MapThenFoldSet, MapThenFoldSet

\* Sums are taken value by value.
LEMMA SumOverFacts ==
  ASSUME SoundValues, FromInput
  PROVE  /\ SumOver(rows, {}) = 0
         /\ \A M \in SUBSET Threads : SumOver(rows, M) \in Int
         /\ \A M \in SUBSET Threads : \A b \in Threads \ M :
              SumOver(rows, M \cup {b}) = SumOver(rows, M) + rows[b].val
<1> DEFINE V == Int
           step == [q \in Threads \X V |-> rows[q[1]].val + q[2]]
           a == 0
           vals == [i \in DOMAIN rows |-> rows[i].val]
<1>1. \A b \in Threads : rows[b].val \in Int /\ b \in DOMAIN rows
  <2>1. Finite \subseteq Int
    BY GroupAssumption DEF Finite
  <2> QED BY <2>1, ThreadValues
<1>2. IsFiniteSet(Threads) /\ \A M \in SUBSET Threads : IsFiniteSet(M)
  BY ThreadValues, ThreadFacts, FS_Subset
<1>3. /\ \A b \in Threads, x \in Int : step[<<b, x>>] = rows[b].val + x
      /\ \A b \in Threads : vals[b] = rows[b].val
  BY <1>1
<1>4. step \in FoldSteps(Threads, V) /\ a \in V
  BY <1>1 DEF FoldSteps
<1>5. Commutes(step, Threads, V)
  <2> HIDE DEF step
  <2> QED BY <1>1, <1>3 DEF Commutes
<1>6. ASSUME NEW M \in SUBSET Threads PROVE SumOver(rows, M) = SetFold(M, a, step)
  <2> DEFINE f[s \in SUBSET M] ==
               IF s = {} THEN 0
               ELSE LET x == CHOOSE x \in s : TRUE IN vals[x] + f[s \ {x}]
  <2>1. SumOver(rows, M) = f[M]
    BY DEF SumOver, FoldFunctionOnSet, MapThenFoldSet
  <2>2. IsFiniteSet(M)
    BY <1>2
  <2> HIDE DEF V, a, step, vals
  <2>3. PICK g : FoldsOn(g, M, a, step)
    BY <1>4, <2>2, FoldExists
  <2>4. \A s \in SUBSET M : SetFold(s, a, step) = g[s] /\ g[s] \in V
    BY <1>4, <2>2, <2>3, FoldOfFunction
  <2>5. \A s \in SUBSET M : s # {} => (CHOOSE x \in s : TRUE) \in s
    OBVIOUS
  <2>6. g = [s \in SUBSET M |->
               IF s = {} THEN 0
               ELSE LET x == CHOOSE x \in s : TRUE IN vals[x] + g[s \ {x}]]
    <3>1. ASSUME NEW s \in SUBSET M
          PROVE  NextFold(g, a, step, s) =
                   IF s = {} THEN 0
                   ELSE LET x == CHOOSE x \in s : TRUE IN vals[x] + g[s \ {x}]
      <4>1. CASE s = {}
        BY <4>1 DEF NextFold, a
      <4>2. CASE s # {}
        <5> DEFINE x == CHOOSE x \in s : TRUE
        <5>1. x \in s /\ x = OneOf(s)
          BY <2>5, <4>2 DEF OneOf
        <5> HIDE DEF x
        <5>2. g[s \ {x}] \in Int /\ x \in Threads
          BY <2>4, <5>1 DEF V
        <5>3. step[<<x, g[s \ {x}]>>] = vals[x] + g[s \ {x}]
          BY <1>3, <5>2
        <5>4. NextFold(g, a, step, s) = vals[x] + g[s \ {x}]
          BY <4>2, <5>1, <5>3 DEF NextFold
        <5> QED BY <4>2, <5>4 DEF x
      <4> QED BY <4>1, <4>2
    <3>2. g = [s \in SUBSET M |-> NextFold(g, a, step, s)]
      BY <2>3 DEF FoldsOn
    <3> QED BY <3>1, <3>2
  <2>7. f = [s \in SUBSET M |->
               IF s = {} THEN 0
               ELSE LET x == CHOOSE x \in s : TRUE IN vals[x] + f[s \ {x}]]
    <3>1. \E u : u = [s \in SUBSET M |->
                        IF s = {} THEN 0
                        ELSE LET x == CHOOSE x \in s : TRUE IN vals[x] + u[s \ {x}]]
      BY <2>6
    <3> QED BY <3>1
  <2> HIDE DEF f
  <2>8. f = [s \in SUBSET M |-> f[s]] /\ f[{}] = a
    BY <2>7 DEF a
  <2>9. StepsAlong(f, M, V, step)
    <3> SUFFICES ASSUME NEW s \in SUBSET M, s # {}, f[s \ {OneOf(s)}] \in V
                 PROVE  f[s] = step[<<OneOf(s), f[s \ {OneOf(s)}]>>]
      BY DEF StepsAlong
    <3>1. OneOf(s) \in Threads
      BY OneOfMember
    <3>2. f[s] = vals[OneOf(s)] + f[s \ {OneOf(s)}]
      BY <2>7 DEF OneOf
    <3> QED BY <1>3, <3>1, <3>2 DEF V
  <2>10. FoldsOn(f, M, a, step)
    <3>1. f = [s \in SUBSET M |-> f[s]]
      BY <2>8
    <3>2. f[{}] = a
      BY <2>8
    <3> QED BY <1>4, <2>2, <2>9, <3>1, <3>2, FoldFollows
  <2>11. SetFold(M, a, step) = f[M]
    BY <1>4, <2>2, <2>10, FoldOfFunction
  <2> QED BY <2>1, <2>11
<1>7. /\ SetFold({}, a, step) = a
      /\ \A S \in SUBSET Threads : IsFiniteSet(S) =>
           /\ SetFold(S, a, step) \in V
           /\ \A i \in Threads \ S : SetFold(S \cup {i}, a, step)
                                       = step[<<i, SetFold(S, a, step)>>]
  <2> HIDE DEF V, a, step
  <2> QED BY <1>4, <1>5, FoldSteady
<1>8. ASSUME NEW M \in SUBSET Threads, NEW b \in Threads \ M
      PROVE  SumOver(rows, M \cup {b}) = SumOver(rows, M) + rows[b].val
  <2> DEFINE x == SetFold(M, a, step)
             y == SetFold(M \cup {b}, a, step)
  <2>1. SumOver(rows, M) = x /\ SumOver(rows, M \cup {b}) = y
    BY <1>6
  <2>2. x \in Int /\ y = step[<<b, x>>]
    BY <1>2, <1>7
  <2> HIDE DEF x, y, step
  <2>3. step[<<b, x>>] = rows[b].val + x /\ rows[b].val \in Int
    BY <1>1, <1>3, <2>2
  <2> QED BY <2>1, <2>2, <2>3
<1>9. \A M \in SUBSET Threads : SumOver(rows, M) \in Int
  BY <1>2, <1>6, <1>7
<1>10. SumOver(rows, {}) = 0
  BY <1>6, <1>7
<1> QED BY <1>8, <1>9, <1>10

\* A count counts the rows.
LEMMA CountFolded ==
  ASSUME SoundValues, FromInput, op \in Ops, NEW p \in DOMAIN Passes, Passes[p] = "count"
  PROVE  \A M \in SUBSET Threads : Folded(p, M) = Cardinality(M)
<1> DEFINE P == {M \in SUBSET Threads : Folded(p, M) = Cardinality(M)}
<1>1. IsFiniteSet(Threads) /\ \A M \in SUBSET Threads : IsFiniteSet(M)
  BY ThreadValues, ThreadFacts, FS_Subset
<1>2. ASSUME NEW M \in SUBSET Threads, \A b \in M : M \ {b} \in P PROVE M \in P
  <2>1. CASE M = {}
    <3>1. Identity(p) = 0
      BY DEF Identity
    <3> QED BY <2>1, <3>1, FoldedFacts, FS_EmptySet
  <2>2. CASE M # {}
    <3>1. PICK b \in M : TRUE
      BY <2>2
    <3> DEFINE N == M \ {b}
    <3>2. N \in SUBSET Threads /\ b \in Threads \ N /\ N \cup {b} = M /\ N \in P
      BY <1>2, <3>1
    <3>3. Cardinality(N) \in Nat /\ Cardinality(M) = Cardinality(N) + 1
      <4>1. Cardinality(N) = Cardinality(M) - 1
        BY <1>1, <3>1, FS_RemoveElement
      <4>2. Cardinality(M) \in Nat /\ Cardinality(N) \in Nat
        BY <1>1, <3>2, FS_CardinalityType
      <4> QED BY <4>1, <4>2
    <3>4. Folded(p, M) = Combined("count", Folded(p, N), rows[b].val)
      <4> HIDE DEF N
      <4>1. Folded(p, N \cup {b}) = Combined(Passes[p], Folded(p, N), rows[b].val)
        BY <3>2, FoldedAdds
      <4> QED BY <3>2, <4>1
    <3>5. Folded(p, M) = Folded(p, N) + 1
      BY <3>4 DEF Combined
    <3>6. Folded(p, M) = Cardinality(M)
      BY <3>2, <3>3, <3>5
    <3> QED BY <3>6
  <2> QED BY <2>1, <2>2
<1>3. \A M \in SUBSET Threads : M \in P
  <2> HIDE DEF P
  <2> QED BY <1>1, <1>2, SubsetInduction
<1> QED BY <1>3

\* A sum is the sum of the values, in the width of the column.
LEMMA SumFolded ==
  ASSUME SoundValues, FromInput, op \in Ops, NEW p \in DOMAIN Passes, Passes[p] = "sum"
  PROVE  \A M \in SUBSET Threads :
           Folded(p, M) = IF isFloat THEN SumOver(rows, M) ELSE Wrapped(SumOver(rows, M))
<1> DEFINE Sum(M) == SumOver(rows, M)
           P == {M \in SUBSET Threads :
                   Folded(p, M) = IF isFloat THEN Sum(M) ELSE Wrapped(Sum(M))}
<1>1. IsFiniteSet(Threads) /\ \A M \in SUBSET Threads : IsFiniteSet(M)
  BY ThreadValues, ThreadFacts, FS_Subset
<1>2. Finite \subseteq Int /\ 0 \in Finite /\ Half \in Nat \ {0}
  BY GroupAssumption DEF Finite
<1>3. Wrapped(0) = 0
  <2> DEFINE d == 2 * Half
  <2>1. Half \in 0 .. d - 1 /\ d \in Nat \ {0}
    BY <1>2
  <2> HIDE DEF d
  <2>2. Half % d = Half
    BY <2>1, DivSmall
  <2>3. Wrapped(0) = ((0 + Half) % d) - Half /\ 0 + Half = Half
    BY <1>2 DEF Wrapped, d
  <2> QED BY <1>2, <2>2, <2>3
<1>4. /\ Sum({}) = 0
      /\ \A M \in SUBSET Threads : Sum(M) \in Int
      /\ \A M \in SUBSET Threads : \A b \in Threads \ M :
           Sum(M \cup {b}) = Sum(M) + rows[b].val
  BY SumOverFacts
<1> HIDE DEF Sum
<1>5. ASSUME NEW M \in SUBSET Threads, \A b \in M : M \ {b} \in P PROVE M \in P
  <2>1. CASE M = {}
    <3>1. Identity(p) = 0
      BY DEF Identity
    <3> QED BY <1>3, <1>4, <2>1, <3>1, FoldedFacts
  <2>2. CASE M # {}
    <3>1. PICK b \in M : TRUE
      BY <2>2
    <3> DEFINE N == M \ {b}
               x == Folded(p, N)
               v == rows[b].val
    <3>2. N \in SUBSET Threads /\ b \in Threads \ N /\ N \cup {b} = M /\ N \in P
      BY <1>5, <3>1
    <3>3. Folded(p, M) = Combined("sum", x, v)
      <4> HIDE DEF N
      <4>1. Folded(p, N \cup {b}) = Combined(Passes[p], Folded(p, N), rows[b].val)
        BY <3>2, FoldedAdds
      <4> QED BY <3>2, <4>1
    <3>4. x # NaN /\ v # NaN /\ v \in Int
      BY <1>2, <3>2, SumsInRange, ThreadValues
    <3>5. Folded(p, M) = IF isFloat THEN x + v ELSE Wrapped(x + v)
      BY <3>3, <3>4 DEF Combined, Plus
    <3>6. Sum(M) = Sum(N) + v /\ Sum(N) \in Int
      BY <1>4, <3>2
    <3>7. x = IF isFloat THEN Sum(N) ELSE Wrapped(Sum(N))
      BY <3>2
    <3> HIDE DEF x, v, N
    <3>8. ~isFloat => Wrapped(x + v) = Wrapped(Sum(N) + v)
      BY <3>4, <3>6, <3>7, WrappedFacts
    <3>9. Folded(p, M) = IF isFloat THEN Sum(M) ELSE Wrapped(Sum(M))
      BY <3>5, <3>6, <3>7, <3>8
    <3> QED BY <3>9
  <2> QED BY <2>1, <2>2
<1>6. \A M \in SUBSET Threads : M \in P
  <2> HIDE DEF P
  <2> QED BY <1>1, <1>5, SubsetInduction
<1> QED BY <1>6 DEF Sum

\* A minimum, or maximum, is the value of a row, and none is smaller, or larger.
LEMMA ExtremeFolded ==
  ASSUME SoundValues, FromInput, op \in Ops, NEW p \in DOMAIN Passes,
         Passes[p] \in {"min", "max"}
  PROVE  \A M \in SUBSET Threads :
           /\ M # {} => \E i \in M : rows[i].val = Folded(p, M)
           /\ \A j \in M : Keeps(Passes[p], Folded(p, M), rows[j].val)
<1> DEFINE o == Passes[p]
           P == {M \in SUBSET Threads :
                   /\ M # {} => \E i \in M : rows[i].val = Folded(p, M)
                   /\ \A j \in M : Keeps(o, Folded(p, M), rows[j].val)}
<1>1. /\ IsFiniteSet(Threads) /\ \A M \in SUBSET Threads : IsFiniteSet(M)
      /\ \A b \in Threads : rows[b].val \in Finite
  BY ThreadValues, ThreadFacts, FS_Subset
<1>2. Finite \subseteq Int /\ Half \in Nat \ {0}
  BY GroupAssumption DEF Finite
<1>3. \A M \in SUBSET Threads : Folded(p, M) \in Finite
  BY FoldedFacts DEF Contents
<1>4. o \in {"min", "max"}
  OBVIOUS
<1>5. \A x, v \in Finite : Keeps(o, x, v) <=> IF o = "min" THEN x <= v ELSE x >= v
  BY <1>4, KeepsFacts
<1>6. ASSUME NEW v \in Finite, Keeps(o, Identity(p), v) PROVE v = Identity(p)
  <2>1. Identity(p) = IF o = "min" THEN Half - 1 ELSE -Half
    BY <1>4 DEF Identity
  <2>2. Identity(p) \in Finite
    BY <1>2, <2>1 DEF Finite
  <2>3. v \in Int /\ -Half <= v /\ v <= Half - 1
    BY <1>2 DEF Finite
  <2>4. IF o = "min" THEN Identity(p) <= v ELSE Identity(p) >= v
    BY <1>5, <1>6, <2>2
  <2> QED BY <1>2, <2>1, <2>3, <2>4
<1> HIDE DEF o
<1>7. ASSUME NEW M \in SUBSET Threads, \A b \in M : M \ {b} \in P PROVE M \in P
  <2>1. CASE M = {}
    BY <2>1
  <2>2. CASE M # {}
    <3>1. PICK b \in M : TRUE
      BY <2>2
    <3> DEFINE N == M \ {b}
               x == Folded(p, N)
               v == rows[b].val
    <3>2. N \in SUBSET Threads /\ b \in Threads \ N /\ N \cup {b} = M /\ N \in P
      BY <1>7, <3>1
    <3>3. Folded(p, M) = Combined(o, x, v)
      <4> HIDE DEF N
      <4>1. Folded(p, N \cup {b}) = Combined(Passes[p], Folded(p, N), rows[b].val)
        BY <3>2, FoldedAdds
      <4> QED BY <3>2, <4>1 DEF o
    <3>4. Folded(p, M) = IF Keeps(o, x, v) THEN x ELSE v
      BY <1>4, <3>3 DEF Combined
    <3>5. x \in Finite /\ v \in Finite /\ x \in Int /\ v \in Int
      BY <1>1, <1>2, <1>3, <3>2
    <3>6. \E i \in M : rows[i].val = Folded(p, M)
      <4>1. CASE Keeps(o, x, v) /\ N = {}
        <5>1. x = Identity(p)
          BY <4>1, FoldedFacts
        <5> QED BY <1>6, <3>1, <3>4, <3>5, <4>1, <5>1
      <4>2. CASE Keeps(o, x, v) /\ N # {}
        BY <3>2, <3>4, <4>2
      <4>3. CASE ~Keeps(o, x, v)
        BY <3>1, <3>4, <4>3
      <4> QED BY <4>1, <4>2, <4>3
    <3>7. ASSUME NEW j \in M PROVE Keeps(o, Folded(p, M), rows[j].val)
      <4> DEFINE w == rows[j].val
      <4>1. w \in Finite /\ w \in Int
        BY <1>1, <1>2
      <4>2. j # b => Keeps(o, x, w)
        BY <3>2
      <4>3. j = b => w = v
        OBVIOUS
      <4> HIDE DEF x, v, w
      <4>4. Keeps(o, IF Keeps(o, x, v) THEN x ELSE v, w)
        BY <1>4, <1>5, <3>5, <4>1, <4>2, <4>3
      <4> QED BY <3>4, <4>4 DEF w
    <3> QED BY <3>6, <3>7
  <2> QED BY <2>1, <2>2
<1>8. \A M \in SUBSET Threads : M \in P
  <2> HIDE DEF P
  <2> QED BY <1>1, <1>7, SubsetInduction
<1> QED BY <1>8 DEF o

\* The rows of a group that have a value.
LEMMA MemberFacts ==
  ASSUME SoundValues, SoundGroups, FromInput, NEW g \in Groups!Groups
  PROVE  /\ Groups!Members(g) \in SUBSET Threads /\ Groups!Members(g) # {}
         /\ Groups!Members(g) = {b \in Threads : Class[Key(b)] = g}
         /\ ~isFloat => SumOver(rows, Groups!Members(g)) \in Finite
<1>1. PICK f \in Inputs : rows = f.rows /\ masked = f.masked /\ isFloat = f.isFloat
  BY DEF FromInput
<1>2. rows \in Seq(Row)
  BY <1>1, GroupAssumption
<1>3. PICK i \in DOMAIN rows : g = Class[rows[i].key]
  BY DEF Groups!Groups
<1>4. g # NaN
  BY DEF Groups!Groups
<1>5. \A j \in DOMAIN rows : rows[j].key \in Keys
  <2>1. \A j \in DOMAIN rows : rows[j] \in Row
    BY <1>2
  <2> QED BY <2>1 DEF Row
<1>6. Groups!Members(g) = {j \in DOMAIN rows : Class[rows[j].key] = g /\ rows[j].val # NaN}
  BY DEF Groups!Members
<1>7. Threads = {j \in DOMAIN rows : Class[rows[j].key] # NaN /\ rows[j].val # NaN}
  BY ThreadValues
<1>8. Groups!Members(g) = {b \in Threads : Class[Key(b)] = g}
  BY <1>4, <1>6, <1>7 DEF Key
<1>9. Groups!Members(g) # {}
  <2>1. PICK j \in DOMAIN rows : Class[rows[j].key] = Class[rows[i].key] /\ rows[j].val # NaN
    BY <1>1, <1>3, <1>4 DEF SoundGroups, GroupsHaveValues
  <2>2. j \in Groups!Members(g)
    BY <1>3, <1>6, <2>1
  <2> QED BY <2>2
<1>10. ~isFloat => SumOver(rows, Groups!Members(g)) \in Finite
  <2> SUFFICES ASSUME ~isFloat PROVE SumOver(rows, Groups!Members(g)) \in Finite
    OBVIOUS
  <2> DEFINE k == rows[i].key
             I == {j \in DOMAIN rows : Class[rows[j].key] = Class[k] /\ rows[j].val # NaN}
  <2>1. I = Groups!Members(g)
    BY <1>3, <1>6
  <2>2. k \in Keys
    BY <1>3, <1>5
  <2> HIDE DEF k
  <2>3. SumOver(rows, I) \in Finite
    BY <1>1, <2>2 DEF SoundGroups, SumsFit
  <2> HIDE DEF I
  <2> QED BY <2>1, <2>3
<1> QED BY <1>8, <1>9, <1>10

\* The row that pandas picks has the least, or largest, value.
LEMMA ExtremeRow ==
  ASSUME SoundValues, FromInput, op \in Ops, op \in {"min", "max"},
         NEW M \in SUBSET Threads, M # {}
  PROVE  Folded(1, M) =
           IF op = "min"
             THEN rows[CHOOSE i \in M : \A j \in M : rows[i].val <= rows[j].val].val
             ELSE rows[CHOOSE i \in M : \A j \in M : rows[j].val <= rows[i].val].val
<1>1. 1 \in DOMAIN Passes /\ Passes[1] = op
  BY DEF Passes
<1>2. /\ \A j \in M : rows[j].val \in Finite /\ rows[j].val \in Int
      /\ Folded(1, M) \in Finite
  <2>1. Finite \subseteq Int
    BY GroupAssumption DEF Finite
  <2> QED BY <1>1, <2>1, ThreadValues, FoldedFacts DEF Contents
<1>3. PICK i \in M : rows[i].val = Folded(1, M)
  BY <1>1, ExtremeFolded
<1>4. \A j \in M : Keeps(op, Folded(1, M), rows[j].val)
  BY <1>1, ExtremeFolded
<1>5. \A x, v \in Finite : Keeps(op, x, v) <=> IF op = "min" THEN x <= v ELSE x >= v
  BY KeepsFacts
<1>6. CASE op = "min"
  <2> DEFINE c == CHOOSE n \in M : \A j \in M : rows[n].val <= rows[j].val
  <2>1. \A j \in M : rows[i].val <= rows[j].val
    BY <1>2, <1>3, <1>4, <1>5, <1>6
  <2>2. c \in M /\ \A j \in M : rows[c].val <= rows[j].val
    BY <2>1
  <2> HIDE DEF c
  <2>3. rows[c].val = rows[i].val
    BY <1>2, <2>1, <2>2
  <2> QED BY <1>3, <1>6, <2>3 DEF c
<1>7. CASE op = "max"
  <2> DEFINE c == CHOOSE n \in M : \A j \in M : rows[j].val <= rows[n].val
  <2>1. \A j \in M : rows[j].val <= rows[i].val
    BY <1>2, <1>3, <1>4, <1>5, <1>7
  <2>2. c \in M /\ \A j \in M : rows[j].val <= rows[c].val
    BY <2>1
  <2> HIDE DEF c
  <2>3. rows[c].val = rows[i].val
    BY <1>2, <2>1, <2>2
  <2> QED BY <1>3, <1>7, <2>3 DEF c
<1> QED BY <1>6, <1>7

\* What the passes have folded for a group is its aggregate.
LEMMA FoldedAggregates ==
  ASSUME SoundValues, SoundGroups, FromInput, op \in Ops, NEW g \in Groups!Groups
  PROVE  [p \in DOMAIN Passes |-> Folded(p, Groups!Members(g))]
           = Groups!Aggregate(Groups!Members(g))
<1> DEFINE I == Groups!Members(g)
           V == [p \in DOMAIN Passes |-> Folded(p, I)]
<1>1. /\ I \in SUBSET Threads /\ I # {} /\ isFloat \in BOOLEAN
      /\ ~isFloat => SumOver(rows, I) \in Finite
  BY MemberFacts, ThreadValues
<1>2. op \in {"sum", "count", "min", "max", "mean"}
  BY GroupAssumption
<1>3. Groups!SumOf(I) = SumOver(rows, I) /\ Groups!Cardinality(I) = Cardinality(I)
  BY SumIsSumOver, GroupsCardinality
<1> HIDE DEF I
<1>4. ASSUME NEW p \in DOMAIN Passes, Passes[p] = "sum"
      PROVE  Folded(p, I) = Groups!SumOf(I)
  <2>1. Folded(p, I) = IF isFloat THEN SumOver(rows, I) ELSE Wrapped(SumOver(rows, I))
    BY <1>1, <1>4, SumFolded
  <2>2. ASSUME NEW n \in Finite PROVE Wrapped(n) = n
    <3> DEFINE d == 2 * Half
    <3>1. Half \in Nat \ {0} /\ n \in Int /\ n + Half \in 0 .. d - 1 /\ d \in Nat \ {0}
      BY GroupAssumption DEF Finite
    <3> HIDE DEF d
    <3>2. (n + Half) % d = n + Half
      BY <3>1, DivSmall
    <3>3. Wrapped(n) = ((n + Half) % d) - Half
      BY DEF Wrapped, d
    <3> QED BY <3>1, <3>2, <3>3
  <2> QED BY <1>1, <1>3, <2>1, <2>2
<1>5. ASSUME NEW p \in DOMAIN Passes, Passes[p] = "count"
      PROVE  Folded(p, I) = Groups!Cardinality(I)
  BY <1>1, <1>3, <1>5, CountFolded
<1>6. CASE op = "mean"
  <2>1. Passes = <<"sum", "count">>
    BY <1>6 DEF Passes
  <2>2. DOMAIN Passes = 1 .. 2 /\ Passes[1] = "sum" /\ Passes[2] = "count"
    BY <2>1
  <2>3. Folded(1, I) = Groups!SumOf(I) /\ Folded(2, I) = Groups!Cardinality(I)
    BY <1>4, <1>5, <2>2
  <2>4. V = <<Folded(1, I), Folded(2, I)>>
    BY <2>2
  <2>5. Groups!Aggregate(I) = <<Groups!SumOf(I), Groups!Cardinality(I)>>
    BY <1>1, <1>6 DEF Groups!Aggregate
  <2> QED BY <2>3, <2>4, <2>5 DEF I
<1>7. CASE op # "mean"
  <2>1. Passes = <<op>>
    BY <1>7 DEF Passes
  <2>2. DOMAIN Passes = 1 .. 1 /\ Passes[1] = op /\ 1 \in DOMAIN Passes
    BY <2>1
  <2>3. V = <<Folded(1, I)>>
    BY <2>2
  <2>4. CASE op = "sum"
    <3>1. Groups!Aggregate(I) = <<Groups!SumOf(I)>>
      BY <2>4 DEF Groups!Aggregate
    <3>2. Folded(1, I) = Groups!SumOf(I)
      BY <1>4, <2>2, <2>4
    <3> QED BY <2>3, <3>1, <3>2 DEF I
  <2>5. CASE op = "count"
    <3>1. Groups!Aggregate(I) = <<Groups!Cardinality(I)>>
      BY <2>5 DEF Groups!Aggregate
    <3>2. Folded(1, I) = Groups!Cardinality(I)
      BY <1>5, <2>2, <2>5
    <3> QED BY <2>3, <3>1, <3>2 DEF I
  <2>6. CASE op = "min"
    <3> DEFINE x == rows[CHOOSE i \in I : \A j \in I : rows[i].val <= rows[j].val].val
    <3>1. Groups!Aggregate(I) = <<x>>
      BY <1>1, <2>6 DEF Groups!Aggregate
    <3>2. Folded(1, I) = x
      BY <1>1, <2>6, ExtremeRow
    <3> HIDE DEF x
    <3> QED BY <2>3, <3>1, <3>2 DEF I
  <2>7. CASE op = "max"
    <3> DEFINE x == rows[CHOOSE i \in I : \A j \in I : rows[j].val <= rows[i].val].val
    <3>1. Groups!Aggregate(I) = <<x>>
      BY <1>1, <2>7 DEF Groups!Aggregate
    <3>2. Folded(1, I) = x
      BY <1>1, <2>7, ExtremeRow
    <3> HIDE DEF x
    <3> QED BY <2>3, <3>1, <3>2 DEF I
  <2> QED BY <1>2, <1>7, <2>4, <2>5, <2>6, <2>7
<1> QED BY <1>6, <1>7

-----------------------------------------------------------------------------
(* The answer *)

\* What the compact thread of a slot writes.
SlotEntry(s) ==
  [key |-> Decoded(tableKeys[s]),
   val |-> [p \in DOMAIN Passes |-> accum[p][tableGids[s]]]]

\* The entries of the slots whose compact threads have run are in place.
OutInv ==
  phase = "compact" =>
    /\ compacting \subseteq Occupied
    /\ out = [i \in 1 .. counter |-> out[i]]
    /\ \A s \in Occupied \ compacting : out[tableGids[s] + 1] = SlotEntry(s)

LEMMA OutNext ==
  ASSUME IInv, SoundTable, OutInv, [Next]_vars
  PROVE  OutInv'
<1>1. CASE UNCHANGED vars \/ Idle
  <2>1. /\ Occupied' = Occupied /\ \A s : SlotEntry(s)' = SlotEntry(s)
        /\ UNCHANGED <<phase, compacting, out, counter, tableGids>>
    BY <1>1, InputStays DEF vars, Idle, Occupied, SlotEntry, input
  <2> QED BY <2>1 DEF OutInv
<1>2. CASE StartCompact
  <2>1. UNCHANGED <<input, tableKeys, tableGids, counter>>
    BY <1>2 DEF StartCompact, table
  <2>2. Occupied' = Occupied
    BY <2>1, InputStays DEF Occupied
  <2>3. compacting' = Occupied
    BY <1>2 DEF StartCompact, Occupied
  <2>4. out' = [i \in 1 .. counter' |-> out'[i]]
    BY <1>2, <2>1 DEF StartCompact
  <2> QED BY <2>2, <2>3, <2>4 DEF OutInv
<1>3. ASSUME NEW s \in compacting, CompactSlot(s) PROVE OutInv'
  <2> DEFINE g == tableGids[s]
  <2>1. /\ phase = "compact" /\ UNCHANGED <<input, phase, accum, tableKeys, tableGids, counter>>
        /\ compacting' = compacting \ {s}
    BY <1>3 DEF CompactSlot, table
  <2>2. /\ Occupied' = Occupied /\ Passes' = Passes
        /\ \A u : SlotEntry(u)' = SlotEntry(u)
    BY <2>1, InputStays DEF Occupied, SlotEntry
  <2>3. out' = [i \in DOMAIN out |-> IF i = g + 1 THEN SlotEntry(s) ELSE out[i]]
    BY <1>3 DEF CompactSlot, SlotEntry
  <2>4. DOMAIN out = 1 .. counter /\ s \in Occupied /\ compacting \subseteq Occupied
    BY <2>1 DEF OutInv
  <2>5. /\ \A u \in Occupied : tableGids[u] \in 0 .. counter - 1
        /\ \A u, w \in Occupied : tableGids[u] = tableGids[w] => u = w
        /\ counter \in Nat
    BY <2>1, CellFacts
  <2>6. ASSUME NEW u \in Occupied \ compacting' PROVE out'[tableGids[u] + 1] = SlotEntry(u)
    <3> DEFINE i == tableGids[u] + 1
    <3>1. i \in DOMAIN out /\ tableGids[u] \in Int /\ g \in Int
      BY <2>4, <2>5
    <3>2. CASE u = s
      BY <2>3, <3>1, <3>2
    <3>3. CASE u # s
      <4>1. u \in Occupied \ compacting
        BY <2>1, <3>3
      <4>2. out[i] = SlotEntry(u)
        BY <2>1, <4>1 DEF OutInv
      <4>3. i # g + 1
        BY <2>4, <2>5, <3>1, <3>3
      <4> QED BY <2>3, <3>1, <4>2, <4>3
    <3> QED BY <3>2, <3>3
  <2>7. out' = [i \in 1 .. counter' |-> out'[i]]
    BY <2>1, <2>3, <2>4
  <2>8. compacting' \subseteq Occupied'
    BY <2>1, <2>2, <2>4
  <2>9. \A u \in Occupied' \ compacting' : out'[tableGids'[u] + 1] = SlotEntry(u)'
    BY <2>1, <2>2, <2>6
  <2> QED BY <2>7, <2>8, <2>9 DEF OutInv
<1>4. CASE StartBuild \/ StartAccumulate \/ Finish \/ FallBack \/ DeviceError
  <2>1. phase' # "compact"
    BY <1>4 DEF StartBuild, StartAccumulate, Finish, FallBack, DeviceError
  <2> QED BY <2>1 DEF OutInv
<1>5. ASSUME NEW b \in Threads, BuildStep(b) \/ AccumulateStep(b) PROVE OutInv'
  <2>1. phase' # "compact"
    BY <1>5 DEF BuildStep, LoadSlot, GiveUp, Claim, LoseSlot, ReloadSlot, DrawId, StoreId,
                Probing, AccumulateStep, SkipRow, FetchAccumulate, LoadAccumulator, Settle,
                Swap, LoseSwap, Accumulating, Swapping
  <2> QED BY <2>1 DEF OutInv
<1> QED BY <1>1, <1>2, <1>3, <1>4, <1>5 DEF Next, HostStep

\* A slot in use has the key of a row, and every row's key has one.
LEMMA SlotKeys ==
  ASSUME IInv, SoundTable, SoundValues, SoundGroups, FromInput, phase = "compact"
  PROVE  /\ \A s \in Occupied :
              /\ Decoded(tableKeys[s]) \in Groups!Groups
              /\ RowsOf(s) = Groups!Members(Decoded(tableKeys[s]))
         /\ \A s, u \in Occupied : Decoded(tableKeys[s]) = Decoded(tableKeys[u]) => s = u
         /\ \A g \in Groups!Groups : \E s \in Occupied : Decoded(tableKeys[s]) = g
<1>1. InTable
  BY DEF InTable
<1>2. rows \in Columns
  BY ThreadValues
<1>3. \A b \in Threads : Key(b) \in Keys /\ Class[Key(b)] # NaN /\ b \in DOMAIN rows
  BY <1>2, ThreadFacts, ThreadValues DEF Key
<1>4. \A k, l \in Keys : Class[k] # NaN => (Class[k] = Class[l] <=> Encode[k] = Encode[l])
  BY DEF SoundGroups, EncodesGroups
<1>5. ASSUME NEW b \in Threads PROVE Decoded(Encode[Key(b)]) = Class[Key(b)]
  <2> DEFINE c == CHOOSE k \in Keys : Encode[k] = Encode[Key(b)]
  <2>1. c \in Keys /\ Encode[c] = Encode[Key(b)]
    BY <1>3
  <2>2. Decoded(Encode[Key(b)]) = Class[c]
    BY DEF Decoded
  <2> HIDE DEF c
  <2> QED BY <1>3, <1>4, <2>1, <2>2
<1>6. ASSUME NEW s \in Occupied PROVE \E b \in Threads : tableKeys[s] = Encode[Key(b)]
  BY <1>1 DEF IInv, TableInv, SlotsOwned, OwnersHold, Occupied
<1>7. ASSUME NEW s \in Occupied
      PROVE  /\ Decoded(tableKeys[s]) \in Groups!Groups
             /\ RowsOf(s) = Groups!Members(Decoded(tableKeys[s]))
  <2>1. PICK b \in Threads : tableKeys[s] = Encode[Key(b)]
    BY <1>6
  <2> DEFINE g == Decoded(tableKeys[s])
  <2>2. g = Class[Key(b)]
    BY <1>5, <2>1
  <2> HIDE DEF g
  <2>3. g \in Groups!Groups
    BY <1>3, <2>2 DEF Groups!Groups, Key
  <2>4. Groups!Members(g) = {c \in Threads : Class[Key(c)] = g}
    BY <2>3, MemberFacts
  <2>5. \A c \in Threads : Encode[Key(c)] = tableKeys[s] <=> Class[Key(c)] = g
    BY <1>3, <1>4, <2>1, <2>2
  <2>6. RowsOf(s) = Groups!Members(g)
    BY <2>4, <2>5 DEF RowsOf
  <2> QED BY <2>3, <2>6 DEF g
<1>8. ASSUME NEW s \in Occupied, NEW u \in Occupied,
             Decoded(tableKeys[s]) = Decoded(tableKeys[u])
      PROVE  s = u
  <2>1. PICK b \in Threads : tableKeys[s] = Encode[Key(b)]
    BY <1>6
  <2>2. PICK c \in Threads : tableKeys[u] = Encode[Key(c)]
    BY <1>6
  <2>3. Class[Key(b)] = Class[Key(c)]
    BY <1>5, <1>8, <2>1, <2>2
  <2>4. tableKeys[s] = tableKeys[u]
    BY <1>3, <1>4, <2>1, <2>2, <2>3
  <2> QED BY <1>1, <2>4 DEF IInv, TableInv, KeyHasOneSlot, Occupied
<1>9. ASSUME NEW g \in Groups!Groups
      PROVE  \E s \in Occupied : Decoded(tableKeys[s]) = g
  <2>1. PICK b \in Threads : Class[Key(b)] = g
    BY MemberFacts
  <2>2. PICK s \in Slots : tableKeys[s] = Encode[Key(b)]
    BY <1>1 DEF IInv, TableInv, KeysEntered
  <2>3. s \in Occupied
    BY <1>3, <2>2 DEF Occupied, SoundTable
  <2> QED BY <1>5, <2>1, <2>2, <2>3
<1> QED BY <1>7, <1>8, <1>9

\* The cells list the groups and their aggregates, as pandas does up to order.
ListsGroups(cells) ==
  /\ cells \in Seq(Range(cells))
  /\ Len(cells) = Cardinality(Groups!Groups)
  /\ {cells[i] : i \in DOMAIN cells} = {Groups!Entry(g) : g \in Groups!Groups}

LEMMA CompactLists ==
  ASSUME IInv, SoundTable, SoundValues, SoundGroups, AccumInv, OutInv,
         phase = "compact", compacting = {}
  PROVE  ListsGroups(out)
<1> DEFINE G == Groups!Groups
           KeyOf(s) == Decoded(tableKeys[s])
           n == counter
<1>1. FromInput /\ op \in Ops
  BY DEF AccumInv, IInv, TypeOK
<1>2. /\ \A s \in Occupied : KeyOf(s) \in G /\ RowsOf(s) = Groups!Members(KeyOf(s))
      /\ \A s, u \in Occupied : KeyOf(s) = KeyOf(u) => s = u
      /\ \A g \in G : \E s \in Occupied : KeyOf(s) = g
  BY <1>1, SlotKeys
<1>3. /\ \A s \in Occupied : tableGids[s] \in 0 .. n - 1
      /\ \A s, u \in Occupied : tableGids[s] = tableGids[u] => s = u
      /\ \A g \in 0 .. n - 1 : \E s \in Occupied : tableGids[s] = g
      /\ n \in Nat
  BY CellFacts
<1>4. ASSUME NEW s \in Occupied PROVE SlotEntry(s) = Groups!Entry(KeyOf(s))
  <2>1. \A p \in DOMAIN Passes : accum[p][tableGids[s]] = Folded(p, RowsOf(s))
    BY DEF AccumInv, EarlierPasses, InTable
  <2>2. [p \in DOMAIN Passes |-> accum[p][tableGids[s]]]
          = [p \in DOMAIN Passes |-> Folded(p, Groups!Members(KeyOf(s)))]
    BY <1>2, <2>1
  <2>3. [p \in DOMAIN Passes |-> Folded(p, Groups!Members(KeyOf(s)))]
          = Groups!Aggregate(Groups!Members(KeyOf(s)))
    <3> DEFINE g == KeyOf(s)
    <3>1. g \in Groups!Groups
      BY <1>2
    <3> HIDE DEF g
    <3>2. [p \in DOMAIN Passes |-> Folded(p, Groups!Members(g))]
            = Groups!Aggregate(Groups!Members(g))
      BY <1>1, <3>1, FoldedAggregates
    <3> QED BY <3>2 DEF g
  <2> QED BY <2>2, <2>3 DEF SlotEntry, Groups!Entry
<1>5. DOMAIN out = 1 .. n /\ out = [i \in 1 .. n |-> out[i]]
  BY DEF OutInv
<1>6. \A s \in Occupied : out[tableGids[s] + 1] = SlotEntry(s)
  BY DEF OutInv
<1> HIDE DEF KeyOf, G, n
<1>7. ASSUME NEW i \in 1 .. n
      PROVE  \E s \in Occupied : tableGids[s] + 1 = i /\ out[i] = Groups!Entry(KeyOf(s))
  <2>1. i - 1 \in 0 .. n - 1 /\ (i - 1) + 1 = i
    BY <1>3
  <2>2. PICK s \in Occupied : tableGids[s] = i - 1
    BY <1>3, <2>1
  <2> QED BY <1>4, <1>6, <2>1, <2>2
<1>8. ASSUME NEW g \in G PROVE \E i \in 1 .. n : out[i] = Groups!Entry(g)
  <2>1. PICK s \in Occupied : KeyOf(s) = g
    BY <1>2
  <2>2. tableGids[s] + 1 \in 1 .. n
    BY <1>3
  <2> QED BY <1>4, <1>6, <2>1, <2>2
<1>9. {out[i] : i \in DOMAIN out} = {Groups!Entry(g) : g \in G}
  BY <1>2, <1>5, <1>7, <1>8
<1>10. out \in Seq(Range(out)) /\ Len(out) = n
  <2>1. \A i \in 1 .. n : out[i] \in Range(out)
    BY <1>5 DEF Range
  <2> QED BY <1>3, <1>5, <2>1
<1>11. Cardinality(G) = n
  <2> DEFINE T == 1 .. n
             f == [i \in T |-> KeyOf(CHOOSE s \in Occupied : tableGids[s] + 1 = i)]
  <2>1. ASSUME NEW i \in T
        PROVE  \E s \in Occupied : tableGids[s] + 1 = i /\ f[i] = KeyOf(s)
    <3> DEFINE s == CHOOSE s \in Occupied : tableGids[s] + 1 = i
    <3>1. s \in Occupied /\ tableGids[s] + 1 = i
      BY <1>7
    <3>2. f[i] = KeyOf(s)
      OBVIOUS
    <3> HIDE DEF s, f
    <3> QED BY <3>1, <3>2
  <2>2. f = [i \in T |-> f[i]]
    OBVIOUS
  <2> HIDE DEF f
  <2>3. f \in [T -> G]
    BY <1>2, <2>1, <2>2
  <2>4. \A i, j \in T : f[i] = f[j] => i = j
    BY <1>2, <2>1
  <2>5. \A g \in G : \E i \in T : f[i] = g
    <3> SUFFICES ASSUME NEW g \in G PROVE \E i \in T : f[i] = g
      OBVIOUS
    <3>1. PICK s \in Occupied : KeyOf(s) = g
      BY <1>2
    <3>2. tableGids[s] + 1 \in T /\ tableGids[s] \in Int
      BY <1>3
    <3>3. PICK u \in Occupied : tableGids[u] + 1 = tableGids[s] + 1
                                /\ f[tableGids[s] + 1] = KeyOf(u)
      BY <2>1, <3>2
    <3>4. u = s
      <4>1. tableGids[u] \in Int
        BY <1>3
      <4> QED BY <1>3, <3>2, <3>3, <4>1
    <3> QED BY <3>1, <3>2, <3>3, <3>4
  <2>6. IsFiniteSet(T) /\ Cardinality(T) = n
    <3>1. IsFiniteSet(T) /\ Cardinality(T) = IF 1 > n THEN 0 ELSE n - 1 + 1
      BY <1>3, FS_Interval
    <3> QED BY <1>3, <3>1
  <2> HIDE DEF T
  <2>7. f \in Bijection(T, G)
    BY <2>3, <2>4, <2>5 DEF Bijection, Injection, Surjection, IsInjective
  <2>8. ExistsBijection(T, G)
    BY <2>7 DEF ExistsBijection
  <2> QED BY <2>6, <2>8, FS_Bijection
<1> QED BY <1>9, <1>10, <1>11 DEF ListsGroups, G

\* So does pandas' own answer.
LEMMA SortedLists ==
  ASSUME SoundValues, EncodesGroups, FromInput
  PROVE  ListsGroups(Groups!Sorted)
<1> DEFINE G == Groups!Groups
           n == Cardinality(G)
           key == [g \in G |-> g]
           number == [g \in G |-> Cardinality({h \in G : h <= g})]
           At(i) == CHOOSE g \in G : Cardinality({h \in G : h <= g}) = i
           cells == Groups!Sorted
<1>1. rows \in Seq(Row) /\ DOMAIN rows = 1 .. Len(rows) /\ Len(rows) \in Nat
  BY ThreadValues, GroupAssumption DEF Columns
<1>2. G \subseteq Int /\ IsFiniteSet(G)
  <2>1. \A i \in DOMAIN rows : Class[rows[i].key] \in Int
    <3>1. \A i \in DOMAIN rows : rows[i] \in Row
      BY <1>1
    <3> QED BY <3>1 DEF Row, EncodesGroups
  <2> DEFINE f == [i \in DOMAIN rows |-> Class[rows[i].key]]
             H == {f[i] : i \in DOMAIN rows}
  <2>2. IsFiniteSet(DOMAIN rows)
    <3> DEFINE m == Len(rows)
    <3> HIDE DEF m
    <3>1. IsFiniteSet(1 .. m)
      BY <1>1, FS_Interval DEF m
    <3> QED BY <1>1, <3>1 DEF m
  <2>3. IsFiniteSet(H)
    <3> DEFINE D == DOMAIN rows
    <3>1. f \in Surjection(D, H)
      BY DEF Surjection
    <3> HIDE DEF D, f, H
    <3>2. IsFiniteSet(H)
      BY <2>2, <3>1, FS_Surjection DEF D
    <3> QED BY <3>2
  <2>4. G \subseteq H
    BY DEF Groups!Groups
  <2>5. \A g \in G : g \in Int
    BY <2>1 DEF Groups!Groups
  <2> HIDE DEF G, H
  <2> QED BY <2>3, <2>4, <2>5, FS_Subset
<1>3. Groups!Cardinality(G) = n
      /\ \A g : Groups!Cardinality({h \in G : h <= g}) = Cardinality({h \in G : h <= g})
  BY GroupsCardinality
<1>4. cells = [i \in 1 .. n |-> Groups!Entry(At(i))]
  <2> DEFINE B(i) == CHOOSE g \in G : Groups!Cardinality({h \in G : h <= g}) = i
  <2>1. \A i : At(i) = B(i)
    BY DEF Groups!Cardinality, Cardinality
  <2>2. cells = [i \in 1 .. Groups!Cardinality(G) |-> Groups!Entry(B(i))]
    BY DEF Groups!Sorted
  <2> HIDE DEF n, G, cells, B, At
  <2>3. cells = [i \in 1 .. n |-> Groups!Entry(B(i))]
    BY <1>3, <2>2
  <2> QED BY <2>1, <2>3
<1> HIDE DEF G
<1>5. /\ \A g \in G : number[g] \in 1 .. n
      /\ \A g, h \in G : number[g] = number[h] => g = h
      /\ \A i \in 1 .. n : \E g \in G : number[g] = i
  <2>1. key \in [G -> Int] /\ \A a, b \in G : key[a] = key[b] => a = b
    BY <1>2
  <2>2. \A a \in G : number[a] = Cardinality(UpToKey(G, key, a))
    <3>1. ASSUME NEW a \in G PROVE UpToKey(G, key, a) = {h \in G : h <= a}
      BY DEF UpToKey
    <3> QED BY <3>1
  <2>3. IsFiniteSet(G)
    BY <1>2
  <2> HIDE DEF key, number
  <2>4. /\ \A a \in G : number[a] \in 1 .. Cardinality(G)
        /\ \A a, b \in G : number[a] = number[b] => a = b
        /\ \A i \in 1 .. Cardinality(G) : \E a \in G : number[a] = i
    BY <2>1, <2>2, <2>3, Numbering
  <2> QED BY <2>4
<1>6. n \in Nat
  BY <1>2, FS_CardinalityType
<1>7. \A i \in 1 .. n : At(i) \in G /\ number[At(i)] = i
  <2>1. \A g \in G : number[g] = Cardinality({h \in G : h <= g})
    OBVIOUS
  <2> HIDE DEF number
  <2>2. ASSUME NEW i \in 1 .. n PROVE At(i) \in G /\ number[At(i)] = i
    <3>1. \E g \in G : Cardinality({h \in G : h <= g}) = i
      <4>1. PICK g \in G : number[g] = i
        BY <1>5
      <4>2. number[g] = Cardinality({h \in G : h <= g})
        BY <2>1
      <4> QED BY <4>1, <4>2
    <3>2. At(i) \in G /\ Cardinality({h \in G : h <= At(i)}) = i
      BY <3>1
    <3> HIDE DEF At
    <3> QED BY <2>1, <3>2
  <2> HIDE DEF At
  <2> QED BY <2>2
<1> HIDE DEF number, At, n, cells
<1>8. \A g \in G : number[g] \in 1 .. n /\ At(number[g]) = g
  BY <1>5, <1>7
<1>9. DOMAIN cells = 1 .. n /\ Len(cells) = n /\ cells \in Seq(Range(cells))
  <2>1. DOMAIN cells = 1 .. n /\ cells = [i \in 1 .. n |-> cells[i]]
    BY <1>4
  <2>2. \A i \in 1 .. n : cells[i] \in Range(cells)
    BY <2>1 DEF Range
  <2> QED BY <1>6, <2>1, <2>2
<1>10. {cells[i] : i \in DOMAIN cells} = {Groups!Entry(g) : g \in G}
  <2>1. \A i \in 1 .. n : cells[i] = Groups!Entry(At(i)) /\ At(i) \in G
    BY <1>4, <1>7
  <2>2. \A g \in G : number[g] \in 1 .. n /\ cells[number[g]] = Groups!Entry(g)
    BY <1>4, <1>8
  <2> QED BY <1>9, <2>1, <2>2
<1> QED BY <1>9, <1>10 DEF ListsGroups, G, n, cells

\* The groups and their aggregates are those of the input.
LEMMA EntriesStay ==
  ASSUME UNCHANGED <<rows, op>>
  PROVE  /\ Groups!Groups' = Groups!Groups
         /\ \A g : Groups!Entry(g)' = Groups!Entry(g)
         /\ Groups!Sorted' = Groups!Sorted
         /\ \A cells : ListsGroups(cells)' = ListsGroups(cells)
<1>1. Groups!Groups' = Groups!Groups
  BY DEF Groups!Groups
<1>2. \A g : Groups!Members(g)' = Groups!Members(g)
  BY DEF Groups!Members
<1>3. \A I : Groups!SumOf(I)' = Groups!SumOf(I)
  <2>1. (\A I : Groups!SumOf(I) = SumOver(rows, I))'
    BY SumIsSumOver, PTL
  <2> QED BY <2>1, SumIsSumOver
<1>4. \A I : Groups!Aggregate(I)' = Groups!Aggregate(I)
  BY <1>3 DEF Groups!Aggregate
<1>5. \A g : Groups!Entry(g)' = Groups!Entry(g)
  BY <1>2, <1>4 DEF Groups!Entry
<1>6. Groups!Sorted' = Groups!Sorted
  BY <1>1, <1>5 DEF Groups!Sorted
<1>7. \A cells : ListsGroups(cells)' = ListsGroups(cells)
  BY <1>1, <1>5 DEF ListsGroups
<1> QED BY <1>1, <1>5, <1>6, <1>7

\* Cells that list the groups are an answer.
LEMMA ListsAnswers == phase = "done" /\ ListsGroups(out) => Groups!Answered
<1> SUFFICES ASSUME phase = "done", ListsGroups(out) PROVE Groups!Answered
  OBVIOUS
<1> DEFINE a == IF phase = "done" THEN <<out>> ELSE << >>
<1>1. Len(a) = 1 /\ a[1] = out
  OBVIOUS
<1>2. Len(out) = Groups!Cardinality(Groups!Groups)
  BY GroupsCardinality DEF ListsGroups
<1>3. {out[i] : i \in DOMAIN out} = {Groups!Entry(g) : g \in Groups!Groups}
  BY DEF ListsGroups
<1> QED BY <1>1, <1>2, <1>3 DEF Groups!Answered

AnswerInv == IInv /\ AccumInv /\ OutInv

\* Only the last step of the call, on the device or with pandas, answers.
LEMMA GroupStepAnswers ==
  ASSUME SoundTable, SoundValues, SoundGroups, AnswerInv, [Next]_vars
  PROVE  [Groups!Answer]_(Groups!vars)
<1>1. CASE UNCHANGED vars \/ Idle
  BY <1>1 DEF vars, Idle, Groups!vars
<1>2. CASE Finish \/ FallBack
  <2>1. UNCHANGED <<rows, op>> /\ phase # "done" /\ phase' = "done"
    BY <1>2 DEF Finish, FallBack, input
  <2>2. ListsGroups(out')
    <3>1. CASE Finish
      <4>1. phase = "compact" /\ compacting = {} /\ out' = out
        BY <3>1 DEF Finish, results
      <4> QED BY <4>1, CompactLists DEF AnswerInv
    <3>2. CASE FallBack
      <4>1. out' = Groups!Sorted
        BY <3>2 DEF FallBack
      <4>2. ListsGroups(Groups!Sorted)
        BY SortedLists DEF AnswerInv, AccumInv, SoundGroups
      <4> QED BY <4>1, <4>2
    <3> QED BY <1>2, <3>1, <3>2
  <2>3. ListsGroups(out)'
    BY <2>1, <2>2, EntriesStay DEF ListsGroups
  <2>4. (phase = "done" /\ ListsGroups(out) => Groups!Answered)'
    BY ListsAnswers, PTL
  <2>5. Groups!Answered'
    BY <2>1, <2>3, <2>4
  <2> QED BY <2>1, <2>5 DEF Groups!Answer, Groups!NoAnswer
<1>3. CASE StartBuild \/ StartAccumulate \/ StartCompact \/ DeviceError
  BY <1>3 DEF StartBuild, StartAccumulate, StartCompact, DeviceError, input, Groups!vars
<1>4. ASSUME NEW s \in compacting, CompactSlot(s) PROVE UNCHANGED Groups!vars
  BY <1>4 DEF CompactSlot, input, Groups!vars
<1>5. ASSUME NEW b \in Threads, BuildStep(b) \/ AccumulateStep(b) PROVE UNCHANGED Groups!vars
  BY <1>5 DEF BuildStep, LoadSlot, GiveUp, Claim, LoseSlot, ReloadSlot, DrawId, StoreId,
              Probing, AccumulateStep, SkipRow, FetchAccumulate, LoadAccumulator, Settle,
              Swap, LoseSwap, Accumulating, Swapping, input, Groups!vars
<1> QED BY <1>1, <1>2, <1>3, <1>4, <1>5 DEF Next, HostStep

\* What the caller of an aggregation sees is pandas' answer up to the order of
\* the groups, whether the device completes it or fails underway: an entry for
\* every key that occurs, with the aggregate of its values, and no other.  This
\* is GroupByIsCorrect without its liveness, for the DataFrame's group-bys of columns
\* without NaN and for calls of the engine whose masks mark every NaN; the DataFrame's
\* group-bys of columns that have a NaN are not among them.
THEOREM GroupByAnswersPandas ==
  SoundTable /\ NoBareNaN /\ NaNApart /\ SoundGroups =>
    (Spec => Groups!Init /\ [][Groups!Answer]_(Groups!vars))
<1> SUFFICES ASSUME SoundTable, SoundValues, SoundGroups
             PROVE  Spec => Groups!Init /\ [][Groups!Answer]_(Groups!vars)
  BY DEF SoundValues
<1>1. Init => AnswerInv /\ Groups!Init
  <2>1. Init => OutInv /\ Groups!Init
    BY DEF Init, OutInv, Groups!Init, Groups!NoAnswer
  <2> QED BY <2>1, InvInit, AccumInit DEF AnswerInv
<1>2. AnswerInv /\ [Next]_vars => AnswerInv' /\ [Groups!Answer]_(Groups!vars)
  <2>1. AnswerInv /\ [Next]_vars => AnswerInv'
    BY InvNext, AccumNext, OutNext DEF AnswerInv
  <2> QED BY <2>1, GroupStepAnswers
<1> QED BY <1>1, <1>2, PTL DEF Spec

=============================================================================
