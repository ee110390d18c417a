------------------------- MODULE FrameMerge_proofs -------------------------
(***************************************************************************)
(* Theorems about HashJoin, for columns of any length, any keys and any    *)
(* interleaving of the build threads: when no key is encoded as the empty  *)
(* slot and a compare-and-swap fails only over an occupied slot, the build *)
(* kernel gives every row a slot of its own and leaves no hole in front of *)
(* one, so that a probe finds exactly the rows with its key.               *)
(*                                                                         *)
(* When the number of pairs fits a word besides, the prefix sums give each *)
(* probe thread a stretch of the buffers as long as its matches, and what  *)
(* the threads write there are all pairs of rows, each of them once.       *)
(*                                                                         *)
(* The facts carry over to the join as merge() runs it, and with them the  *)
(* frame put together from the pairs and the rows left over has the rows   *)
(* pandas.merge promises: each step maps to the answer of PandasMerge or   *)
(* to none of its steps, wherever merge() turns to pandas.                 *)
(***************************************************************************)
EXTENDS FrameMerge, CommonLemmas, SequenceTheorems

\* The two conditions the table depends on.
SoundTable == ~WeakCas /\ \A k \in Keys : Encode[k] # Empty

-----------------------------------------------------------------------------
(* The size of a table and the slots of a key *)

\* A table is allocated, with at least twice as many slots as rows.
LEMMA TableSizeFacts ==
  ASSUME NEW n \in Nat,
         \E t \in PowersOfTwo :
           /\ Least(2 * n) <= t
           /\ \A u \in PowersOfTwo : Least(2 * n) <= u => t <= u
  PROVE  TableSizeFor(n) \in Nat \ {0} /\ 2 * n <= TableSizeFor(n)
<1>1. TableSizeFor(n) \in PowersOfTwo /\ Least(2 * n) <= TableSizeFor(n)
  BY DEF TableSizeFor
<1>2. TableSizeFor(n) \in Nat
  BY <1>1, KeyAssumption
<1> QED BY <1>1, <1>2, KeyAssumption DEF Least

\* The probe sequence of a key stays in the table and comes past every slot.
LEMMA SlotFacts ==
  ASSUME NEW k \in Keys, NEW size \in Nat \ {0}
  PROVE  /\ \A p \in 0 .. size - 1 : SlotAt(k, p, size) \in 0 .. size - 1
         /\ \A s \in 0 .. size - 1 : \E p \in 0 .. size - 1 : SlotAt(k, p, size) = s
<1>1. Home(k, size) \in 0 .. size - 1
  BY KeyAssumption DEF Home, Words
<1>2. ASSUME NEW p \in 0 .. size - 1
      PROVE  SlotAt(k, p, size) \in 0 .. size - 1
  BY <1>1 DEF SlotAt
<1>3. ASSUME NEW s \in 0 .. size - 1
      PROVE  \E p \in 0 .. size - 1 : SlotAt(k, p, size) = s
  <2> DEFINE p == IF s >= Home(k, size) THEN s - Home(k, size)
                                        ELSE s - Home(k, size) + size
  <2>1. p \in 0 .. size - 1 /\ SlotAt(k, p, size) = s
    BY <1>1 DEF SlotAt
  <2> QED BY <2>1
<1> QED BY <1>2, <1>3

-----------------------------------------------------------------------------
(* The invariant *)

\* Build thread b has a slot.
Holder(b) == phase # "build" \/ b \notin running \/ b \in claimed

\* Every thread that is through has a slot with its key, no two the same.
HoldersDistinct ==
  \A b \in DOMAIN build : Holder(b) =>
    /\ at[b] < Size
    /\ tableKeys[Slot(b)] = Encode[build[b]]
    /\ \A c \in DOMAIN build : Holder(c) /\ Slot(c) = Slot(b) => c = b

\* Every occupied slot is the slot of some thread.
SlotsHeld ==
  \A s \in Slots : tableKeys[s] # Empty =>
    \E b \in DOMAIN build : Holder(b) /\ Slot(b) = s

\* No slot a thread went past is empty.
PathsFull ==
  \A b \in DOMAIN build : \A q \in 0 .. at[b] - 1 :
    tableKeys[SlotAt(build[b], q, Size)] # Empty

\* A row index stands in the slot of its thread once that thread has
\* returned, and nowhere else.
RowsInPlace ==
  /\ \A b \in DOMAIN build : Holder(b) /\ b \notin claimed => tableRows[Slot(b)] = b
  /\ \A s \in Slots : tableRows[s] # NoRow =>
       Holder(tableRows[s]) /\ Slot(tableRows[s]) = s

TableInv == HoldersDistinct /\ SlotsHeld /\ PathsFull /\ RowsInPlace

\* A table is only there when both sides have rows.
IInv ==
  /\ TypeOK
  /\ InTable => build # << >> /\ TableInv

\* The sides and the size of the table, from the types.
LEMMA SideFacts ==
  ASSUME left \in LeftColumns, right \in RightColumns
  PROVE  /\ build \in Seq(Keys) /\ probe \in Seq(Keys)
         /\ DOMAIN build = 1 .. Len(build) /\ Len(build) \in Nat
         /\ \A b \in DOMAIN build : build[b] \in Keys
         /\ Size \in Nat \ {0} /\ 2 * Len(build) <= Size
<1>1. /\ left \in Seq(Keys) /\ Len(left) <= MaxRows
      /\ right \in Seq(Keys) /\ Len(right) <= MaxRows
  BY JoinAssumption
<1>2. build \in Seq(Keys) /\ probe \in Seq(Keys) /\ Len(build) <= MaxRows
  BY <1>1 DEF build, probe
<1>3. Len(build) \in 0 .. MaxRows
  BY <1>2, JoinAssumption
<1>4. Size \in Nat \ {0} /\ 2 * Len(build) <= Size
  BY <1>3, TableSizeFacts, JoinAssumption DEF Size
<1> HIDE DEF build
<1> QED BY <1>2, <1>3, <1>4

\* The same for a table that is there.
LEMMA TableFacts ==
  ASSUME IInv, InTable
  PROVE  /\ DOMAIN build = 1 .. Len(build) /\ Len(build) \in Nat \ {0}
         /\ \A b \in DOMAIN build : build[b] \in Keys /\ Encode[build[b]] \in Words
         /\ Size \in Nat \ {0} /\ 2 * Len(build) <= Size
         /\ at \in [DOMAIN build -> 0 .. Size]
         /\ \A b \in DOMAIN build : at[b] < Size => Slot(b) \in Slots
         /\ tableKeys \in [Slots -> Words]
         /\ tableRows \in [Slots -> DOMAIN build \cup {NoRow}]
<1>1. left \in LeftColumns /\ right \in RightColumns /\ build # << >>
  BY DEF IInv, TypeOK
<1>2. /\ build \in Seq(Keys)
      /\ DOMAIN build = 1 .. Len(build) /\ Len(build) \in Nat
      /\ \A b \in DOMAIN build : build[b] \in Keys
      /\ Size \in Nat \ {0} /\ 2 * Len(build) <= Size
  BY <1>1, SideFacts
<1>3. Len(build) # 0
  BY <1>1, <1>2
<1>4. /\ at \in [DOMAIN build -> 0 .. Size]
      /\ tableKeys \in [Slots -> Words]
      /\ tableRows \in [Slots -> DOMAIN build \cup {NoRow}]
  BY DEF IInv, TypeOK
<1>5. ASSUME NEW b \in DOMAIN build, at[b] < Size
      PROVE  Slot(b) \in Slots
  <2>1. at[b] \in 0 .. Size - 1
    BY <1>2, <1>4, <1>5
  <2> QED BY <1>2, <2>1, SlotFacts DEF Slot, Slots
<1>6. \A b \in DOMAIN build : Encode[build[b]] \in Words
  BY <1>2, KeyAssumption
<1> QED BY <1>2, <1>3, <1>4, <1>5, <1>6

-----------------------------------------------------------------------------
(* A table of twice as many slots as rows is never full *)

\* A thread that has not got a slot has not looked at all of them.
LEMMA NeverFull ==
  ASSUME IInv, InTable, NEW b \in DOMAIN build
  PROVE  at[b] # Size
<1> SUFFICES ASSUME at[b] = Size PROVE FALSE
  OBVIOUS
<1>1. \A s \in Slots : tableKeys[s] # Empty
  <2>1. \A s \in Slots : \E p \in 0 .. Size - 1 : SlotAt(build[b], p, Size) = s
    BY TableFacts, SlotFacts DEF Slots
  <2> QED BY <2>1 DEF IInv, TableInv, PathsFull
<1>2. \A s \in Slots : \E c \in DOMAIN build : Slot(c) = s
  BY <1>1 DEF IInv, TableInv, SlotsHeld
<1> DEFINE owner == [s \in Slots |-> CHOOSE c \in DOMAIN build : Slot(c) = s]
<1>3. \A s \in Slots : owner[s] \in DOMAIN build /\ Slot(owner[s]) = s
  BY <1>2
<1> HIDE DEF owner
<1>4. owner \in [Slots -> DOMAIN build]
  BY <1>3 DEF owner
<1>5. \A s, t \in Slots : owner[s] = owner[t] => s = t
  BY <1>3
<1>6. IsFiniteSet(DOMAIN build) /\ Cardinality(DOMAIN build) = Len(build)
  <2>1. PICK n \in Nat : DOMAIN build = 1 .. n /\ n = Len(build)
    BY TableFacts
  <2>2. IsFiniteSet(1 .. n) /\ Cardinality(1 .. n) = IF 1 > n THEN 0 ELSE n - 1 + 1
    BY FS_Interval
  <2>3. Cardinality(1 .. n) = n
    BY <2>2
  <2> QED BY <2>1, <2>2, <2>3
<1>7. IsFiniteSet(Slots) /\ Cardinality(Slots) = Size
  BY TableFacts, FS_Interval DEF Slots
<1>8. Cardinality(DOMAIN build) < Cardinality(Slots)
  BY <1>6, <1>7, TableFacts
<1>9. \E s, t \in Slots : s # t /\ owner[s] = owner[t]
  BY <1>4, <1>6, <1>7, <1>8, FS_PigeonHole
<1> QED BY <1>5, <1>9

-----------------------------------------------------------------------------
(* The steps preserve the invariant *)

\* The sides stay, and with them the size of the table and all slots.
LEMMA SidesStay ==
  ASSUME UNCHANGED <<left, right>>
  PROVE  build' = build /\ probe' = probe /\ Size' = Size /\ Slots' = Slots
  BY DEF build, probe, LeftIsBuild, Size, Slots

\* A step that leaves the table and who holds a slot in it.
LEMMA TableStays ==
  ASSUME TableInv,
         UNCHANGED <<left, right, at, claimed, tableKeys, tableRows>>,
         \A b : Holder(b)' <=> Holder(b)
  PROVE  TableInv'
<1>1. build' = build /\ Size' = Size /\ Slots' = Slots
  BY SidesStay
<1>2. \A b : Slot(b)' = Slot(b)
  BY <1>1 DEF Slot
<1>3. HoldersDistinct'
  BY <1>1, <1>2 DEF TableInv, HoldersDistinct
<1>4. SlotsHeld'
  BY <1>1, <1>2 DEF TableInv, SlotsHeld
<1>5. PathsFull'
  BY <1>1 DEF TableInv, PathsFull
<1>6. RowsInPlace'
  BY <1>1, <1>2 DEF TableInv, RowsInPlace
<1> QED BY <1>3, <1>4, <1>5, <1>6 DEF TableInv

LEMMA StartBuildKeeps ==
  ASSUME IInv, StartBuild
  PROVE  IInv'
<1>1. UNCHANGED <<left, right>> /\ left \in LeftColumns /\ right \in RightColumns
  BY DEF StartBuild, IInv, TypeOK
<1>2. build' = build /\ Size' = Size /\ Slots' = Slots
  BY <1>1, SidesStay
<1>3. /\ DOMAIN build = 1 .. Len(build) /\ Len(build) \in Nat
      /\ Size \in Nat \ {0}
  BY <1>1, SideFacts
<1>4. build # << >>
  BY DEF StartBuild, build
<1>5. /\ phase' = "build" /\ running' = DOMAIN build
      /\ found' = {} /\ claimed' = {}
      /\ at' = [b \in DOMAIN build |-> 0]
      /\ tableKeys' = [s \in Slots |-> Empty]
      /\ tableRows' = [s \in Slots |-> NoRow]
  BY DEF StartBuild, IInv, TypeOK
<1>6. TypeOK'
  <2>1. at' \in [DOMAIN build -> 0 .. Size]
    BY <1>3, <1>5
  <2>2. tableKeys' \in [Slots -> Words]
    BY <1>5, KeyAssumption DEF Words
  <2>3. tableRows' \in [Slots -> DOMAIN build \cup {NoRow}]
    BY <1>5
  <2> QED BY <1>1, <1>2, <1>5, <2>1, <2>2, <2>3 DEF TypeOK, Threads
<1>7. \A b \in DOMAIN build : ~Holder(b)'
  BY <1>5 DEF Holder
<1>8. HoldersDistinct'
  BY <1>2, <1>7 DEF HoldersDistinct
<1>9. SlotsHeld'
  BY <1>2, <1>5 DEF SlotsHeld
<1>10. PathsFull'
  BY <1>2, <1>5 DEF PathsFull
<1>11. RowsInPlace'
  BY <1>2, <1>5, <1>7 DEF RowsInPlace
<1> QED BY <1>2, <1>4, <1>6, <1>8, <1>9, <1>10, <1>11 DEF IInv, TableInv

\* A build thread looks at a slot, or loses one it saw empty: it does not hold
\* a slot, and goes on only past one that is occupied.
LEMMA LookKeeps ==
  ASSUME IInv, SoundTable, NEW b \in DOMAIN build, LoadSlot(b) \/ LoseSlot(b)
  PROVE  IInv'
<1>1. UNCHANGED <<left, right, phase, running, claimed, tableKeys, tableRows>>
  BY DEF LoadSlot, LoseSlot
<1>2. build' = build /\ Size' = Size /\ Slots' = Slots
  BY <1>1, SidesStay
<1>3. phase = "build" /\ b \in running /\ b \notin claimed /\ at[b] < Size
  BY DEF LoadSlot, LoseSlot, Probing, IInv, TypeOK, InTable
<1>4. InTable /\ TableInv /\ TypeOK /\ build # << >>
  BY <1>3 DEF IInv, InTable
<1>5. /\ at \in [DOMAIN build -> 0 .. Size]
      /\ Size \in Nat \ {0}
  BY <1>4, TableFacts
<1>6. \/ UNCHANGED at /\ found' = found \cup {b}
      \/ /\ tableKeys[Slot(b)] # Empty
         /\ at' = [at EXCEPT ![b] = @ + 1]
         /\ found' \subseteq found /\ b \notin found'
  BY DEF LoadSlot, LoseSlot, Advanced, SoundTable, Probing
<1>7. at' \in [DOMAIN build -> 0 .. Size]
  <2>1. at[b] + 1 \in 0 .. Size
    BY <1>3, <1>5
  <2> QED BY <1>5, <1>6, <2>1
<1>8. \A c \in DOMAIN build : c # b => at'[c] = at[c]
  BY <1>5, <1>6
<1>9. ASSUME NEW q \in 0 .. at'[b] - 1, q \notin 0 .. at[b] - 1
       PROVE  q = at[b] /\ tableKeys[Slot(b)] # Empty
  <2>1. at[b] \in Nat /\ at'[b] \in {at[b], at[b] + 1}
    BY <1>5, <1>6
  <2>2. q = at[b] /\ at'[b] # at[b]
    BY <1>9, <2>1
  <2> QED BY <1>6, <2>2
<1>10. TypeOK'
  <2>1. found' \subseteq running' /\ claimed' \subseteq running' \ found'
    BY <1>1, <1>3, <1>4, <1>6 DEF TypeOK
  <2>2. \A c \in found' \cup claimed' : at'[c] < Size
    BY <1>1, <1>3, <1>4, <1>6, <1>8 DEF TypeOK, Threads
  <2>3. running' \subseteq Threads'
    BY <1>1, <1>2, <1>4, SidesStay DEF TypeOK, Threads
  <2> QED BY <1>1, <1>2, <1>3, <1>4, <1>7, <2>1, <2>2, <2>3 DEF TypeOK, InTable
<1>11. \A c : Holder(c)' <=> Holder(c)
  BY <1>1 DEF Holder
<1>12. ~Holder(b)
  BY <1>3 DEF Holder
<1>13. \A c \in DOMAIN build : Holder(c) => Slot(c)' = Slot(c) /\ at'[c] = at[c]
  BY <1>2, <1>8, <1>12 DEF Slot
<1>14. HoldersDistinct'
  BY <1>1, <1>2, <1>4, <1>11, <1>13 DEF TableInv, HoldersDistinct
<1>15. SlotsHeld'
  BY <1>1, <1>2, <1>4, <1>11, <1>13 DEF TableInv, SlotsHeld
<1>16. PathsFull'
  <2>1. ASSUME NEW c \in DOMAIN build, NEW q \in 0 .. at'[c] - 1
        PROVE  tableKeys[SlotAt(build[c], q, Size)] # Empty
    <3>1. CASE c = b
      BY <1>4, <1>9, <2>1, <3>1 DEF TableInv, PathsFull, Slot
    <3>2. CASE c # b
      BY <1>4, <1>8, <2>1, <3>2 DEF TableInv, PathsFull
    <3> QED BY <3>1, <3>2
  <2> QED BY <1>1, <1>2, <2>1 DEF PathsFull
<1>17. RowsInPlace'
  <2>1. \A s \in Slots : tableRows[s] # NoRow => tableRows[s] \in DOMAIN build
    BY <1>4, TableFacts
  <2> QED BY <1>1, <1>2, <1>4, <1>11, <1>13, <2>1 DEF TableInv, RowsInPlace
<1> QED BY <1>2, <1>4, <1>10, <1>14, <1>15, <1>16, <1>17 DEF IInv, TableInv

\* A thread that claims a slot is the only one that holds it.
LEMMA ClaimKeeps ==
  ASSUME IInv, SoundTable, NEW b \in DOMAIN build, Claim(b)
  PROVE  IInv'
<1>1. /\ UNCHANGED <<left, right, phase, running, at, tableRows>>
      /\ b \in found /\ tableKeys[Slot(b)] = Empty
      /\ tableKeys' = [tableKeys EXCEPT ![Slot(b)] = Encode[build[b]]]
      /\ found' = found \ {b} /\ claimed' = claimed \cup {b}
  BY DEF Claim, MayClaim
<1>2. build' = build /\ Size' = Size /\ Slots' = Slots
  BY <1>1, SidesStay
<1>3. TypeOK /\ phase = "build" /\ b \in running /\ b \notin claimed /\ at[b] < Size
  BY <1>1 DEF IInv, TypeOK, InTable
<1>4. InTable /\ TableInv /\ build # << >>
  BY <1>3 DEF IInv, InTable
<1>5. /\ Slot(b) \in Slots
      /\ tableKeys \in [Slots -> Words]
      /\ \A c \in DOMAIN build : build[c] \in Keys /\ Encode[build[c]] \in Words
  BY <1>3, <1>4, TableFacts
<1>6. Encode[build[b]] \in Words \ {Empty}
  BY <1>5 DEF SoundTable
<1>7. /\ tableKeys' \in [Slots -> Words]
      /\ tableKeys'[Slot(b)] = Encode[build[b]]
      /\ \A s \in Slots : s # Slot(b) => tableKeys'[s] = tableKeys[s]
  BY <1>1, <1>5
<1>8. TypeOK'
  <2>1. found' \subseteq running' /\ claimed' \subseteq running' \ found'
    BY <1>1, <1>3 DEF TypeOK
  <2>2. \A c \in found' \cup claimed' : at'[c] < Size
    BY <1>1, <1>3, <1>4 DEF TypeOK
  <2> QED BY <1>1, <1>2, <1>3, <1>7, <2>1, <2>2 DEF TypeOK, InTable, Threads
<1>9. \A c : Holder(c)' <=> Holder(c) \/ c = b
  BY <1>1 DEF Holder
<1>10. \A c : Slot(c)' = Slot(c)
  BY <1>1, <1>2 DEF Slot
<1>11. \A c \in DOMAIN build : Holder(c) =>
         Slot(c) \in Slots /\ tableKeys[Slot(c)] # Empty /\ Slot(c) # Slot(b)
  <2>1. \A c \in DOMAIN build : Holder(c) =>
          at[c] < Size /\ tableKeys[Slot(c)] = Encode[build[c]]
    BY <1>4 DEF TableInv, HoldersDistinct
  <2> QED BY <1>1, <1>4, <1>5, <2>1, TableFacts DEF SoundTable
<1>12. HoldersDistinct'
  <2>1. ASSUME NEW c \in DOMAIN build, Holder(c)'
        PROVE  at[c] < Size /\ tableKeys'[Slot(c)] = Encode[build[c]]
    BY <1>3, <1>4, <1>7, <1>9, <1>11, <2>1 DEF TableInv, HoldersDistinct
  <2>2. ASSUME NEW c \in DOMAIN build, Holder(c)',
               NEW d \in DOMAIN build, Holder(d)', Slot(d) = Slot(c)
        PROVE  d = c
    BY <1>4, <1>9, <1>11, <2>2 DEF TableInv, HoldersDistinct
  <2> QED BY <1>1, <1>2, <1>10, <2>1, <2>2 DEF HoldersDistinct
<1>13. SlotsHeld'
  BY <1>2, <1>4, <1>7, <1>9, <1>10 DEF TableInv, SlotsHeld
<1>14. PathsFull'
  <2>1. ASSUME NEW c \in DOMAIN build, NEW q \in 0 .. at[c] - 1
        PROVE  tableKeys'[SlotAt(build[c], q, Size)] # Empty
    <3>1. tableKeys[SlotAt(build[c], q, Size)] # Empty
      BY <1>4 DEF TableInv, PathsFull
    <3>2. SlotAt(build[c], q, Size) \in Slots
      <4>1. /\ Size \in Nat \ {0}
            /\ at \in [DOMAIN build -> 0 .. Size]
        BY <1>4, TableFacts
      <4>2. q \in 0 .. Size - 1
        BY <4>1
      <4> QED BY <1>5, <4>1, <4>2, SlotFacts DEF Slots
    <3> QED BY <1>6, <1>7, <3>1, <3>2
  <2> QED BY <1>1, <1>2, <2>1 DEF PathsFull
<1>15. RowsInPlace'
  BY <1>1, <1>2, <1>3, <1>4, <1>9, <1>10 DEF TableInv, RowsInPlace
<1> QED BY <1>2, <1>4, <1>8, <1>12, <1>13, <1>14, <1>15 DEF IInv, TableInv

\* The row goes into the slot its thread holds, which is no one else's.
LEMMA StoreKeeps ==
  ASSUME IInv, NEW b \in DOMAIN build, StoreRow(b)
  PROVE  IInv'
<1>1. /\ UNCHANGED <<left, right, phase, at, found, tableKeys>>
      /\ b \in claimed
      /\ tableRows' = [tableRows EXCEPT ![Slot(b)] = b]
      /\ claimed' = claimed \ {b} /\ running' = running \ {b}
  BY DEF StoreRow
<1>2. build' = build /\ probe' = probe /\ Size' = Size /\ Slots' = Slots
  BY <1>1, SidesStay
<1>3. TypeOK /\ phase = "build" /\ b \in running /\ b \notin found /\ at[b] < Size
  BY <1>1 DEF IInv, TypeOK, InTable
<1>4. InTable /\ TableInv /\ build # << >>
  BY <1>3 DEF IInv, InTable
<1>5. /\ Slot(b) \in Slots
      /\ tableRows \in [Slots -> DOMAIN build \cup {NoRow}]
  BY <1>3, <1>4, TableFacts
<1>6. /\ tableRows' \in [Slots -> DOMAIN build \cup {NoRow}]
      /\ tableRows'[Slot(b)] = b
      /\ \A s \in Slots : s # Slot(b) => tableRows'[s] = tableRows[s]
  BY <1>1, <1>5
<1>7. TypeOK'
  <2>1. running' \subseteq Threads' /\ found' \subseteq running'
        /\ claimed' \subseteq running' \ found'
    BY <1>1, <1>2, <1>3 DEF TypeOK, Threads
  <2> QED BY <1>1, <1>2, <1>3, <1>4, <1>6, <2>1 DEF TypeOK, InTable
<1>8. Holder(b) /\ \A c : Holder(c)' <=> Holder(c)
  BY <1>1, <1>3 DEF Holder
<1>9. \A c : Slot(c)' = Slot(c)
  BY <1>1, <1>2 DEF Slot
<1>10. HoldersDistinct'
  BY <1>1, <1>2, <1>4, <1>8, <1>9 DEF TableInv, HoldersDistinct
<1>11. SlotsHeld'
  BY <1>1, <1>2, <1>4, <1>8, <1>9 DEF TableInv, SlotsHeld
<1>12. PathsFull'
  BY <1>1, <1>2, <1>4 DEF TableInv, PathsFull
<1>13. RowsInPlace'
  <2>1. ASSUME NEW c \in DOMAIN build, Holder(c), c \notin claimed \/ c = b
        PROVE  tableRows'[Slot(c)] = c
    <3>1. CASE c = b
      BY <1>6, <3>1
    <3>2. CASE c # b
      <4>1. Slot(c) # Slot(b) /\ at[c] < Size
        BY <1>4, <1>8, <2>1, <3>2 DEF TableInv, HoldersDistinct
      <4>2. Slot(c) \in Slots
        BY <1>4, <4>1, TableFacts
      <4>3. tableRows[Slot(c)] = c
        BY <1>4, <2>1, <3>2 DEF TableInv, RowsInPlace
      <4> QED BY <1>6, <4>1, <4>2, <4>3
    <3> QED BY <3>1, <3>2
  <2>2. ASSUME NEW s \in Slots, tableRows'[s] # NoRow
        PROVE  Holder(tableRows'[s]) /\ Slot(tableRows'[s]) = s
    BY <1>4, <1>6, <1>8, <2>2 DEF TableInv, RowsInPlace
  <2> QED BY <1>1, <1>2, <1>8, <1>9, <2>1, <2>2 DEF RowsInPlace
<1> QED BY <1>2, <1>4, <1>7, <1>10, <1>11, <1>12, <1>13 DEF IInv, TableInv

\* Once the build kernel has completed, nobody writes the table.
LEMMA ProbingKeeps ==
  ASSUME IInv,
         (phase = "build" /\ running = {}) \/ phase \in {"count", "write"},
         phase' \in {"count", "write"}, running' \subseteq DOMAIN probe,
         UNCHANGED <<left, right, at, found, claimed, tableKeys, tableRows>>,
         phase' = "write" => PairsTyped'
  PROVE  IInv'
<1>1. InTable /\ InTable' /\ TypeOK /\ TableInv /\ build # << >>
  BY DEF InTable, IInv
<1>2. build' = build /\ probe' = probe /\ Size' = Size /\ Slots' = Slots
  BY SidesStay
<1>3. found = {} /\ claimed = {}
  BY <1>1 DEF TypeOK
<1>4. TypeOK'
  BY <1>1, <1>2, <1>3 DEF TypeOK, Threads
<1>5. \A b : Holder(b) /\ Holder(b)'
  BY DEF Holder
<1>6. TableInv'
  BY <1>1, <1>5, TableStays
<1> QED BY <1>1, <1>2, <1>4, <1>6 DEF IInv

\* A thread of the write kernel stores the row of a slot and its own, in the
\* order of the frames.
LEMMA PairsStayTyped ==
  ASSUME IInv, NEW r \in DOMAIN probe, WriteMatches(r)
  PROVE  PairsTyped'
<1>1. phase = "write" /\ InTable /\ PairsTyped
  BY DEF WriteMatches, InTable, IInv, TypeOK
<1>2. build # << >> /\ tableRows \in [Slots -> DOMAIN build \cup {NoRow}]
  BY <1>1 DEF IInv, TypeOK
<1>3. ASSUME NEW b \in DOMAIN build \cup {NoRow}
      PROVE  Pair(b, r) \in (DOMAIN left \cup {NoRow}) \X (DOMAIN right \cup {NoRow})
  BY <1>3 DEF Pair, build, probe
<1>4. ASSUME NEW p \in Hits(probe[r])
      PROVE  SlotAt(probe[r], p, Size) \in Slots
  <2>1. p \in 0 .. Size - 1
    BY <1>4 DEF Hits
  <2>2. probe \in Seq(Keys) /\ Size \in Nat \ {0}
    BY SideFacts DEF IInv, TypeOK
  <2>3. probe[r] \in Keys
    BY <2>2
  <2> QED BY <2>1, <2>2, <2>3, SlotFacts DEF Slots
<1>5. /\ DOMAIN pairs' = DOMAIN pairs
      /\ \A i \in DOMAIN pairs :
           \/ pairs'[i] = pairs[i]
           \/ \E p \in Hits(probe[r]) :
                pairs'[i] = Pair(tableRows[SlotAt(probe[r], p, Size)], r)
  BY DEF WriteMatches
<1>6. UNCHANGED <<left, right>>
  BY DEF WriteMatches
<1> QED BY <1>1, <1>2, <1>3, <1>4, <1>5, <1>6 DEF PairsTyped

\* A step to a phase without a table.
LEMMA AwayKeeps ==
  ASSUME IInv, phase' \in {"pandas", "done"}, running' \subseteq DOMAIN probe,
         UNCHANGED <<left, right>>, found' = {}, claimed' = {}
  PROVE  IInv'
<1>1. probe' = probe
  BY SidesStay
<1>2. TypeOK'
  BY <1>1 DEF IInv, TypeOK, Threads, InTable
<1> QED BY <1>2 DEF IInv, InTable

LEMMA InvInit == Init => IInv
  BY DEF Init, IInv, TypeOK, InTable

LEMMA InvNext ==
  ASSUME IInv, SoundTable, [Next]_vars
  PROVE  IInv'
<1>1. CASE UNCHANGED vars
  <2>1. UNCHANGED <<left, right, phase, running, at, found, claimed, tableKeys, tableRows>>
    BY <1>1 DEF vars
  <2>2. /\ build' = build /\ probe' = probe /\ Size' = Size /\ Slots' = Slots
        /\ \A b : Holder(b)' <=> Holder(b)
    BY <2>1, SidesStay DEF Holder
  <2>3. TypeOK' /\ (InTable' <=> InTable)
    BY <1>1, <2>1, <2>2 DEF vars, IInv, TypeOK, InTable, Threads, PairsTyped
  <2>4. InTable => TableInv'
    BY <2>1, <2>2, TableStays DEF IInv
  <2> QED BY <2>2, <2>3, <2>4 DEF IInv
<1>2. CASE EmptySide
  BY <1>2, AwayKeeps DEF EmptySide, IInv, TypeOK, Threads
<1>3. CASE StartBuild
  BY <1>3, StartBuildKeeps
<1>4. CASE StartCount
  BY <1>4, ProbingKeeps DEF StartCount
<1>5. CASE NoMatches
  BY <1>5, AwayKeeps DEF NoMatches, IInv, TypeOK, Threads
<1>6. CASE StartWrite
  <2>1. PairsTyped'
    BY <1>6 DEF StartWrite, PairsTyped, Unwritten, NoRow
  <2> QED BY <1>6, <2>1, ProbingKeeps DEF StartWrite
<1>7. CASE Finish
  BY <1>7, AwayKeeps DEF Finish, IInv, TypeOK, Threads
<1>8. CASE FallBack
  BY <1>8, AwayKeeps DEF FallBack, IInv, TypeOK, Threads
<1>9. ASSUME NEW b \in DOMAIN build, BuildStep(b) PROVE IInv'
  <2>1. CASE LoadSlot(b) \/ LoseSlot(b)
    BY <2>1, LookKeeps
  <2>2. CASE GiveUp(b)
    BY <2>2, NeverFull DEF GiveUp, Probing, InTable
  <2>3. CASE Claim(b)
    BY <2>3, ClaimKeeps
  <2>4. CASE StoreRow(b)
    BY <2>4, StoreKeeps
  <2> QED BY <1>9, <2>1, <2>2, <2>3, <2>4 DEF BuildStep
<1>10. ASSUME NEW r \in DOMAIN probe, ProbeStep(r) PROVE IInv'
  <2>1. phase \in {"count", "write"} /\ running' = running \ {r}
    BY <1>10 DEF ProbeStep, CountMatches, WriteMatches
  <2>2. running \subseteq DOMAIN probe
    BY <2>1 DEF IInv, TypeOK, Threads
  <2>3. phase' = "write" => PairsTyped'
    BY <1>10, PairsStayTyped DEF ProbeStep, CountMatches
  <2> QED BY <1>10, <2>1, <2>2, <2>3, ProbingKeeps DEF ProbeStep, CountMatches, WriteMatches
<1>11. CASE DeviceError
  BY <1>11, AwayKeeps DEF DeviceError
<1>12. CASE Returned
  BY <1>12, <1>1 DEF Returned
<1> QED BY <1>1, <1>2, <1>3, <1>4, <1>5, <1>6, <1>7, <1>8, <1>9, <1>10, <1>11, <1>12
        DEF Next, HostStep

LEMMA Invariance == SoundTable => (Spec => []IInv)
<1>1. SoundTable /\ IInv /\ [Next]_vars => IInv'
  BY InvNext
<1>2. CASE SoundTable
  <2>1. IInv /\ [Next]_vars => IInv'
    BY <1>1, <1>2
  <2> QED BY <2>1, InvInit, PTL DEF Spec
<1> QED BY <1>2

-----------------------------------------------------------------------------
(* What the invariant says of the table *)

LEMMA InvNoHole == IInv => NoHole
BY DEF IInv, InTable, TableInv, PathsFull, NoHole

LEMMA InvProbesFindRows ==
  ASSUME IInv, SoundTable
  PROVE  ProbesFindRows
<1> SUFFICES ASSUME phase \in {"count", "write"}, NEW k \in Keys
             PROVE  {tableRows[SlotAt(k, p, Size)] : p \in Hits(k)}
                      = {b \in DOMAIN build : Encode[build[b]] = Encode[k]}
  BY DEF ProbesFindRows
<1>1. InTable /\ TableInv /\ claimed = {} /\ \A b : Holder(b)
  BY DEF IInv, TypeOK, InTable, Holder
<1>2. /\ Size \in Nat \ {0}
      /\ at \in [DOMAIN build -> 0 .. Size]
  BY <1>1, TableFacts
<1>3. ASSUME NEW p \in Hits(k)
      PROVE  /\ tableRows[SlotAt(k, p, Size)] \in DOMAIN build
             /\ Encode[build[tableRows[SlotAt(k, p, Size)]]] = Encode[k]
  <2>1. /\ p \in 0 .. Size - 1
        /\ tableKeys[SlotAt(k, p, Size)] = Encode[k]
    BY DEF Hits
  <2>2. SlotAt(k, p, Size) \in Slots /\ Encode[k] # Empty
    BY <1>2, <2>1, SlotFacts DEF Slots, SoundTable
  <2>3. PICK b \in DOMAIN build : Slot(b) = SlotAt(k, p, Size)
    BY <1>1, <2>1, <2>2 DEF TableInv, SlotsHeld
  <2>4. tableKeys[Slot(b)] = Encode[build[b]] /\ tableRows[Slot(b)] = b
    BY <1>1 DEF TableInv, HoldersDistinct, RowsInPlace
  <2> QED BY <2>1, <2>3, <2>4
<1>4. ASSUME NEW b \in DOMAIN build, Encode[build[b]] = Encode[k]
      PROVE  \E p \in Hits(k) : tableRows[SlotAt(k, p, Size)] = b
  <2>1. \A q : SlotAt(k, q, Size) = SlotAt(build[b], q, Size)
    BY <1>4 DEF SlotAt, Home
  <2>2. /\ at[b] < Size
        /\ tableKeys[Slot(b)] = Encode[k] /\ tableRows[Slot(b)] = b
    BY <1>1, <1>4 DEF TableInv, HoldersDistinct, RowsInPlace
  <2>3. at[b] \in 0 .. Size - 1
    BY <1>2, <2>2
  <2>4. ASSUME NEW q \in 0 .. at[b]
        PROVE  tableKeys[SlotAt(k, q, Size)] # Empty
    <3>1. CASE q = at[b]
      BY <2>1, <2>2, <3>1 DEF Slot, SoundTable
    <3>2. CASE q # at[b]
      <4>1. q \in 0 .. at[b] - 1
        BY <2>3, <3>2
      <4> QED BY <1>1, <2>1, <4>1 DEF TableInv, PathsFull
    <3> QED BY <3>1, <3>2
  <2>5. at[b] \in Hits(k)
    BY <2>1, <2>2, <2>3, <2>4 DEF Hits, Slot
  <2> QED BY <2>1, <2>2, <2>5 DEF Slot
<1> QED BY <1>3, <1>4

-----------------------------------------------------------------------------
(* What a probe finds *)

\* The probe sequence of a key comes past no slot twice.
LEMMA SlotsDiffer ==
  ASSUME NEW k \in Keys, NEW size \in Nat \ {0},
         NEW p \in 0 .. size - 1, NEW q \in 0 .. size - 1,
         SlotAt(k, p, size) = SlotAt(k, q, size)
  PROVE  p = q
<1>1. Home(k, size) \in 0 .. size - 1
  BY KeyAssumption DEF Home, Words
<1> QED BY <1>1 DEF SlotAt

\* The row a probe of r finds at probe number p.
RowAt(r, p) == tableRows[SlotAt(probe[r], p, Size)]

\* A probe finds every row with the key of its own, and none twice.
LEMMA HitFacts ==
  ASSUME IInv, SoundTable, phase \in {"count", "write"}, NEW r \in DOMAIN probe
  PROVE  /\ IsFiniteSet(Hits(probe[r]))
         /\ Hits(probe[r]) \subseteq 0 .. Size - 1
         /\ \A p \in Hits(probe[r]) :
              /\ RowAt(r, p) \in DOMAIN build
              /\ Encode[build[RowAt(r, p)]] = Encode[probe[r]]
         /\ \A p, q \in Hits(probe[r]) : RowAt(r, p) = RowAt(r, q) => p = q
         /\ \A b \in DOMAIN build :
              Encode[build[b]] = Encode[probe[r]] => \E p \in Hits(probe[r]) : RowAt(r, p) = b
<1>1. InTable /\ TableInv
  BY DEF IInv, InTable
<1>2. Size \in Nat \ {0} /\ DOMAIN build = 1 .. Len(build) /\ Len(build) \in Nat
  BY <1>1, TableFacts
<1>3. probe[r] \in Keys
  <2>1. probe \in Seq(Keys)
    BY SideFacts DEF IInv, TypeOK
  <2> QED BY <2>1
<1>4. Hits(probe[r]) \subseteq 0 .. Size - 1
  BY DEF Hits
<1>5. IsFiniteSet(Hits(probe[r]))
  <2>1. IsFiniteSet(0 .. Size - 1)
    BY <1>2, FS_Interval
  <2> QED BY <1>4, <2>1, FS_Subset
<1>6. {tableRows[SlotAt(probe[r], p, Size)] : p \in Hits(probe[r])}
        = {b \in DOMAIN build : Encode[build[b]] = Encode[probe[r]]}
  BY <1>3, InvProbesFindRows DEF ProbesFindRows
<1>7. ASSUME NEW p \in Hits(probe[r])
      PROVE  /\ RowAt(r, p) \in DOMAIN build
             /\ Encode[build[RowAt(r, p)]] = Encode[probe[r]]
             /\ Slot(RowAt(r, p)) = SlotAt(probe[r], p, Size)
  <2>1. RowAt(r, p) \in DOMAIN build /\ Encode[build[RowAt(r, p)]] = Encode[probe[r]]
    BY <1>6 DEF RowAt
  <2>2. SlotAt(probe[r], p, Size) \in Slots
    BY <1>2, <1>3, <1>4, SlotFacts DEF Slots
  <2>3. RowAt(r, p) # NoRow
    BY <1>2, <2>1 DEF NoRow
  <2> QED BY <1>1, <2>1, <2>2, <2>3 DEF TableInv, RowsInPlace, RowAt
<1>8. ASSUME NEW p \in Hits(probe[r]), NEW q \in Hits(probe[r]), RowAt(r, p) = RowAt(r, q)
      PROVE  p = q
  <2>1. SlotAt(probe[r], p, Size) = SlotAt(probe[r], q, Size)
    BY <1>7, <1>8
  <2> QED BY <1>2, <1>3, <1>4, <2>1, SlotsDiffer
<1>9. ASSUME NEW b \in DOMAIN build, Encode[build[b]] = Encode[probe[r]]
      PROVE  \E p \in Hits(probe[r]) : RowAt(r, p) = b
  BY <1>6, <1>9 DEF RowAt
<1> QED BY <1>4, <1>5, <1>7, <1>8, <1>9

\* The pairs of rows with keys of one encoding.
MatchesOf(l, r) ==
  {m \in (DOMAIN l) \X (DOMAIN r) : Encode[l[m[1]]] = Encode[r[m[2]]]}

\* The number of pairs fits a word.
FewMatches ==
  \A l \in LeftColumns, r \in RightColumns : Cardinality(MatchesOf(l, r)) < CountMod

\* The row of the probe side in a pair.
ProbeRow(m) == IF LeftIsBuild THEN m[2] ELSE m[1]
BuildRow(m) == IF LeftIsBuild THEN m[1] ELSE m[2]

\* Pairs are put together from rows with one encoding, and come apart again.
LEMMA PairFacts ==
  /\ \A b \in DOMAIN build, r \in DOMAIN probe :
       /\ Encode[build[b]] = Encode[probe[r]] => Pair(b, r) \in MatchesOf(left, right)
       /\ BuildRow(Pair(b, r)) = b /\ ProbeRow(Pair(b, r)) = r
  /\ \A m \in MatchesOf(left, right) :
       /\ BuildRow(m) \in DOMAIN build /\ ProbeRow(m) \in DOMAIN probe
       /\ Encode[build[BuildRow(m)]] = Encode[probe[ProbeRow(m)]]
       /\ m = Pair(BuildRow(m), ProbeRow(m))
<1>1. CASE LeftIsBuild
  BY <1>1 DEF Pair, MatchesOf, build, probe, ProbeRow, BuildRow
<1>2. CASE ~LeftIsBuild
  BY <1>2 DEF Pair, MatchesOf, build, probe, ProbeRow, BuildRow
<1> QED BY <1>1, <1>2

\* There are finitely many pairs.
LEMMA MatchesFinite ==
  ASSUME left \in LeftColumns, right \in RightColumns
  PROVE  IsFiniteSet(MatchesOf(left, right))
<1>1. left \in Seq(Keys) /\ right \in Seq(Keys)
  BY JoinAssumption
<1> DEFINE m == Len(left)
           n == Len(right)
<1>2. DOMAIN left = 1 .. m /\ DOMAIN right = 1 .. n /\ m \in Nat /\ n \in Nat
  BY <1>1
<1> HIDE DEF m, n
<1>3. IsFiniteSet(1 .. m) /\ IsFiniteSet(1 .. n)
  BY <1>2, FS_Interval
<1>4. IsFiniteSet((1 .. m) \X (1 .. n))
  BY <1>3, FS_Product
<1>5. MatchesOf(left, right) \subseteq (1 .. m) \X (1 .. n)
  BY <1>2 DEF MatchesOf
<1> QED BY <1>4, <1>5, FS_Subset

\* All matches have been counted.
Counted ==
  /\ counts \in [DOMAIN probe -> Nat]
  /\ \A r \in DOMAIN probe : counts[r] = Cardinality(Hits(probe[r]))

\* A pair for each match of a thread: together they are at most all pairs.
LEMMA CountsFit ==
  ASSUME IInv, SoundTable, FewMatches, phase \in {"count", "write"}, Counted
  PROVE  /\ Len(probe) \in Nat /\ DOMAIN probe = 1 .. Len(probe)
         /\ counts \in [1 .. Len(probe) -> Nat]
         /\ SumOfFirst(counts, Len(probe)) < CountMod
<1> DEFINE M == MatchesOf(left, right)
           n == Len(probe)
           number == [m \in M |-> ProbeRow(m)]
<1>1. left \in LeftColumns /\ right \in RightColumns
  BY DEF IInv, TypeOK
<1>2. n \in Nat /\ DOMAIN probe = 1 .. n
  <2>1. probe \in Seq(Keys)
    BY <1>1, SideFacts
  <2> QED BY <2>1
<1>3. IsFiniteSet(M) /\ Cardinality(M) < CountMod
  BY <1>1, MatchesFinite DEF FewMatches
<1>4. number \in [M -> Int]
  BY <1>2, PairFacts
<1>5. counts \in [1 .. n -> Nat]
  BY <1>2 DEF Counted
<1>6. ASSUME NEW r \in 1 .. n PROVE counts[r] <= Cardinality(PartOf(M, number, r))
  <2> DEFINE H == Hits(probe[r])
             P == PartOf(M, number, r)
             f == [p \in H |-> Pair(RowAt(r, p), r)]
  <2>1. r \in DOMAIN probe
    BY <1>2
  <2>2. /\ \A p \in H : RowAt(r, p) \in DOMAIN build
                        /\ Encode[build[RowAt(r, p)]] = Encode[probe[r]]
        /\ \A p, q \in H : RowAt(r, p) = RowAt(r, q) => p = q
    BY <2>1, HitFacts
  <2>3. \A p \in H : f[p] \in M /\ ProbeRow(f[p]) = r /\ BuildRow(f[p]) = RowAt(r, p)
    BY <2>1, <2>2, PairFacts
  <2>4. \A p \in H : f[p] \in P
    BY <2>3 DEF PartOf
  <2>5. f \in Injection(H, P)
    BY <2>2, <2>3, <2>4 DEF Injection, IsInjective
  <2>6. P \subseteq M
    BY DEF PartOf
  <2>7. counts[r] = Cardinality(H)
    BY <2>1 DEF Counted
  <2> HIDE DEF H, P, f, M
  <2>8. IsFiniteSet(P)
    BY <1>3, <2>6, FS_Subset
  <2>9. Cardinality(H) <= Cardinality(P)
    BY <2>5, <2>8, FS_Injection
  <2> QED BY <2>7, <2>9 DEF P
<1>7. SumOfFirst(counts, n) <= Cardinality(M)
  <2> HIDE DEF M, number, n
  <2> QED BY <1>2, <1>3, <1>4, <1>5, <1>6, PartsFit
<1>8. SumOfFirst(counts, n) \in Nat /\ Cardinality(M) \in Nat /\ CountMod \in Nat
  <2>1. SumOfFirst(counts, n) \in Nat
    <3> HIDE DEF n
    <3>1. \A k \in 0 .. n : SumOfFirst(counts, k) \in Nat
      BY <1>2, <1>5, SumSteps
    <3> QED BY <1>2, <3>1
  <2>2. Cardinality(M) \in Nat
    BY <1>3, FS_CardinalityType
  <2> QED BY <2>1, <2>2, JoinAssumption
<1>9. SumOfFirst(counts, n) < CountMod
  BY <1>3, <1>7, <1>8
<1> QED BY <1>2, <1>5, <1>9

-----------------------------------------------------------------------------
(* The cells of the index buffers *)

\* Thread r writes the match it finds at probe number p to this cell.
CellAt(r, p) == offsets[r] + Cardinality({q \in Hits(probe[r]) : q <= p})

\* The sums, in words, are the sums.
LEMMA SumsFit ==
  ASSUME IInv, SoundTable, FewMatches, phase \in {"count", "write"}, Counted
  PROVE  /\ Total = SumOfFirst(counts, Len(probe))
         /\ \A r \in DOMAIN probe : OffsetOf(r) = SumOfFirst(counts, r - 1)
<1> DEFINE n == Len(probe)
           S(k) == SumOfFirst(counts, k)
<1>1. /\ n \in Nat /\ DOMAIN probe = 1 .. n
      /\ counts \in [1 .. n -> Nat] /\ S(n) < CountMod
  BY CountsFit
<1>2. /\ \A k \in 0 .. n : S(k) \in Nat
      /\ \A k \in 1 .. n : S(k) = S(k - 1) + counts[k] /\ counts[k] \in Nat
  <2> HIDE DEF n
  <2> QED BY <1>1, SumSteps
<1>3. CountMod \in Nat \ {0}
  BY JoinAssumption
<1>4. ASSUME NEW k \in 0 .. n PROVE S(k) \in 0 .. CountMod - 1
  <2>1. S(k) <= S(n)
    <3> HIDE DEF n
    <3> QED BY <1>1, SumsGrow
  <2>2. S(k) \in Nat /\ S(n) \in Nat
    BY <1>1, <1>2
  <2> HIDE DEF S
  <2> QED BY <1>1, <1>3, <2>1, <2>2
<1>5. \A k : InclusiveSum(k) = S(k) % CountMod
  BY DEF InclusiveSum, SumOfFirst
<1> HIDE DEF S
<1>6. \A s \in 0 .. CountMod - 1 : s % CountMod = s
  BY <1>3
<1>7. ASSUME NEW k \in 0 .. n PROVE InclusiveSum(k) = S(k)
  BY <1>4, <1>5, <1>6
<1>8. Total = S(n)
  BY <1>1, <1>7 DEF Total
<1>9. ASSUME NEW r \in DOMAIN probe PROVE OffsetOf(r) = S(r - 1)
  <2>1. r \in 1 .. n /\ r \in 0 .. n /\ r - 1 \in 0 .. n
    BY <1>1
  <2>2. InclusiveSum(r) - counts[r] = S(r - 1)
    BY <1>2, <1>7, <2>1
  <2> QED BY <1>4, <1>6, <2>1, <2>2 DEF OffsetOf
<1> QED BY <1>8, <1>9 DEF S

\* The buffers have a cell for each match, and threads begin behind each other.
BuffersFit ==
  /\ offsets = [r \in DOMAIN probe |-> SumOfFirst(counts, r - 1)]
  /\ pairs = [i \in 1 .. SumOfFirst(counts, Len(probe)) |-> pairs[i]]

\* The cells of a thread are its own, and lie where its counts reserved them.
LEMMA ThreadCells ==
  ASSUME IInv, SoundTable, phase = "write", Counted, BuffersFit, NEW r \in DOMAIN probe
  PROVE  /\ \A p \in Hits(probe[r]) :
              CellAt(r, p) \in offsets[r] + 1 .. offsets[r] + counts[r]
         /\ \A p, q \in Hits(probe[r]) : CellAt(r, p) = CellAt(r, q) => p = q
         /\ \A i \in offsets[r] + 1 .. offsets[r] + counts[r] :
              \E p \in Hits(probe[r]) : CellAt(r, p) = i
<1> DEFINE H == Hits(probe[r])
           key == [p \in H |-> p]
           number == [p \in H |-> Cardinality(UpToKey(H, key, p))]
           c == Cardinality(H)
<1>1. IsFiniteSet(H) /\ H \subseteq Int
  <2>1. IsFiniteSet(H) /\ H \subseteq 0 .. Size - 1
    BY HitFacts
  <2> QED BY <2>1
<1>2. \A p \in H : UpToKey(H, key, p) = {q \in H : q <= p}
  BY DEF UpToKey
<1>3. \A p \in H : CellAt(r, p) = offsets[r] + number[p]
  BY <1>2 DEF CellAt
<1>4. key \in [H -> Int] /\ \A a, b \in H : key[a] = key[b] => a = b
  BY <1>1
<1>5. \A p \in H : number[p] = Cardinality(UpToKey(H, key, p))
  OBVIOUS
<1> HIDE DEF H, key, number
<1>6. /\ \A a \in H : number[a] \in 1 .. Cardinality(H)
      /\ \A a, b \in H : number[a] = number[b] => a = b
      /\ \A i \in 1 .. Cardinality(H) : \E a \in H : number[a] = i
  <2> HIDE DEF c
  <2>1. IsFiniteSet(H)
    BY <1>1
  <2> QED BY <2>1, <1>4, <1>5, Numbering
<1>7. \A a, b \in H : number[a] = number[b] => a = b
  BY <1>6
<1>8. \A i \in 1 .. Cardinality(H) : \E a \in H : number[a] = i
  BY <1>6
<1>9. c \in Nat /\ counts[r] = c
  BY <1>1, FS_CardinalityType DEF Counted, H
<1>10. offsets[r] \in Nat
  <2> DEFINE n == Len(probe)
  <2>1. n \in Nat /\ DOMAIN probe = 1 .. n
    <3>1. probe \in Seq(Keys)
      BY SideFacts DEF IInv, TypeOK
    <3> QED BY <3>1
  <2>2. counts \in [1 .. n -> Nat]
    BY <2>1 DEF Counted
  <2>3. \A k \in 0 .. n : SumOfFirst(counts, k) \in Nat
    <3> HIDE DEF n
    <3> QED BY <2>1, <2>2, SumSteps
  <2>4. r - 1 \in 0 .. n
    BY <2>1
  <2> QED BY <2>3, <2>4 DEF BuffersFit
<1> DEFINE o == offsets[r]
<1>11. o \in Nat /\ \A p \in H : number[p] \in 1 .. c /\ CellAt(r, p) = o + number[p]
  BY <1>3, <1>6, <1>10
<1>12. \A i \in 1 .. c : \E a \in H : number[a] = i
  BY <1>8
<1> HIDE DEF c, o
<1>13. \A p \in H : CellAt(r, p) \in o + 1 .. o + c
  BY <1>9, <1>11
<1>14. \A p, q \in H : CellAt(r, p) = CellAt(r, q) => p = q
  <2> SUFFICES ASSUME NEW p \in H, NEW q \in H, CellAt(r, p) = CellAt(r, q) PROVE p = q
    OBVIOUS
  <2>1. number[p] = number[q]
    BY <1>9, <1>11
  <2> QED BY <1>7, <2>1
<1>15. ASSUME NEW i \in o + 1 .. o + c PROVE \E p \in H : CellAt(r, p) = i
  <2>1. i - o \in 1 .. c
    BY <1>9, <1>11
  <2>2. PICK p \in H : number[p] = i - o
    BY <1>12, <2>1
  <2>3. CellAt(r, p) = i
    BY <1>9, <1>11, <2>2
  <2> QED BY <2>3
<1> QED BY <1>9, <1>13, <1>14, <1>15 DEF H, c, o

\* The stretches of the threads do not overlap, and together are the buffers.
LEMMA Stretches ==
  ASSUME IInv, SoundTable, phase = "write", Counted, BuffersFit
  PROVE  /\ \A r \in DOMAIN probe :
              /\ offsets[r] \in Nat /\ counts[r] \in Nat
              /\ offsets[r] + 1 .. offsets[r] + counts[r] \subseteq DOMAIN pairs
              /\ offsets[r] + counts[r] <= SumOfFirst(counts, Len(probe))
         /\ \A r, s \in DOMAIN probe : \A i :
              /\ i \in offsets[r] + 1 .. offsets[r] + counts[r]
              /\ i \in offsets[s] + 1 .. offsets[s] + counts[s]
              => r = s
         /\ \A i \in DOMAIN pairs : \E r \in DOMAIN probe :
              i \in offsets[r] + 1 .. offsets[r] + counts[r]
<1> DEFINE n == Len(probe)
           S(k) == SumOfFirst(counts, k)
<1>1. n \in Nat /\ DOMAIN probe = 1 .. n
  <2>1. probe \in Seq(Keys)
    BY SideFacts DEF IInv, TypeOK
  <2> QED BY <2>1
<1>2. counts \in [1 .. n -> Nat]
  BY <1>1 DEF Counted
<1>3. /\ S(0) = 0
      /\ \A k \in 0 .. n : S(k) \in Nat
      /\ \A k \in 1 .. n : S(k) = S(k - 1) + counts[k]
  <2> HIDE DEF n
  <2> QED BY <1>1, <1>2, SumSteps
<1>4. \A j \in 0 .. n : \A k \in j .. n : S(j) <= S(k)
  <2> HIDE DEF n
  <2> QED BY <1>1, <1>2, SumsGrow
<1>5. /\ \A r \in 1 .. n : offsets[r] = S(r - 1)
      /\ DOMAIN pairs = 1 .. S(n)
  BY <1>1 DEF BuffersFit
<1> HIDE DEF n, S
<1>6. ASSUME NEW r \in 1 .. n
      PROVE  /\ offsets[r] = S(r - 1) /\ offsets[r] + counts[r] = S(r)
             /\ offsets[r] \in Nat /\ counts[r] \in Nat /\ S(r) <= S(n)
             /\ S(r) \in Nat /\ S(n) \in Nat
  <2>1. r - 1 \in 0 .. n /\ r \in 0 .. n /\ n \in r .. n /\ n \in 0 .. n
    BY <1>1
  <2>2. S(r) <= S(n)
    BY <1>4, <2>1
  <2>3. S(r) \in Nat /\ S(n) \in Nat /\ S(r - 1) \in Nat /\ counts[r] \in Nat
    BY <1>2, <1>3, <2>1
  <2> QED BY <1>3, <1>5, <2>2, <2>3
<1>7. ASSUME NEW r \in 1 .. n
      PROVE  /\ offsets[r] \in Nat /\ counts[r] \in Nat
             /\ offsets[r] + 1 .. offsets[r] + counts[r] \subseteq 1 .. S(n)
             /\ offsets[r] + counts[r] <= S(n)
  BY <1>6
<1>8. ASSUME NEW r \in 1 .. n, NEW s \in 1 .. n, NEW i,
             i \in offsets[r] + 1 .. offsets[r] + counts[r],
             i \in offsets[s] + 1 .. offsets[s] + counts[s]
      PROVE  ~(r < s)
  <2> SUFFICES ASSUME r < s PROVE FALSE
    OBVIOUS
  <2>1. r \in 0 .. n /\ s - 1 \in r .. n /\ s - 1 \in 0 .. n
    BY <1>1
  <2>2. S(r) <= S(s - 1) /\ S(s - 1) \in Nat
    BY <1>3, <1>4, <2>1
  <2>3. i \in Int /\ i <= S(r) /\ i >= S(s - 1) + 1 /\ S(r) \in Nat
    BY <1>6, <1>8
  <2> QED BY <2>2, <2>3
<1>9. ASSUME NEW r \in 1 .. n, NEW s \in 1 .. n, NEW i,
             i \in offsets[r] + 1 .. offsets[r] + counts[r],
             i \in offsets[s] + 1 .. offsets[s] + counts[s]
      PROVE  r = s
  <2>1. ~(r < s) /\ ~(s < r)
    BY <1>8, <1>9
  <2>2. r \in Int /\ s \in Int
    OBVIOUS
  <2> QED BY <2>1, <2>2
<1>10. ASSUME NEW i \in 1 .. S(n)
       PROVE  \E r \in 1 .. n : i \in offsets[r] + 1 .. offsets[r] + counts[r]
  <2> DEFINE A == {k \in Nat : k \in 0 .. n /\ i <= S(k)}
  <2>1. n \in A /\ A \subseteq Nat
    <3>1. n \in 0 .. n
      BY <1>1
    <3>2. S(n) \in Nat
      BY <1>3, <3>1
    <3>3. i <= S(n)
      BY <3>2
    <3> QED BY <1>1, <3>1, <3>3
  <2>2. PICK r \in A : \A k \in A : r <= k
    <3> HIDE DEF A
    <3> QED BY <2>1, LeastNumber
  <2>3. r \in 0 .. n /\ i <= S(r) /\ r # 0
    BY <1>3, <2>2
  <2>4. r \in 1 .. n /\ r - 1 \in 0 .. n /\ r - 1 \in Nat
    BY <1>1, <2>3
  <2>5. ~(i <= S(r - 1))
    <3>1. r - 1 \notin A
      <4> HIDE DEF A
      <4>1. ~(r <= r - 1)
        BY <2>4
      <4> QED BY <2>2, <4>1
    <3> QED BY <2>4, <3>1
  <2>6. S(r - 1) \in Nat /\ S(n) \in Nat
    BY <1>3, <1>6, <2>4
  <2>7. offsets[r] = S(r - 1) /\ offsets[r] + counts[r] = S(r) /\ S(r) \in Nat
    BY <1>6, <2>4
  <2>8. i \in Int
    BY <2>6
  <2>9. i \in offsets[r] + 1 .. offsets[r] + counts[r]
    BY <2>3, <2>5, <2>6, <2>7, <2>8
  <2> QED BY <2>4, <2>9
<1>11. /\ \A r \in 1 .. n :
             /\ offsets[r] \in Nat /\ counts[r] \in Nat
             /\ offsets[r] + 1 .. offsets[r] + counts[r] \subseteq DOMAIN pairs
             /\ offsets[r] + counts[r] <= S(n)
  BY <1>5, <1>7
<1>12. \A i \in DOMAIN pairs : \E r \in 1 .. n :
         i \in offsets[r] + 1 .. offsets[r] + counts[r]
  BY <1>5, <1>10
<1>13. \A r, s \in 1 .. n : \A i :
         /\ i \in offsets[r] + 1 .. offsets[r] + counts[r]
         /\ i \in offsets[s] + 1 .. offsets[s] + counts[s]
         => r = s
  BY <1>9
<1> QED BY <1>1, <1>11, <1>12, <1>13 DEF n, S

-----------------------------------------------------------------------------
(* The pairs *)

\* s lists the members of S, each of them once.
Enumerates(s, S) ==
  /\ s \in Seq(S)
  /\ \A i, j \in DOMAIN s : s[i] = s[j] => i = j
  /\ \A m \in S : \E i \in DOMAIN s : s[i] = m

\* Keys are equal to pandas if they have one encoding.
EncodesClasses ==
  \A k, l \in Keys : Class[k] = Class[l] <=> Encode[k] = Encode[l]

\* A thread that returned from the count kernel has counted its matches.
CountsRight ==
  /\ counts \in [DOMAIN probe -> Nat]
  /\ \A r \in DOMAIN probe :
       phase = "write" \/ r \notin running => counts[r] = Cardinality(Hits(probe[r]))

\* A thread that returned from the write kernel has written them.
PairsWritten ==
  \A r \in DOMAIN probe : r \notin running =>
    \A p \in Hits(probe[r]) : pairs[CellAt(r, p)] = Pair(RowAt(r, p), r)

\* Counts, offsets and pairs, as far as the kernels have got.
BufferInv ==
  /\ phase \in {"start", "build", "count"} => pairs = << >>
  /\ phase \in {"count", "write"} => CountsRight
  /\ phase = "write" => BuffersFit /\ PairsWritten

\* Whoever has answered, the answer is the join.
Joined == phase = "done" => Enumerates(pairs, MatchesOf(left, right))

\* Who only reads the table finds what was found before.
LEMMA HitsStay ==
  ASSUME UNCHANGED <<left, right, tableKeys, tableRows>>
  PROVE  /\ build' = build /\ probe' = probe
         /\ \A k : Hits(k)' = Hits(k)
         /\ \A r, p : RowAt(r, p)' = RowAt(r, p)
         /\ \A b, r : Pair(b, r)' = Pair(b, r)
<1>1. build' = build /\ probe' = probe /\ Size' = Size
  BY SidesStay
<1> QED BY <1>1 DEF Hits, RowAt, Pair, LeftIsBuild

\* No cell for no match.
LEMMA NothingCounted ==
  ASSUME IInv, SoundTable, FewMatches, phase = "count", Counted, Total = 0
  PROVE  MatchesOf(left, right) = {}
<1> DEFINE n == Len(probe)
           S(k) == SumOfFirst(counts, k)
<1>1. /\ n \in Nat /\ DOMAIN probe = 1 .. n
      /\ counts \in [1 .. n -> Nat]
  BY CountsFit
<1>2. S(n) = 0
  BY SumsFit
<1>3. ASSUME NEW r \in 1 .. n PROVE counts[r] = 0
  <2>1. /\ \A k \in 0 .. n : S(k) \in Nat
        /\ \A k \in 1 .. n : S(k) = S(k - 1) + counts[k]
    <3> HIDE DEF n
    <3> QED BY <1>1, SumSteps
  <2>2. r \in 0 .. n /\ r - 1 \in 0 .. n /\ n \in r .. n
    BY <1>1
  <2>3. S(r) <= S(n)
    <3> HIDE DEF n
    <3> QED BY <1>1, <2>2, SumsGrow
  <2>4. S(r) \in Nat /\ S(r - 1) \in Nat /\ S(r) = S(r - 1) + counts[r] /\ counts[r] \in Nat
    BY <1>1, <2>1, <2>2
  <2> HIDE DEF S, n
  <2> QED BY <1>2, <2>3, <2>4
<1>4. ASSUME NEW m \in MatchesOf(left, right) PROVE FALSE
  <2>1. /\ BuildRow(m) \in DOMAIN build /\ ProbeRow(m) \in DOMAIN probe
        /\ Encode[build[BuildRow(m)]] = Encode[probe[ProbeRow(m)]]
    BY PairFacts
  <2>2. Hits(probe[ProbeRow(m)]) # {} /\ IsFiniteSet(Hits(probe[ProbeRow(m)]))
    BY <2>1, HitFacts
  <2>3. Cardinality(Hits(probe[ProbeRow(m)])) = 0
    BY <1>1, <1>3, <2>1 DEF Counted
  <2> QED BY <2>2, <2>3, FS_EmptySet
<1> QED BY <1>4

\* What a thread of the write kernel leaves in the buffers.
LEMMA WriteCells ==
  ASSUME IInv, SoundTable, phase = "write", Counted, BuffersFit,
         NEW r \in DOMAIN probe, WriteMatches(r)
  PROVE  /\ pairs' = [i \in DOMAIN pairs |-> pairs'[i]]
         /\ \A p \in Hits(probe[r]) : pairs'[CellAt(r, p)] = Pair(RowAt(r, p), r)
         /\ \A i \in DOMAIN pairs :
              (\A p \in Hits(probe[r]) : CellAt(r, p) # i) => pairs'[i] = pairs[i]
<1> DEFINE H == Hits(probe[r])
<1>1. pairs' =
        [i \in DOMAIN pairs |->
           IF \E p \in H : CellAt(r, p) = i
             THEN Pair(RowAt(r, CHOOSE p \in H : CellAt(r, p) = i), r)
             ELSE pairs[i]]
  BY DEF WriteMatches, CellAt, RowAt
<1>2. /\ \A p \in H : CellAt(r, p) \in offsets[r] + 1 .. offsets[r] + counts[r]
      /\ \A p, q \in H : CellAt(r, p) = CellAt(r, q) => p = q
  BY ThreadCells
<1>3. offsets[r] + 1 .. offsets[r] + counts[r] \subseteq DOMAIN pairs
  BY Stretches
<1> HIDE DEF H
<1>4. ASSUME NEW p \in H PROVE pairs'[CellAt(r, p)] = Pair(RowAt(r, p), r)
  <2>1. CellAt(r, p) \in DOMAIN pairs
    BY <1>2, <1>3
  <2>2. (CHOOSE q \in H : CellAt(r, q) = CellAt(r, p)) = p
    BY <1>2
  <2> QED BY <1>1, <2>1, <2>2
<1>5. ASSUME NEW i \in DOMAIN pairs, \A p \in H : CellAt(r, p) # i
      PROVE  pairs'[i] = pairs[i]
  BY <1>1, <1>5
<1>6. pairs' = [i \in DOMAIN pairs |-> pairs'[i]]
  BY <1>1
<1> QED BY <1>4, <1>5, <1>6 DEF H

\* When all threads of the write kernel have returned, the buffers list the
\* pairs of rows with keys of one encoding.
LEMMA BuffersListMatches ==
  ASSUME IInv, SoundTable, phase = "write", Counted, BuffersFit, PairsWritten,
         running = {}
  PROVE  Enumerates(pairs, MatchesOf(left, right))
<1>1. ASSUME NEW i \in DOMAIN pairs
      PROVE  \E r \in DOMAIN probe : \E p \in Hits(probe[r]) :
               CellAt(r, p) = i /\ pairs[i] = Pair(RowAt(r, p), r)
  <2>1. PICK r \in DOMAIN probe : i \in offsets[r] + 1 .. offsets[r] + counts[r]
    BY Stretches
  <2>2. PICK p \in Hits(probe[r]) : CellAt(r, p) = i
    BY <2>1, ThreadCells
  <2> QED BY <2>2 DEF PairsWritten
<1>2. ASSUME NEW i \in DOMAIN pairs PROVE pairs[i] \in MatchesOf(left, right)
  BY <1>1, HitFacts, PairFacts
<1>3. ASSUME NEW i \in DOMAIN pairs, NEW j \in DOMAIN pairs, pairs[i] = pairs[j]
      PROVE  i = j
  <2>1. PICK r \in DOMAIN probe : \E p \in Hits(probe[r]) :
          CellAt(r, p) = i /\ pairs[i] = Pair(RowAt(r, p), r)
    BY <1>1
  <2>2. PICK p \in Hits(probe[r]) : CellAt(r, p) = i /\ pairs[i] = Pair(RowAt(r, p), r)
    BY <2>1
  <2>3. PICK s \in DOMAIN probe : \E q \in Hits(probe[s]) :
          CellAt(s, q) = j /\ pairs[j] = Pair(RowAt(s, q), s)
    BY <1>1
  <2>4. PICK q \in Hits(probe[s]) : CellAt(s, q) = j /\ pairs[j] = Pair(RowAt(s, q), s)
    BY <2>3
  <2>5. RowAt(r, p) \in DOMAIN build /\ RowAt(s, q) \in DOMAIN build
    BY HitFacts
  <2>6. r = s /\ RowAt(r, p) = RowAt(s, q)
    <3>1. BuildRow(pairs[i]) = RowAt(r, p) /\ ProbeRow(pairs[i]) = r
      BY <2>2, <2>5, PairFacts
    <3>2. BuildRow(pairs[j]) = RowAt(s, q) /\ ProbeRow(pairs[j]) = s
      BY <2>4, <2>5, PairFacts
    <3> QED BY <1>3, <3>1, <3>2
  <2>7. p = q
    BY <2>6, HitFacts
  <2> QED BY <2>2, <2>4, <2>6, <2>7
<1>4. ASSUME NEW m \in MatchesOf(left, right) PROVE \E i \in DOMAIN pairs : pairs[i] = m
  <2> DEFINE b == BuildRow(m)
             r == ProbeRow(m)
  <2>1. /\ b \in DOMAIN build /\ r \in DOMAIN probe
        /\ Encode[build[b]] = Encode[probe[r]] /\ m = Pair(b, r)
    BY PairFacts
  <2> HIDE DEF b, r
  <2>2. PICK p \in Hits(probe[r]) : RowAt(r, p) = b
    BY <2>1, HitFacts
  <2>3. CellAt(r, p) \in offsets[r] + 1 .. offsets[r] + counts[r]
    BY <2>1, ThreadCells
  <2>4. CellAt(r, p) \in DOMAIN pairs
    BY <2>1, <2>3, Stretches
  <2>5. pairs[CellAt(r, p)] = m
    BY <2>1, <2>2 DEF PairsWritten
  <2> QED BY <2>4, <2>5
<1>5. pairs \in Seq(MatchesOf(left, right))
  <2> DEFINE n == Len(probe)
             k == SumOfFirst(counts, n)
  <2>1. n \in Nat /\ DOMAIN probe = 1 .. n
    <3>1. probe \in Seq(Keys)
      BY SideFacts DEF IInv, TypeOK
    <3> QED BY <3>1
  <2>2. counts \in [1 .. n -> Nat]
    BY <2>1 DEF Counted
  <2>3. SumOfFirst(counts, n) \in Nat
    <3> HIDE DEF n
    <3>1. \A u \in 0 .. n : SumOfFirst(counts, u) \in Nat
      BY <2>1, <2>2, SumSteps
    <3> QED BY <2>1, <3>1
  <2>4. pairs = [i \in 1 .. k |-> pairs[i]]
    BY DEF BuffersFit
  <2> HIDE DEF k
  <2>5. DOMAIN pairs = 1 .. k
    BY <2>4
  <2>6. pairs \in [1 .. k -> MatchesOf(left, right)]
    BY <1>2, <2>4, <2>5
  <2> QED BY <2>3, <2>6 DEF k
<1> QED BY <1>2, <1>3, <1>4, <1>5 DEF Enumerates

\* The matches pandas puts in order are all matches.
LEMMA PandasListsMatches ==
  ASSUME left \in LeftColumns, right \in RightColumns, EncodesClasses
  PROVE  Enumerates(PandasPairs, MatchesOf(left, right))
<1> DEFINE M == MatchesOf(left, right)
           N == Len(right) + 1
           key == [m \in M |-> m[1] * N + m[2]]
           number == [m \in M |-> Cardinality(UpToKey(M, key, m))]
           c == Cardinality(M)
<1>1. /\ left \in Seq(Keys) /\ right \in Seq(Keys)
      /\ DOMAIN left = 1 .. Len(left) /\ DOMAIN right = 1 .. Len(right)
      /\ Len(left) \in Nat /\ Len(right) \in Nat
  BY JoinAssumption
<1>2. IsFiniteSet(M)
  BY MatchesFinite
<1>3. M = {m \in (DOMAIN left) \X (DOMAIN right) : Class[left[m[1]]] = Class[right[m[2]]]}
  <2>1. /\ \A i \in DOMAIN left : left[i] \in Keys
        /\ \A j \in DOMAIN right : right[j] \in Keys
    BY <1>1
  <2> QED BY <2>1 DEF MatchesOf, EncodesClasses
<1>4. N \in Nat \ {0}
  BY <1>1
<1>5. \A m \in M : m[1] \in Nat /\ m[2] \in 1 .. N - 1 /\ m = <<m[1], m[2]>>
  <2>1. \A m \in M : m \in (DOMAIN left) \X (DOMAIN right)
    BY DEF MatchesOf
  <2> QED BY <1>1, <2>1
<1> HIDE DEF M, N
<1>6. ASSUME NEW a \in Nat, NEW b \in Nat, NEW i \in 1 .. N - 1, NEW j \in 1 .. N - 1
      PROVE  a * N + i <= b * N + j <=> a < b \/ (a = b /\ i <= j)
  <2>1. CASE a < b
    <3>1. (a + 1) * N <= b * N
      BY <1>4, <2>1
    <3>2. (a + 1) * N = a * N + N /\ a * N \in Nat /\ b * N \in Nat
      BY <1>4
    <3> QED BY <1>4, <2>1, <3>1, <3>2
  <2>2. CASE a = b
    <3>1. a * N \in Nat
      BY <1>4
    <3> QED BY <1>4, <2>2, <3>1
  <2>3. CASE b < a
    <3>1. (b + 1) * N <= a * N
      BY <1>4, <2>3
    <3>2. (b + 1) * N = b * N + N /\ a * N \in Nat /\ b * N \in Nat
      BY <1>4
    <3> QED BY <1>4, <2>3, <3>1, <3>2
  <2> QED BY <2>1, <2>2, <2>3
<1>7. \A m \in M : key[m] = m[1] * N + m[2]
  OBVIOUS
<1>8. ASSUME NEW m \in M, NEW n \in M
      PROVE  Before(m, n) <=> key[m] <= key[n]
  <2>1. key[m] <= key[n] <=> m[1] < n[1] \/ (m[1] = n[1] /\ m[2] <= n[2])
    BY <1>5, <1>6, <1>7
  <2> QED BY <2>1 DEF Before
<1>9. key \in [M -> Int]
  <2>1. \A m \in M : m[1] * N + m[2] \in Int
    BY <1>4, <1>5
  <2> QED BY <2>1
<1>10. ASSUME NEW a \in M, NEW b \in M, key[a] = key[b] PROVE a = b
  <2>1. key[a] \in Int /\ key[b] \in Int
    BY <1>9
  <2>2. Before(a, b) /\ Before(b, a)
    BY <1>8, <1>10, <2>1
  <2> QED BY <1>5, <2>2 DEF Before
<1> HIDE DEF key
<1>11. \A m \in M : UpToKey(M, key, m) = {n \in M : Before(n, m)}
  BY <1>8 DEF UpToKey
<1>12. \A m \in M : number[m] = Cardinality(UpToKey(M, key, m))
  OBVIOUS
<1>13. \A m \in M : number[m] = Cardinality({n \in M : Before(n, m)})
  BY <1>11
<1> HIDE DEF number, c
<1>14. /\ \A a \in M : number[a] \in 1 .. Cardinality(M)
       /\ \A a, b \in M : number[a] = number[b] => a = b
       /\ \A i \in 1 .. Cardinality(M) : \E a \in M : number[a] = i
  BY <1>2, <1>9, <1>10, <1>12, Numbering
<1>15. c \in Nat
  BY <1>2, FS_CardinalityType DEF c
<1>16. PandasPairs = [i \in 1 .. c |-> CHOOSE m \in M : number[m] = i]
  <2> DEFINE F(i) == CHOOSE m \in M : Cardinality({n \in M : Before(n, m)}) = i
             G(i) == CHOOSE m \in M : number[m] = i
  <2>1. PandasPairs = [i \in 1 .. c |-> F(i)]
    BY <1>3 DEF PandasPairs, c
  <2>2. ASSUME NEW i PROVE F(i) = G(i)
    BY <1>13
  <2>3. [i \in 1 .. c |-> F(i)] = [i \in 1 .. c |-> G(i)]
    <3> HIDE DEF F, G
    <3> QED BY <2>2
  <2> QED BY <2>1, <2>3
<1>17. ASSUME NEW i \in 1 .. c PROVE PandasPairs[i] \in M /\ number[PandasPairs[i]] = i
  <2>1. \E m \in M : number[m] = i
    BY <1>14 DEF c
  <2> QED BY <1>16, <2>1
<1>18. ASSUME NEW m \in M PROVE \E i \in 1 .. c : PandasPairs[i] = m
  <2>1. number[m] \in 1 .. c
    BY <1>14 DEF c
  <2> QED BY <1>14, <1>17, <2>1
<1>19. DOMAIN PandasPairs = 1 .. c
  BY <1>16
<1>20. \A i, j \in 1 .. c : PandasPairs[i] = PandasPairs[j] => i = j
  BY <1>17
<1>21. PandasPairs \in [1 .. c -> M]
  BY <1>16, <1>17
<1>22. PandasPairs \in Seq(M)
  BY <1>15, <1>21
<1> QED BY <1>18, <1>19, <1>20, <1>22 DEF Enumerates, M

-----------------------------------------------------------------------------
(* The steps preserve what is said of the pairs *)

LEMMA BufferInit == Init => BufferInv /\ Joined
  BY DEF Init, BufferInv, Joined

\* All counts are there when the count kernel has completed, and stay.
LEMMA AllCounted ==
  ASSUME BufferInv, (phase = "count" /\ running = {}) \/ phase = "write"
  PROVE  Counted
BY DEF BufferInv, CountsRight, Counted

\* A step that has nothing to do with the probe kernels.
LEMMA BuffersStay ==
  ASSUME BufferInv, UNCHANGED <<left, right, counts, offsets, pairs>>,
         \/ phase' \notin {"start", "build", "count", "write"}
         \/ /\ UNCHANGED <<phase, running, tableKeys, tableRows>>
         \/ phase \in {"start", "build"} /\ phase' = "build"
  PROVE  BufferInv'
<1>1. CASE phase' \notin {"start", "build", "count", "write"}
  BY <1>1 DEF BufferInv
<1>2. CASE phase \in {"start", "build"} /\ phase' = "build"
  BY <1>2 DEF BufferInv
<1>3. CASE UNCHANGED <<phase, running, tableKeys, tableRows>>
  <2>1. /\ build' = build /\ probe' = probe
        /\ \A k : Hits(k)' = Hits(k)
        /\ \A r, p : RowAt(r, p)' = RowAt(r, p)
        /\ \A b, r : Pair(b, r)' = Pair(b, r)
    BY <1>3, HitsStay
  <2>2. \A r, p : CellAt(r, p)' = CellAt(r, p)
    BY <2>1 DEF CellAt
  <2>3. CountsRight => CountsRight'
    BY <1>3, <2>1 DEF CountsRight
  <2>4. BuffersFit => BuffersFit'
    BY <2>1 DEF BuffersFit
  <2>5. PairsWritten => PairsWritten'
    BY <1>3, <2>1, <2>2 DEF PairsWritten
  <2> QED BY <1>3, <2>3, <2>4, <2>5 DEF BufferInv
<1> QED BY <1>1, <1>2, <1>3

LEMMA StartCountBuffers ==
  ASSUME BufferInv, StartCount
  PROVE  BufferInv'
<1>1. probe' = probe
  BY SidesStay DEF StartCount
<1>2. /\ counts' = [r \in DOMAIN probe |-> 0] /\ running' = DOMAIN probe
      /\ phase = "build" /\ phase' = "count" /\ pairs' = pairs
  BY DEF StartCount
<1>3. CountsRight'
  BY <1>1, <1>2 DEF CountsRight
<1> QED BY <1>2, <1>3 DEF BufferInv

LEMMA CountMatchesBuffers ==
  ASSUME IInv, SoundTable, BufferInv, NEW r \in DOMAIN probe, CountMatches(r)
  PROVE  BufferInv'
<1>1. /\ probe' = probe /\ \A k : Hits(k)' = Hits(k)
  BY HitsStay DEF CountMatches
<1>2. /\ counts' = [counts EXCEPT ![r] = Cardinality(Hits(probe[r]))]
      /\ running' = running \ {r} /\ phase = "count" /\ phase' = "count"
      /\ pairs' = pairs
  BY DEF CountMatches
<1>3. CountsRight
  BY <1>2 DEF BufferInv
<1>4. Cardinality(Hits(probe[r])) \in Nat
  BY <1>2, HitFacts, FS_CardinalityType
<1>5. CountsRight'
  <2>1. counts' \in [DOMAIN probe -> Nat]
    BY <1>2, <1>3, <1>4 DEF CountsRight
  <2>2. ASSUME NEW s \in DOMAIN probe, s \notin running'
        PROVE  counts'[s] = Cardinality(Hits(probe[s]))
    BY <1>2, <1>3, <2>2 DEF CountsRight
  <2> QED BY <1>1, <1>2, <2>1, <2>2 DEF CountsRight
<1> QED BY <1>2, <1>5 DEF BufferInv

LEMMA StartWriteBuffers ==
  ASSUME IInv, SoundTable, FewMatches, BufferInv, StartWrite
  PROVE  BufferInv'
<1>1. /\ probe' = probe /\ \A k : Hits(k)' = Hits(k)
  BY HitsStay DEF StartWrite
<1>2. /\ phase = "count" /\ running = {} /\ phase' = "write"
      /\ running' = DOMAIN probe /\ counts' = counts
      /\ offsets' = [r \in DOMAIN probe |-> OffsetOf(r)]
      /\ pairs' = [i \in 1 .. Total |-> Unwritten]
  BY DEF StartWrite
<1>3. Counted
  BY <1>2, AllCounted
<1>4. /\ Total = SumOfFirst(counts, Len(probe))
      /\ \A r \in DOMAIN probe : OffsetOf(r) = SumOfFirst(counts, r - 1)
  BY <1>2, <1>3, SumsFit
<1>5. BuffersFit'
  BY <1>1, <1>2, <1>4 DEF BuffersFit
<1>6. CountsRight'
  BY <1>1, <1>2, <1>3 DEF CountsRight, Counted
<1>7. PairsWritten'
  BY <1>1, <1>2 DEF PairsWritten
<1> QED BY <1>2, <1>5, <1>6, <1>7 DEF BufferInv

LEMMA WriteMatchesBuffers ==
  ASSUME IInv, SoundTable, BufferInv, NEW r \in DOMAIN probe, WriteMatches(r)
  PROVE  BufferInv'
<1>1. /\ probe' = probe
      /\ \A k : Hits(k)' = Hits(k)
      /\ \A s, p : RowAt(s, p)' = RowAt(s, p)
      /\ \A b, s : Pair(b, s)' = Pair(b, s)
  BY HitsStay DEF WriteMatches
<1>2. /\ phase = "write" /\ phase' = "write" /\ running' = running \ {r}
      /\ counts' = counts /\ offsets' = offsets /\ r \in running
  BY DEF WriteMatches
<1>3. Counted /\ BuffersFit /\ PairsWritten /\ CountsRight
  BY <1>2, AllCounted DEF BufferInv
<1>4. /\ pairs' = [i \in DOMAIN pairs |-> pairs'[i]]
      /\ \A p \in Hits(probe[r]) : pairs'[CellAt(r, p)] = Pair(RowAt(r, p), r)
      /\ \A i \in DOMAIN pairs :
           (\A p \in Hits(probe[r]) : CellAt(r, p) # i) => pairs'[i] = pairs[i]
  BY <1>2, <1>3, WriteCells
<1>5. \A s, p : CellAt(s, p)' = CellAt(s, p)
  BY <1>1, <1>2 DEF CellAt
<1>6. ASSUME NEW s \in DOMAIN probe, s \notin running', NEW p \in Hits(probe[s])
      PROVE  pairs'[CellAt(s, p)] = Pair(RowAt(s, p), s)
  <2>1. CASE s = r
    BY <1>4, <2>1
  <2>2. CASE s # r
    <3>1. CellAt(s, p) \in offsets[s] + 1 .. offsets[s] + counts[s]
      BY <1>2, <1>3, ThreadCells
    <3>2. CellAt(s, p) \in DOMAIN pairs
      BY <1>2, <1>3, <3>1, Stretches
    <3>3. ASSUME NEW q \in Hits(probe[r]), CellAt(r, q) = CellAt(s, p) PROVE FALSE
      <4>1. CellAt(r, q) \in offsets[r] + 1 .. offsets[r] + counts[r]
        BY <1>2, <1>3, ThreadCells
      <4> QED BY <1>2, <1>3, <2>2, <3>1, <3>3, <4>1, Stretches
    <3>4. pairs'[CellAt(s, p)] = pairs[CellAt(s, p)]
      BY <1>4, <3>2, <3>3
    <3>5. s \notin running
      BY <1>2, <1>6, <2>2
    <3> QED BY <1>3, <3>4, <3>5 DEF PairsWritten
  <2> QED BY <2>1, <2>2
<1>7. PairsWritten'
  BY <1>1, <1>5, <1>6 DEF PairsWritten
<1>8. BuffersFit' /\ CountsRight'
  BY <1>1, <1>2, <1>3, <1>4 DEF BuffersFit, CountsRight
<1> QED BY <1>2, <1>7, <1>8 DEF BufferInv

LEMMA BufferInvNext ==
  ASSUME IInv, SoundTable, FewMatches, BufferInv, [Next]_vars
  PROVE  BufferInv'
<1>1. CASE UNCHANGED vars
  BY <1>1, BuffersStay DEF vars
<1>2. CASE EmptySide
  BY <1>2, BuffersStay DEF EmptySide
<1>3. CASE StartBuild
  BY <1>3, BuffersStay DEF StartBuild
<1>4. CASE StartCount
  BY <1>4, StartCountBuffers
<1>5. CASE NoMatches
  BY <1>5, BuffersStay DEF NoMatches
<1>6. CASE StartWrite
  BY <1>6, StartWriteBuffers
<1>7. CASE Finish
  BY <1>7, BuffersStay DEF Finish
<1>8. CASE FallBack
  BY <1>8 DEF FallBack, BufferInv
<1>9. ASSUME NEW b \in DOMAIN build, BuildStep(b) PROVE BufferInv'
  <2>1. phase = "build" /\ phase' = "build"
    <3>1. found \subseteq running /\ claimed \subseteq running
          /\ (phase # "build" => found = {} /\ claimed = {})
      BY DEF IInv, TypeOK
    <3>2. CASE LoadSlot(b)
      BY <3>2 DEF LoadSlot, Probing
    <3>3. CASE GiveUp(b)
      BY <3>3 DEF GiveUp, Probing
    <3>4. CASE Claim(b)
      BY <3>1, <3>4 DEF Claim
    <3>5. CASE LoseSlot(b)
      BY <3>1, <3>5 DEF LoseSlot
    <3>6. CASE StoreRow(b)
      BY <3>1, <3>6 DEF StoreRow
    <3> QED BY <1>9, <3>2, <3>3, <3>4, <3>5, <3>6 DEF BuildStep
  <2>2. UNCHANGED <<left, right, counts, offsets, pairs>>
    BY <1>9 DEF BuildStep, LoadSlot, GiveUp, Claim, LoseSlot, StoreRow
  <2> QED BY <2>1, <2>2, BuffersStay
<1>10. ASSUME NEW r \in DOMAIN probe, ProbeStep(r) PROVE BufferInv'
  BY <1>10, CountMatchesBuffers, WriteMatchesBuffers DEF ProbeStep
<1>11. CASE DeviceError
  BY <1>11, BuffersStay DEF DeviceError
<1>12. CASE Returned
  BY <1>12, <1>1 DEF Returned
<1> QED BY <1>1, <1>2, <1>3, <1>4, <1>5, <1>6, <1>7, <1>8, <1>9, <1>10, <1>11, <1>12
        DEF Next, HostStep

\* No step but the last one of the join, and the answer of pandas, sets pairs
\* that are final.
LEMMA JoinedNext ==
  ASSUME IInv, SoundTable, FewMatches, EncodesClasses, BufferInv, Joined, [Next]_vars
  PROVE  Joined'
<1>1. CASE UNCHANGED vars \/ Returned
  BY <1>1 DEF vars, Returned, Joined
<1>2. CASE EmptySide
  <2>1. MatchesOf(left, right) = {}
    BY <1>2 DEF EmptySide, MatchesOf
  <2>2. pairs = << >> /\ UNCHANGED <<left, right, pairs>>
    BY <1>2 DEF EmptySide, BufferInv
  <2>3. Enumerates(pairs, MatchesOf(left, right))
    BY <2>1, <2>2 DEF Enumerates
  <2> QED BY <2>2, <2>3 DEF Joined
<1>3. CASE NoMatches
  <2>1. phase = "count" /\ running = {} /\ Total = 0
    BY <1>3 DEF NoMatches
  <2>2. MatchesOf(left, right) = {}
    BY <2>1, AllCounted, NothingCounted
  <2>3. pairs = << >> /\ UNCHANGED <<left, right, pairs>>
    BY <1>3 DEF NoMatches, BufferInv
  <2>4. Enumerates(pairs, MatchesOf(left, right))
    BY <2>2, <2>3 DEF Enumerates
  <2> QED BY <2>3, <2>4 DEF Joined
<1>4. CASE Finish
  <2>1. phase = "write" /\ running = {} /\ UNCHANGED <<left, right, pairs>>
    BY <1>4 DEF Finish
  <2>2. Enumerates(pairs, MatchesOf(left, right))
    BY <2>1, AllCounted, BuffersListMatches DEF BufferInv
  <2> QED BY <2>1, <2>2 DEF Joined
<1>5. CASE FallBack
  <2>1. left \in LeftColumns /\ right \in RightColumns
    BY DEF IInv, TypeOK
  <2>2. pairs' = PandasPairs /\ UNCHANGED <<left, right>>
    BY <1>5 DEF FallBack
  <2> QED BY <2>1, <2>2, PandasListsMatches DEF Joined
<1>6. CASE StartBuild \/ StartCount \/ StartWrite \/ DeviceError
  BY <1>6 DEF StartBuild, StartCount, StartWrite, DeviceError, Joined
<1>7. ASSUME NEW b \in DOMAIN build, BuildStep(b) PROVE Joined'
  BY <1>7 DEF BuildStep, LoadSlot, GiveUp, Claim, LoseSlot, StoreRow, Joined
<1>8. ASSUME NEW r \in DOMAIN probe, ProbeStep(r) PROVE Joined'
  BY <1>8 DEF ProbeStep, CountMatches, WriteMatches, Joined
<1> QED BY <1>1, <1>2, <1>3, <1>4, <1>5, <1>6, <1>7, <1>8 DEF Next, HostStep

\* Reserved stretches end in the buffers.
LEMMA InvWritesInBounds ==
  ASSUME IInv, SoundTable, BufferInv
  PROVE  WritesInBounds
<1> SUFFICES ASSUME phase = "write", NEW r \in DOMAIN probe
             PROVE  offsets[r] + Cardinality(Hits(probe[r])) <= Len(pairs)
  BY DEF WritesInBounds
<1>1. Counted /\ BuffersFit
  BY AllCounted DEF BufferInv
<1> DEFINE s == SumOfFirst(counts, Len(probe))
<1>2. offsets[r] + counts[r] <= s /\ offsets[r] \in Nat /\ counts[r] \in Nat
  BY <1>1, Stretches
<1>3. s \in Nat
  <2> DEFINE n == Len(probe)
  <2>1. n \in Nat /\ DOMAIN probe = 1 .. n
    <3>1. probe \in Seq(Keys)
      BY SideFacts DEF IInv, TypeOK
    <3> QED BY <3>1
  <2>2. counts \in [1 .. n -> Nat]
    BY <1>1, <2>1 DEF Counted
  <2>3. SumOfFirst(counts, n) \in Nat
    <3> HIDE DEF n
    <3>1. \A k \in 0 .. n : SumOfFirst(counts, k) \in Nat
      BY <2>1, <2>2, SumSteps
    <3> QED BY <2>1, <3>1
  <2> QED BY <2>3
<1>4. DOMAIN pairs = 1 .. s
  BY <1>1 DEF BuffersFit
<1> HIDE DEF s
<1>5. Len(pairs) = s
  BY <1>3, <1>4
<1> QED BY <1>1, <1>2, <1>5 DEF Counted

-----------------------------------------------------------------------------
(* Theorems *)

\* The types hold whatever the interleaving of the build threads.
THEOREM JoinTypes == SoundTable => (Spec => []TypeOK)
<1>1. IInv => TypeOK
  BY DEF IInv
<1> QED BY <1>1, Invariance, PTL

\* No probe sequence of a row has an empty slot in front of the row.
THEOREM JoinNoHole == SoundTable => (Spec => []NoHole)
BY InvNoHole, Invariance, PTL

\* After the build kernel each row has exactly one slot: none is lost to a
\* concurrent claim, and no row index is overwritten.
THEOREM JoinRowsStored == SoundTable => (Spec => []RowsStored)
<1>1. ASSUME IInv PROVE RowsStored
  <2> SUFFICES ASSUME (phase = "build" /\ running = {}) \/ phase \in {"count", "write"},
                      NEW b \in DOMAIN build
               PROVE  \E s \in Slots :
                        /\ tableRows[s] = b /\ tableKeys[s] = Encode[build[b]]
                        /\ \A u \in Slots : tableRows[u] = b => u = s
    BY DEF RowsStored
  <2>1. InTable /\ TableInv /\ claimed = {} /\ Holder(b)
    BY <1>1 DEF IInv, TypeOK, InTable, Holder
  <2>2. /\ Slot(b) \in Slots /\ tableKeys[Slot(b)] = Encode[build[b]]
        /\ tableRows[Slot(b)] = b
    BY <1>1, <2>1, TableFacts DEF TableInv, HoldersDistinct, RowsInPlace
  <2>3. \A u \in Slots : tableRows[u] = b => u = Slot(b)
    <3>1. b # NoRow
      BY <1>1, <2>1, TableFacts DEF NoRow
    <3> QED BY <2>1, <3>1 DEF TableInv, RowsInPlace
  <2> QED BY <2>2, <2>3
<1> QED BY <1>1, Invariance, PTL

\* A probe finds exactly the build rows whose key has the same encoding.
THEOREM JoinProbesFindRows == SoundTable => (Spec => []ProbesFindRows)
<1>1. CASE SoundTable
  <2>1. IInv => ProbesFindRows
    BY <1>1, InvProbesFindRows
  <2> QED BY <1>1, <2>1, Invariance, PTL
<1> QED BY <1>1

LEMMA BufferInvariance == SoundTable /\ FewMatches => (Spec => [](IInv /\ BufferInv))
<1>1. SoundTable /\ FewMatches /\ IInv /\ BufferInv /\ [Next]_vars => IInv' /\ BufferInv'
  BY InvNext, BufferInvNext
<1>2. CASE SoundTable /\ FewMatches
  <2>1. IInv /\ BufferInv /\ [Next]_vars => (IInv /\ BufferInv)'
    BY <1>1, <1>2
  <2>2. Init => IInv /\ BufferInv
    BY InvInit, BufferInit
  <2> QED BY <2>1, <2>2, PTL DEF Spec
<1> QED BY <1>2

\* No thread of the write kernel leaves the index buffers, if the number of
\* pairs fits a word: every thread finds as often what it found when it counted.
THEOREM JoinWritesInBounds == SoundTable /\ FewMatches => (Spec => []WritesInBounds)
<1>1. CASE SoundTable /\ FewMatches
  <2>1. IInv /\ BufferInv => WritesInBounds
    BY <1>1, InvWritesInBounds
  <2> QED BY <1>1, <2>1, BufferInvariance, PTL
<1> QED BY <1>1

\* The call returns every pair of rows with equal keys, and none twice, whether
\* the device answers or pandas.
THEOREM JoinListsMatches ==
  SoundTable /\ FewMatches /\ EncodesClasses => (Spec => []Joined)
<1>1. SoundTable /\ FewMatches /\ EncodesClasses /\ IInv /\ BufferInv /\ Joined /\ [Next]_vars
        => Joined'
  BY JoinedNext
<1>2. CASE SoundTable /\ FewMatches /\ EncodesClasses
  <2>1. IInv /\ BufferInv /\ Joined /\ [Next]_vars => Joined'
    BY <1>1, <1>2
  <2>2. Init => Joined
    BY BufferInit
  <2> QED BY <1>2, <2>1, <2>2, BufferInvariance, PTL DEF Spec
<1> QED BY <1>2

-----------------------------------------------------------------------------
(* The invariant of the table during a merge *)

\* No step of merge() around the join touches what the invariant speaks of.
LEMMA MergeInvNext ==
  ASSUME IInv, SoundTable, [MergeNext]_mergeVars
  PROVE  IInv'
<1>1. CASE UNCHANGED mergeVars
  BY <1>1, InvNext DEF mergeVars, joinVars
<1>2. CASE Joining
  BY <1>2, InvNext DEF Joining
<1>3. CASE Declined
  BY <1>3, AwayKeeps DEF Declined, IInv, TypeOK, Threads
<1>4. CASE Assemble
  BY <1>4, InvNext DEF Assemble, joinVars
<1>5. CASE AskPandas
  BY <1>5, InvNext DEF AskPandas, Next, HostStep
<1>6. CASE GatherFails
  BY <1>6, InvNext DEF GatherFails, joinVars
<1>7. CASE MergeReturned
  BY <1>7, InvNext DEF MergeReturned, Next
<1> QED BY <1>1, <1>2, <1>3, <1>4, <1>5, <1>6, <1>7 DEF MergeNext, MergeHost

LEMMA MergeInvariance == SoundTable => (MergeSpec => []IInv)
<1>1. MergeInit => IInv
  BY InvInit DEF MergeInit
<1>2. CASE SoundTable
  <2>1. IInv /\ [MergeNext]_mergeVars => IInv'
    BY <1>2, MergeInvNext
  <2> QED BY <1>1, <2>1, PTL DEF MergeSpec
<1> QED BY <1>2

-----------------------------------------------------------------------------
(* Theorems about a merge *)

\* Threads, table and buffers keep their types, whatever merge() is asked for
\* and wherever it turns to pandas.
THEOREM MergeTypes == SoundTable => (MergeSpec => []TypeOK)
<1>1. IInv => TypeOK
  BY DEF IInv
<1> QED BY <1>1, MergeInvariance, PTL

\* However build threads race, no probe sequence has an empty slot in front of
\* a row that is stored in it.
THEOREM MergeNoHole == SoundTable => (MergeSpec => []NoHole)
BY InvNoHole, MergeInvariance, PTL

\* Both probe passes of a merge find exactly the rows with their key, which is
\* why the second one may rely on the counts of the first.
THEOREM MergeProbesFindRows == SoundTable => (MergeSpec => []ProbesFindRows)
<1>1. CASE SoundTable
  <2>1. IInv => ProbesFindRows
    BY <1>1, InvProbesFindRows
  <2> QED BY <1>1, <2>1, MergeInvariance, PTL
<1> QED BY <1>1

-----------------------------------------------------------------------------
(* Lists of rows *)

\* Two sequences behind each other, cell by cell.
LEMMA ConcatCells ==
  ASSUME NEW m \in Nat, NEW n \in Nat, NEW s, NEW t,
         s = [i \in 1 .. m |-> s[i]], t = [i \in 1 .. n |-> t[i]]
  PROVE  s \o t = [i \in 1 .. m + n |-> IF i <= m THEN s[i] ELSE t[i - m]]
<1> DEFINE V == {s[i] : i \in 1 .. m} \cup {t[i] : i \in 1 .. n}
<1>1. s \in [1 .. m -> V] /\ t \in [1 .. n -> V]
  <2>1. \A i \in 1 .. m : s[i] \in V
    OBVIOUS
  <2>2. \A i \in 1 .. n : t[i] \in V
    OBVIOUS
  <2> HIDE DEF V
  <2> QED BY <2>1, <2>2
<1> HIDE DEF V
<1>2. s \in Seq(V) /\ t \in Seq(V) /\ Len(s) = m /\ Len(t) = n
  BY <1>1
<1>3. /\ s \o t \in Seq(V) /\ Len(s \o t) = m + n
      /\ \A i \in 1 .. m + n : (s \o t)[i] = IF i <= m THEN s[i] ELSE t[i - m]
  BY <1>2, ConcatProperties
<1> DEFINE u == s \o t
<1>4. u \in Seq(V) /\ Len(u) = m + n
  BY <1>3
<1>5. u = [i \in 1 .. m + n |-> u[i]]
  <2> HIDE DEF u
  <2> QED BY <1>4
<1>6. \A i \in 1 .. m + n : u[i] = IF i <= m THEN s[i] ELSE t[i - m]
  BY <1>3
<1> HIDE DEF u
<1>7. u = [i \in 1 .. m + n |-> IF i <= m THEN s[i] ELSE t[i - m]]
  BY <1>5, <1>6
<1> QED BY <1>7 DEF u

\* Lists of things apart make a list of all.
LEMMA ListConcat ==
  ASSUME NEW S, NEW T, NEW s, NEW t, Enumerates(s, S), Enumerates(t, T), S \cap T = {}
  PROVE  Enumerates(s \o t, S \cup T)
<1> DEFINE m == Len(s)
           n == Len(t)
           u == s \o t
           f == [i \in 1 .. m + n |-> IF i <= m THEN s[i] ELSE t[i - m]]
<1>1. s \in Seq(S) /\ t \in Seq(T)
  BY DEF Enumerates
<1>2. /\ m \in Nat /\ n \in Nat /\ DOMAIN s = 1 .. m /\ DOMAIN t = 1 .. n
      /\ s = [i \in 1 .. m |-> s[i]] /\ t = [i \in 1 .. n |-> t[i]]
      /\ \A i \in 1 .. m : s[i] \in S
      /\ \A i \in 1 .. n : t[i] \in T
  BY <1>1
<1>3. u = f
  <2> HIDE DEF m, n
  <2> QED BY <1>2, ConcatCells
<1>4. /\ \A i, j \in 1 .. m : s[i] = s[j] => i = j
      /\ \A i, j \in 1 .. n : t[i] = t[j] => i = j
      /\ \A x \in S : \E i \in 1 .. m : s[i] = x
      /\ \A x \in T : \E i \in 1 .. n : t[i] = x
  BY <1>2 DEF Enumerates
<1> HIDE DEF m, n, u
<1>5. \A i \in 1 .. m + n : f[i] = IF i <= m THEN s[i] ELSE t[i - m]
  OBVIOUS
<1>6. DOMAIN f = 1 .. m + n
  OBVIOUS
<1>7. \A i \in 1 .. m + n : IF i <= m THEN i \in 1 .. m ELSE i - m \in 1 .. n
  BY <1>2
<1>8. f \in Seq(S \cup T)
  <2>1. f \in [1 .. m + n -> S \cup T]
    BY <1>2, <1>7
  <2>2. m + n \in Nat
    BY <1>2
  <2> HIDE DEF f
  <2> QED BY <2>1, <2>2
<1> HIDE DEF f
<1>9. ASSUME NEW i \in 1 .. m + n, NEW j \in 1 .. m + n, f[i] = f[j] PROVE i = j
  <2>1. CASE i <= m /\ j <= m
    BY <1>4, <1>5, <1>7, <1>9, <2>1
  <2>2. CASE ~(i <= m) /\ ~(j <= m)
    <3>1. i - m = j - m
      BY <1>4, <1>5, <1>7, <1>9, <2>2
    <3> QED BY <1>2, <3>1
  <2>3. CASE (i <= m /\ ~(j <= m)) \/ (~(i <= m) /\ j <= m)
    <3>1. f[i] \in S \cap T
      BY <1>2, <1>5, <1>7, <1>9, <2>3
    <3> QED BY <3>1
  <2> QED BY <2>1, <2>2, <2>3
<1>10. ASSUME NEW x \in S \cup T PROVE \E i \in 1 .. m + n : f[i] = x
  <2>1. CASE x \in S
    <3>1. PICK i \in 1 .. m : s[i] = x
      BY <1>4, <2>1
    <3>2. i \in 1 .. m + n /\ i <= m
      BY <1>2
    <3> QED BY <1>5, <3>1, <3>2
  <2>2. CASE x \in T
    <3>1. PICK i \in 1 .. n : t[i] = x
      BY <1>4, <2>2
    <3>2. m + i \in 1 .. m + n /\ ~(m + i <= m) /\ (m + i) - m = i
      BY <1>2
    <3>3. f[m + i] = x
      BY <1>5, <3>1, <3>2
    <3> QED BY <3>2, <3>3
  <2> QED BY <2>1, <2>2
<1> QED BY <1>3, <1>6, <1>8, <1>9, <1>10 DEF Enumerates, u

\* Rows of one side, with no row of the other.
LEMMA ListAlone ==
  ASSUME NEW S, NEW s, Enumerates(s, S)
  PROVE  /\ Enumerates([q \in DOMAIN s |-> <<s[q], 0>>], S \X {0})
         /\ Enumerates([q \in DOMAIN s |-> <<0, s[q]>>], {0} \X S)
<1> DEFINE n == Len(s)
           f == [q \in DOMAIN s |-> <<s[q], 0>>]
           g == [q \in DOMAIN s |-> <<0, s[q]>>]
<1>1. s \in Seq(S)
  BY DEF Enumerates
<1>2. n \in Nat /\ DOMAIN s = 1 .. n /\ \A q \in 1 .. n : s[q] \in S
  BY <1>1
<1>3. /\ \A i, j \in 1 .. n : s[i] = s[j] => i = j
      /\ \A x \in S : \E i \in 1 .. n : s[i] = x
  BY <1>2 DEF Enumerates
<1>4. f \in [1 .. n -> S \X {0}] /\ g \in [1 .. n -> {0} \X S]
  BY <1>2
<1>5. /\ DOMAIN f = 1 .. n /\ \A q \in 1 .. n : f[q] = <<s[q], 0>>
      /\ DOMAIN g = 1 .. n /\ \A q \in 1 .. n : g[q] = <<0, s[q]>>
  BY <1>2
<1> HIDE DEF n, f, g
<1>6. f \in Seq(S \X {0}) /\ g \in Seq({0} \X S)
  BY <1>2, <1>4
<1>7. \A i, j \in 1 .. n : (f[i] = f[j] => i = j) /\ (g[i] = g[j] => i = j)
  BY <1>3, <1>5
<1>8. ASSUME NEW x \in S \X {0} PROVE \E i \in 1 .. n : f[i] = x
  <2>1. x = <<x[1], 0>> /\ x[1] \in S
    OBVIOUS
  <2>2. PICK i \in 1 .. n : s[i] = x[1]
    BY <1>3, <2>1
  <2> QED BY <1>5, <2>1, <2>2
<1>9. ASSUME NEW x \in {0} \X S PROVE \E i \in 1 .. n : g[i] = x
  <2>1. x = <<0, x[2]>> /\ x[2] \in S
    OBVIOUS
  <2>2. PICK i \in 1 .. n : s[i] = x[2]
    BY <1>3, <2>1
  <2> QED BY <1>5, <2>1, <2>2
<1>10. Enumerates(f, S \X {0}) /\ Enumerates(g, {0} \X S)
  BY <1>5, <1>6, <1>7, <1>8, <1>9 DEF Enumerates
<1> QED BY <1>10 DEF f, g

\* The numbers of a set in order are its numbers.
LEMMA AscendingLists ==
  ASSUME NEW S, IsFiniteSet(S)
  PROVE  S \subseteq Int => Enumerates(Ascending(S), S)
<1> DEFINE key == [a \in S |-> a]
           number == [a \in S |-> Cardinality(UpToKey(S, key, a))]
           c == Cardinality(S)
           F(q) == CHOOSE i \in S : Cardinality({j \in S : j <= i}) = q
           G(q) == CHOOSE i \in S : number[i] = q
           f == [q \in 1 .. c |-> G(q)]
<1>1. \A a \in S : UpToKey(S, key, a) = {j \in S : j <= a}
  BY DEF UpToKey
<1>2. \A a \in S : number[a] = Cardinality({j \in S : j <= a})
  BY <1>1
<1>3. \A q : F(q) = G(q)
  <2> HIDE DEF number
  <2> QED BY <1>2
<1>4. Ascending(S) = f
  <2>1. Ascending(S) = [q \in 1 .. c |-> F(q)]
    BY DEF Ascending
  <2> HIDE DEF F, G, c
  <2> QED BY <1>3, <2>1
<1>5. /\ S \subseteq Int => key \in [S -> Int]
      /\ \A a, b \in S : key[a] = key[b] => a = b
  OBVIOUS
<1>6. \A a \in S : number[a] = Cardinality(UpToKey(S, key, a))
  OBVIOUS
<1>7. c \in Nat
  BY FS_CardinalityType
<1>8. f = [q \in 1 .. c |-> G(q)] /\ \A q : G(q) = CHOOSE i \in S : number[i] = q
  OBVIOUS
<1> HIDE DEF key, number, c, F, G, f
<1>9. ASSUME key \in [S -> Int]
      PROVE  /\ \A a \in S : number[a] \in 1 .. Cardinality(S)
             /\ \A a, b \in S : number[a] = number[b] => a = b
             /\ \A i \in 1 .. Cardinality(S) : \E a \in S : number[a] = i
  BY <1>5, <1>6, <1>9, Numbering
<1> SUFFICES ASSUME S \subseteq Int PROVE Enumerates(Ascending(S), S)
  OBVIOUS
<1>10. ASSUME NEW q \in 1 .. c PROVE f[q] \in S /\ number[f[q]] = q
  <2>1. \E i \in S : number[i] = q
    BY <1>5, <1>9 DEF c
  <2> QED BY <1>8, <2>1
<1>11. DOMAIN f = 1 .. c /\ f \in [1 .. c -> S]
  BY <1>8, <1>10
<1>12. f \in Seq(S)
  BY <1>7, <1>11
<1>13. \A i, j \in 1 .. c : f[i] = f[j] => i = j
  BY <1>10
<1>14. ASSUME NEW a \in S PROVE \E q \in 1 .. c : f[q] = a
  <2>1. number[a] \in 1 .. c
    BY <1>5, <1>9 DEF c
  <2> QED BY <1>5, <1>9, <1>10, <2>1
<1> QED BY <1>4, <1>11, <1>12, <1>13, <1>14 DEF Enumerates

\* A list is as long as there are members.
LEMMA ListLength ==
  ASSUME NEW S, NEW s, Enumerates(s, S)
  PROVE  /\ IsFiniteSet(S)
         /\ Len(s) = Cardinality(S)
         /\ Cardinality(S) \in Nat /\ DOMAIN s = 1 .. Cardinality(S)
<1> DEFINE n == Len(s)
<1>1. n \in Nat /\ DOMAIN s = 1 .. n /\ s \in [1 .. n -> S]
  BY DEF Enumerates
<1>2. s \in Bijection(1 .. n, S)
  BY <1>1 DEF Enumerates, Bijection, Injection, Surjection, IsInjective
<1>3. IsFiniteSet(1 .. n) /\ Cardinality(1 .. n) = n
  <2> HIDE DEF n
  <2>1. IsFiniteSet(1 .. n) /\ Cardinality(1 .. n) = IF 1 > n THEN 0 ELSE n - 1 + 1
    BY <1>1, FS_Interval
  <2> QED BY <1>1, <2>1
<1>4. IsFiniteSet(S) /\ Cardinality(S) = Cardinality(1 .. n)
  <2>1. ExistsBijection(1 .. n, S)
    BY <1>2 DEF ExistsBijection
  <2> HIDE DEF n
  <2> QED BY <1>3, <2>1, FS_Bijection
<1> QED BY <1>1, <1>3, <1>4


-----------------------------------------------------------------------------
(* Frames *)

\* merge() is called with key columns that are there, and no column of both
\* frames has a name that ends in a letter of a suffix.
SoundCalls ==
  \A l \in LeftColumns, r \in RightColumns : \A c \in CallsOn(l, r) :
    /\ c.lkey \in Range(c.lcols) /\ c.rkey \in Range(c.rcols)
    /\ \A n \in Range(c.lcols) \cap Range(c.rcols) :
         Stripped(n, "_x") = n /\ Stripped(n, "_y") = n

\* The same of the call that was made.
SoundCall ==
  /\ call.lkey \in Range(call.lcols) /\ call.rkey \in Range(call.rcols)
  /\ \A n \in Range(call.lcols) \cap Range(call.rcols) :
       Stripped(n, "_x") = n /\ Stripped(n, "_y") = n

\* The frame with rows from the origins o, in their order.
FrameOf(o) ==
  [c \in Pandas!LeftNames \cup Pandas!RightNames |->
     [p \in DOMAIN o |-> Pandas!CellOf(c, o[p])]]

ListsOrigins(f) == \E o : Enumerates(o, Pandas!Origins) /\ f = FrameOf(o)

\* Cardinalities are what they are to pandas.
LEMMA SameCardinality == \A S : Pandas!Cardinality(S) = Cardinality(S)
  BY DEF Pandas!Cardinality, Cardinality

\* A frame with a row for each origin has each row as often as it comes up.
LEMMA FrameAnswers == ListsOrigins(frame) => Pandas!Answered
<1> SUFFICES ASSUME ListsOrigins(frame) PROVE Pandas!Answered
  OBVIOUS
<1> DEFINE O == Pandas!Origins
           n == Cardinality(O)
           names == Pandas!LeftNames \cup Pandas!RightNames
           Row(x) == Pandas!RowOf(x)
<1>1. PICK o : Enumerates(o, O) /\ frame = FrameOf(o)
  BY DEF ListsOrigins
<1>2. n \in Nat /\ DOMAIN o = 1 .. n /\ o \in Seq(O) /\ IsFiniteSet(O)
  <2>1. Enumerates(o, O)
    BY <1>1
  <2>2. o \in Seq(O)
    BY <2>1 DEF Enumerates
  <2> HIDE DEF O
  <2> QED BY <2>1, <2>2, ListLength
<1>3. /\ \A i \in 1 .. n : o[i] \in O
      /\ \A i, j \in 1 .. n : o[i] = o[j] => i = j
      /\ \A x \in O : \E i \in 1 .. n : o[i] = x
  <2>1. Enumerates(o, O)
    BY <1>1
  <2> HIDE DEF O, n
  <2> QED BY <1>2, <2>1 DEF Enumerates
<1>4. /\ DOMAIN frame = names
      /\ \A c \in names : frame[c] = [p \in 1 .. n |-> Pandas!CellOf(c, o[p])]
  BY <1>1, <1>2 DEF FrameOf
<1>5. ASSUME NEW c \in names PROVE Len(frame[c]) = n
  <2> HIDE DEF n, names
  <2> QED BY <1>2, <1>4
<1>6. ASSUME NEW p \in 1 .. n
      PROVE  [c \in DOMAIN frame |-> frame[c][p]] = Row(o[p])
  <2>1. \A c \in names : frame[c][p] = Pandas!CellOf(c, o[p])
    BY <1>4
  <2>2. Row(o[p]) = [c \in names |-> Pandas!CellOf(c, o[p])]
    BY DEF Pandas!RowOf
  <2> HIDE DEF names, Row
  <2> QED BY <1>4, <2>1, <2>2
<1>7. ASSUME NEW x \in O
      PROVE  Cardinality({p \in 1 .. n : Row(x) = [c \in DOMAIN frame |-> frame[c][p]]})
               = Cardinality({q \in O : Row(q) = Row(x)})
  <2> DEFINE A == {p \in 1 .. n : Row(x) = [c \in DOMAIN frame |-> frame[c][p]]}
             B == {q \in O : Row(q) = Row(x)}
             f == [p \in A |-> o[p]]
  <2> HIDE DEF O, n, Row
  <2>1. A = {p \in 1 .. n : Row(x) = Row(o[p])}
    BY <1>6
  <2>2. \A p \in A : f[p] \in B
    BY <1>3, <2>1
  <2>3. \A p, q \in A : f[p] = f[q] => p = q
    BY <1>3
  <2>4. ASSUME NEW q \in B PROVE \E p \in A : f[p] = q
    <3>1. PICK p \in 1 .. n : o[p] = q
      BY <1>3
    <3>2. p \in A
      BY <2>1, <3>1
    <3> QED BY <3>1, <3>2
  <2>5. f \in Bijection(A, B)
    BY <2>2, <2>3, <2>4 DEF Bijection, Injection, Surjection, IsInjective
  <2>6. IsFiniteSet(A)
    <3>1. IsFiniteSet(1 .. n)
      BY <1>2, FS_Interval
    <3> QED BY <3>1, FS_Subset
  <2> HIDE DEF A, B, f
  <2>7. ExistsBijection(A, B)
    BY <2>5 DEF ExistsBijection
  <2>8. Cardinality(B) = Cardinality(A)
    BY <2>6, <2>7, FS_Bijection
  <2> QED BY <2>8 DEF A, B
<1>8. /\ DOMAIN frame = names
      /\ \A c \in DOMAIN frame : Len(frame[c]) = n
      /\ \A x \in O :
           Cardinality({p \in 1 .. n : Row(x) = [c \in DOMAIN frame |-> frame[c][p]]})
             = Cardinality({q \in O : Row(q) = Row(x)})
      => Pandas!Answered
  BY SameCardinality DEF Pandas!Answered
<1> HIDE DEF O, n, names, Row
<1>9. \A c \in DOMAIN frame : Len(frame[c]) = n
  BY <1>4, <1>5
<1> QED BY <1>4, <1>7, <1>8, <1>9

\* The names of the result are those pandas gives, none of both sides.
LEMMA NamesFacts ==
  /\ Overlap = Pandas!Overlap
  /\ {LeftDest(n) : n \in Range(call.lcols)} = Pandas!LeftNames
  /\ {RightDest(n) : n \in FromRight} = Pandas!RightNames
  /\ Pandas!LeftNames \cap Pandas!RightNames = {}
<1>1. Overlap = Pandas!Overlap
  BY DEF Overlap, Pandas!Overlap, Pandas!Shared, SameKeyName,
         Pandas!Range, Range
<1>2. {LeftDest(n) : n \in Range(call.lcols)} = Pandas!LeftNames
  BY <1>1 DEF LeftDest, Pandas!LeftNames, Pandas!Range, Range
<1>3. FromRight = {m \in Range(call.rcols) : ~Pandas!Shared(m)}
  BY DEF FromRight, SameKeyName, Pandas!Shared, Pandas!Range, Range
<1>4. {RightDest(n) : n \in FromRight} = Pandas!RightNames
  BY <1>1, <1>3 DEF RightDest, Pandas!RightNames, Pandas!Range, Range
<1>5. ASSUME NEW c \in Pandas!LeftNames, c \in Pandas!RightNames PROVE FALSE
  <2>1. PICK m \in Range(call.lcols) : c = <<m, IF m \in Pandas!Overlap THEN "_x" ELSE "">>
    BY DEF Pandas!LeftNames, Pandas!Range, Range
  <2>2. PICK n \in Range(call.rcols) :
          c = <<n, IF n \in Pandas!Overlap THEN "_y" ELSE "">> /\ ~Pandas!Shared(n)
    BY <1>5 DEF Pandas!RightNames, Pandas!Range, Range
  <2>3. m = n
    <3>1. c[1] = m
      BY <2>1
    <3>2. c[1] = n
      BY <2>2
    <3> QED BY <3>1, <3>2
  <2>4. n \in Pandas!Overlap
    BY <2>1, <2>2, <2>3 DEF Pandas!Overlap, Pandas!Range, Range
  <2> QED BY <2>1, <2>2, <2>3, <2>4
<1> QED BY <1>1, <1>2, <1>4, <1>5

LEMMA SameMatches ==
  ASSUME left \in LeftColumns, right \in RightColumns, EncodesClasses
  PROVE  /\ Pandas!Matches = MatchesOf(left, right)
         /\ DOMAIN left \subseteq Nat \ {0} /\ DOMAIN right \subseteq Nat \ {0}
         /\ IsFiniteSet(DOMAIN left) /\ IsFiniteSet(DOMAIN right)
<1>1. left \in Seq(Keys) /\ right \in Seq(Keys)
  BY JoinAssumption
<1> DEFINE m == Len(left)
           n == Len(right)
<1>2. DOMAIN left = 1 .. m /\ DOMAIN right = 1 .. n /\ m \in Nat /\ n \in Nat
  BY <1>1
<1>3. /\ \A i \in DOMAIN left : left[i] \in Keys
      /\ \A j \in DOMAIN right : right[j] \in Keys
  BY <1>1
<1>4. Pandas!Matches = MatchesOf(left, right)
  BY <1>3 DEF MatchesOf, EncodesClasses, Pandas!Matches
<1> HIDE DEF m, n
<1>5. IsFiniteSet(DOMAIN left) /\ IsFiniteSet(DOMAIN right)
  BY <1>2, FS_Interval
<1> QED BY <1>2, <1>4, <1>5

\* The columns gathered are those of the pairs.
LEMMA GatheredFrame ==
  ASSUME Enumerates(pairs, Pandas!Matches),
         DOMAIN left \subseteq Nat \ {0}, DOMAIN right \subseteq Nat \ {0}
  PROVE  Gathered = FrameOf(pairs)
<1>1. ASSUME NEW p \in DOMAIN pairs
      PROVE  pairs[p][1] # 0 /\ pairs[p][2] # 0
  <2>1. pairs[p] \in Pandas!Matches
    BY DEF Enumerates
  <2>2. pairs[p] \in (DOMAIN left) \X (DOMAIN right)
    BY <2>1 DEF Pandas!Matches
  <2> QED BY <2>2
<1>2. ASSUME NEW c \in Pandas!LeftNames, NEW p \in DOMAIN pairs
      PROVE  Pandas!LeftCell(c[1], LeftIndices[p]) = Pandas!CellOf(c, pairs[p])
  <2>1. c \notin Pandas!RightNames
    BY NamesFacts
  <2> QED BY <1>1, <2>1 DEF Pandas!CellOf, LeftIndices
<1>3. ASSUME NEW c \in Pandas!RightNames, NEW p \in DOMAIN pairs
      PROVE  Pandas!RightCell(c[1], RightIndices[p]) = Pandas!CellOf(c, pairs[p])
  <2>1. c \notin Pandas!LeftNames
    BY NamesFacts
  <2> QED BY <1>1, <2>1 DEF Pandas!CellOf, RightIndices
<1> DEFINE L == Pandas!LeftNames
           R == Pandas!RightNames
<1>4. Gathered = [c \in L \cup R |->
                    [p \in DOMAIN pairs |->
                       IF c \in L THEN Pandas!LeftCell(c[1], LeftIndices[p])
                                  ELSE Pandas!RightCell(c[1], RightIndices[p])]]
  BY NamesFacts DEF Gathered
<1>5. ASSUME NEW c \in L \cup R
      PROVE  [p \in DOMAIN pairs |->
                IF c \in L THEN Pandas!LeftCell(c[1], LeftIndices[p])
                           ELSE Pandas!RightCell(c[1], RightIndices[p])]
               = [p \in DOMAIN pairs |-> Pandas!CellOf(c, pairs[p])]
  <2>1. CASE c \in L
    BY <1>2, <2>1
  <2>2. CASE c \notin L
    BY <1>3, <2>2
  <2> QED BY <2>1, <2>2
<1> QED BY <1>4, <1>5 DEF FrameOf


\* Rows without a partner: each column is lengthened by cells of their origins.
LEMMA LengthenedFrame ==
  ASSUME NEW o, NEW rows, NEW cols, NEW suffix, NEW n \in Nat, NEW k \in Nat,
         pairs = [p \in 1 .. k |-> pairs[p]],
         o = [q \in 1 .. n |-> o[q]],
         rows = [q \in 1 .. n |-> rows[q]],
         Gathered = FrameOf(pairs),
         \A c \in Pandas!LeftNames \cup Pandas!RightNames : \A q \in 1 .. n :
           LET sources == SourcesIn(cols, c, suffix)
           IN (IF sources = {} THEN NaN ELSE rows[q][CHOOSE m \in sources : TRUE])
                = Pandas!CellOf(c, o[q])
  PROVE  Lengthened(rows, cols, suffix) = FrameOf(pairs \o o)
<1> DEFINE names == Pandas!LeftNames \cup Pandas!RightNames
           cell(c, q) == LET sources == SourcesIn(cols, c, suffix)
                         IN IF sources = {} THEN NaN
                            ELSE rows[q][CHOOSE m \in sources : TRUE]
           cells(c) == [q \in DOMAIN rows |-> cell(c, q)]
           Of(c, x) == Pandas!CellOf(c, x)
<1>1. Lengthened(rows, cols, suffix) = [c \in DOMAIN Gathered |-> Gathered[c] \o cells(c)]
  BY DEF Lengthened
<1>2. /\ DOMAIN Gathered = names
      /\ \A c \in names : Gathered[c] = [p \in DOMAIN pairs |-> Of(c, pairs[p])]
  BY DEF FrameOf
<1>3. \A c \in names : \A q \in 1 .. n : cell(c, q) = Of(c, o[q])
  OBVIOUS
<1>4. FrameOf(pairs \o o) =
        [c \in names |-> [p \in DOMAIN (pairs \o o) |-> Of(c, (pairs \o o)[p])]]
  BY DEF FrameOf
<1>5. DOMAIN pairs = 1 .. k /\ DOMAIN rows = 1 .. n
  OBVIOUS
<1> HIDE DEF names, cell, Of
<1>6. pairs \o o = [p \in 1 .. k + n |-> IF p <= k THEN pairs[p] ELSE o[p - k]]
  BY ConcatCells
<1>7. ASSUME NEW c \in names
      PROVE  Gathered[c] \o cells(c)
               = [p \in DOMAIN (pairs \o o) |-> Of(c, (pairs \o o)[p])]
  <2> DEFINE s == [p \in 1 .. k |-> Of(c, pairs[p])]
             t == [q \in 1 .. n |-> Of(c, o[q])]
             u == pairs \o o
  <2>1. Gathered[c] = s
    BY <1>2, <1>5
  <2>2. cells(c) = t
    BY <1>3, <1>5
  <2>3. s = [p \in 1 .. k |-> s[p]] /\ t = [q \in 1 .. n |-> t[q]]
    OBVIOUS
  <2>4. /\ \A p \in 1 .. k : s[p] = Of(c, pairs[p])
        /\ \A q \in 1 .. n : t[q] = Of(c, o[q])
    OBVIOUS
  <2>5. DOMAIN u = 1 .. k + n
        /\ \A p \in 1 .. k + n : u[p] = IF p <= k THEN pairs[p] ELSE o[p - k]
    BY <1>6
  <2> HIDE DEF s, t, u, cells
  <2>6. s \o t = [p \in 1 .. k + n |-> IF p <= k THEN s[p] ELSE t[p - k]]
    BY <2>3, ConcatCells
  <2>7. ASSUME NEW p \in 1 .. k + n
        PROVE  (IF p <= k THEN s[p] ELSE t[p - k]) = Of(c, u[p])
    <3>1. CASE p <= k
      <4>1. p \in 1 .. k
        BY <3>1
      <4> QED BY <2>4, <2>5, <3>1, <4>1
    <3>2. CASE ~(p <= k)
      <4>1. p - k \in 1 .. n
        BY <3>2
      <4> QED BY <2>4, <2>5, <3>2, <4>1
    <3> QED BY <3>1, <3>2
  <2>8. s \o t = [p \in 1 .. k + n |-> Of(c, u[p])]
    BY <2>6, <2>7
  <2> QED BY <2>1, <2>2, <2>5, <2>8 DEF u
<1> HIDE DEF cells
<1> QED BY <1>1, <1>2, <1>4, <1>7

\* The source of a column in the rows of the left frame, if it has one.
LEMMA LeftSources ==
  ASSUME SoundCall
  PROVE  /\ \A c \in Pandas!LeftNames :
              c[1] \in Range(call.lcols) /\ SourcesIn(call.lcols, c, "_x") = {c[1]}
         /\ \A c \in Pandas!RightNames : SourcesIn(call.lcols, c, "_x") = {}
<1>1. ASSUME NEW c \in Pandas!LeftNames
      PROVE  c[1] \in Range(call.lcols) /\ SourcesIn(call.lcols, c, "_x") = {c[1]}
  <2>1. PICK n \in Range(call.lcols) : c = <<n, IF n \in Pandas!Overlap THEN "_x" ELSE "">>
    BY DEF Pandas!LeftNames, Pandas!Range, Range
  <2>2. c[1] = n /\ c[2] = IF n \in Pandas!Overlap THEN "_x" ELSE ""
    BY <2>1
  <2>3. CASE n \in Pandas!Overlap
    <3>1. Stripped(n, "_x") = n
      BY <2>3 DEF SoundCall, Pandas!Overlap, Pandas!Range, Range
    <3>2. c[2] = "_x" /\ c[2] # ""
      BY <2>2, <2>3
    <3> QED BY <2>2, <3>1, <3>2 DEF SourcesIn
  <2>4. CASE n \notin Pandas!Overlap
    <3>1. c[2] = "" /\ c[2] # "_x"
      BY <2>2, <2>4
    <3> QED BY <2>2, <3>1 DEF SourcesIn
  <2> QED BY <2>3, <2>4
<1>2. ASSUME NEW c \in Pandas!RightNames
      PROVE  SourcesIn(call.lcols, c, "_x") = {}
  <2>1. PICK n \in Range(call.rcols) :
          c = <<n, IF n \in Pandas!Overlap THEN "_y" ELSE "">> /\ ~Pandas!Shared(n)
    BY DEF Pandas!RightNames, Pandas!Range, Range
  <2>2. c[1] = n /\ c[2] = IF n \in Pandas!Overlap THEN "_y" ELSE ""
    BY <2>1
  <2>3. CASE n \in Pandas!Overlap
    <3>1. c[2] # "_x" /\ c[2] # ""
      BY <2>2, <2>3
    <3> QED BY <3>1 DEF SourcesIn
  <2>4. CASE n \notin Pandas!Overlap
    <3>1. c[2] = "" /\ c[2] # "_x"
      BY <2>2, <2>4
    <3>2. n \notin Range(call.lcols)
      BY <2>1, <2>4 DEF Pandas!Overlap, Pandas!Range, Range
    <3> QED BY <2>2, <3>1, <3>2 DEF SourcesIn
  <2> QED BY <2>3, <2>4
<1> QED BY <1>1, <1>2

\* And in those of the right frame: the key column of one name has one.
LEMMA RightSources ==
  ASSUME SoundCall
  PROVE  /\ \A c \in Pandas!RightNames :
              c[1] \in Range(call.rcols) /\ SourcesIn(call.rcols, c, "_y") = {c[1]}
         /\ \A c \in Pandas!LeftNames :
              IF Pandas!Shared(c[1])
                THEN c[1] \in Range(call.rcols) /\ SourcesIn(call.rcols, c, "_y") = {c[1]}
                ELSE SourcesIn(call.rcols, c, "_y") = {}
<1>1. ASSUME NEW c \in Pandas!RightNames
      PROVE  c[1] \in Range(call.rcols) /\ SourcesIn(call.rcols, c, "_y") = {c[1]}
  <2>1. PICK n \in Range(call.rcols) : c = <<n, IF n \in Pandas!Overlap THEN "_y" ELSE "">>
    BY DEF Pandas!RightNames, Pandas!Range, Range
  <2>2. c[1] = n /\ c[2] = IF n \in Pandas!Overlap THEN "_y" ELSE ""
    BY <2>1
  <2>3. CASE n \in Pandas!Overlap
    <3>1. Stripped(n, "_y") = n
      BY <2>3 DEF SoundCall, Pandas!Overlap, Pandas!Range, Range
    <3>2. c[2] = "_y" /\ c[2] # ""
      BY <2>2, <2>3
    <3> QED BY <2>2, <3>1, <3>2 DEF SourcesIn
  <2>4. CASE n \notin Pandas!Overlap
    <3>1. c[2] = "" /\ c[2] # "_y"
      BY <2>2, <2>4
    <3> QED BY <2>2, <3>1 DEF SourcesIn
  <2> QED BY <2>3, <2>4
<1>2. ASSUME NEW c \in Pandas!LeftNames
      PROVE  IF Pandas!Shared(c[1])
               THEN c[1] \in Range(call.rcols) /\ SourcesIn(call.rcols, c, "_y") = {c[1]}
               ELSE SourcesIn(call.rcols, c, "_y") = {}
  <2>1. PICK n \in Range(call.lcols) : c = <<n, IF n \in Pandas!Overlap THEN "_x" ELSE "">>
    BY DEF Pandas!LeftNames, Pandas!Range, Range
  <2>2. c[1] = n /\ c[2] = IF n \in Pandas!Overlap THEN "_x" ELSE ""
    BY <2>1
  <2>3. CASE n \in Pandas!Overlap
    <3>1. c[2] # "_y" /\ c[2] # ""
      BY <2>2, <2>3
    <3>2. ~Pandas!Shared(c[1])
      BY <2>2, <2>3 DEF Pandas!Overlap
    <3> QED BY <3>1, <3>2 DEF SourcesIn
  <2>4. CASE n \notin Pandas!Overlap
    <3>1. c[2] = "" /\ c[2] # "_y"
      BY <2>2, <2>4
    <3>2. Pandas!Shared(n) => n \in Range(call.rcols)
      BY DEF Pandas!Shared, SoundCall
    <3>3. ~Pandas!Shared(n) => n \notin Range(call.rcols)
      BY <2>4 DEF Pandas!Overlap, Pandas!Range, Range
    <3> QED BY <2>2, <3>1, <3>2, <3>3 DEF SourcesIn
  <2> QED BY <2>3, <2>4
<1> QED BY <1>1, <1>2


\* Rows are numbered from 1.
SidesReady ==
  /\ DOMAIN left \subseteq Nat \ {0} /\ DOMAIN right \subseteq Nat \ {0}
  /\ IsFiniteSet(DOMAIN left) /\ IsFiniteSet(DOMAIN right)

\* What is known of the call and the pairs when the columns are put together.
PairsReady == SoundCall /\ SidesReady /\ Enumerates(pairs, Pandas!Matches)

\* Rows without a partner, as they are numbered.
LEMMA AloneLists ==
  ASSUME SidesReady
  PROVE  /\ Enumerates(Ascending(Pandas!LeftAlone), Pandas!LeftAlone)
         /\ Enumerates(Ascending(Pandas!RightAlone), Pandas!RightAlone)
         /\ Pandas!LeftAlone \subseteq DOMAIN left
         /\ Pandas!RightAlone \subseteq DOMAIN right
<1>1. /\ Pandas!LeftAlone \subseteq DOMAIN left
      /\ Pandas!RightAlone \subseteq DOMAIN right
  BY DEF Pandas!LeftAlone, Pandas!RightAlone
<1>2. /\ IsFiniteSet(Pandas!LeftAlone) /\ Pandas!LeftAlone \subseteq Int
      /\ IsFiniteSet(Pandas!RightAlone) /\ Pandas!RightAlone \subseteq Int
  BY <1>1, FS_Subset DEF SidesReady
<1> QED BY <1>1, <1>2, AscendingLists

\* The rows no pair has are those without a partner.
LEMMA UnmatchedRows ==
  ASSUME PairsReady
  PROVE  /\ DOMAIN left \ Matched(LeftIndices) = Pandas!LeftAlone
         /\ DOMAIN right \ Matched(RightIndices) = Pandas!RightAlone
<1>1. /\ \A i \in DOMAIN pairs : pairs[i] \in Pandas!Matches
      /\ \A m \in Pandas!Matches : \E i \in DOMAIN pairs : pairs[i] = m
  BY DEF PairsReady, Enumerates
<1>2. Matched(LeftIndices) = {m[1] : m \in Pandas!Matches}
  BY <1>1 DEF Matched, LeftIndices, Range
<1>3. Matched(RightIndices) = {m[2] : m \in Pandas!Matches}
  BY <1>1 DEF Matched, RightIndices, Range
<1>4. DOMAIN left \ Matched(LeftIndices) = Pandas!LeftAlone
  BY <1>2 DEF Pandas!LeftAlone
<1>5. DOMAIN right \ Matched(RightIndices) = Pandas!RightAlone
  BY <1>3 DEF Pandas!RightAlone
<1> QED BY <1>4, <1>5

\* Matches and rows without a partner have nothing in common.
LEMMA OriginsApart ==
  ASSUME SidesReady
  PROVE  /\ Pandas!Matches \cap (Pandas!LeftAlone \X {0}) = {}
         /\ Pandas!Matches \cap ({0} \X Pandas!RightAlone) = {}
         /\ (Pandas!LeftAlone \X {0}) \cap ({0} \X Pandas!RightAlone) = {}
<1>1. /\ 0 \notin DOMAIN left /\ 0 \notin DOMAIN right
  BY DEF SidesReady
<1>2. \A m \in Pandas!Matches : m[1] # 0 /\ m[2] # 0
  BY <1>1 DEF Pandas!Matches
<1>3. 0 \notin Pandas!LeftAlone /\ 0 \notin Pandas!RightAlone
  BY <1>1 DEF Pandas!LeftAlone, Pandas!RightAlone
<1> QED BY <1>2, <1>3

\* An inner merge.
LEMMA InnerFrame ==
  ASSUME PairsReady, call.how = "inner"
  PROVE  ListsOrigins(Gathered)
<1>1. Pandas!Origins = Pandas!Matches
  BY DEF Pandas!Origins
<1>2. Gathered = FrameOf(pairs)
  BY GatheredFrame DEF PairsReady, SidesReady
<1> QED BY <1>1, <1>2 DEF ListsOrigins, PairsReady

\* A left merge: the rows of the left frame without a partner come last.
LEMMA LeftFrame ==
  ASSUME PairsReady, call.how = "left"
  PROVE  ListsOrigins(WithLeftRows)
<1> DEFINE a == Ascending(Pandas!LeftAlone)
           o == [q \in DOMAIN a |-> <<a[q], 0>>]
           rows == [q \in DOMAIN a |->
                      [n \in Range(call.lcols) |-> Pandas!LeftCell(n, a[q])]]
           n == Len(a)
           k == Len(pairs)
<1>1. Pandas!Origins = Pandas!Matches \cup (Pandas!LeftAlone \X {0})
  BY DEF Pandas!Origins
<1>2. Enumerates(a, Pandas!LeftAlone) /\ Pandas!LeftAlone \subseteq DOMAIN left
  BY AloneLists DEF PairsReady
<1>3. WithLeftRows = Lengthened(rows, call.lcols, "_x")
  BY UnmatchedRows DEF WithLeftRows
<1> HIDE DEF a
<1>4. Enumerates(o, Pandas!LeftAlone \X {0})
  BY <1>2, ListAlone
<1>5. Enumerates(pairs, Pandas!Matches)
  BY DEF PairsReady
<1>6. Enumerates(pairs \o o, Pandas!Origins)
  <2> HIDE DEF o
  <2>1. Enumerates(pairs \o o, Pandas!Matches \cup (Pandas!LeftAlone \X {0}))
    BY <1>4, <1>5, OriginsApart, ListConcat DEF PairsReady
  <2> QED BY <1>1, <2>1
<1>7. /\ n \in Nat /\ DOMAIN a = 1 .. n /\ \A q \in 1 .. n : a[q] \in DOMAIN left
      /\ k \in Nat /\ pairs = [p \in 1 .. k |-> pairs[p]]
  <2>1. a \in Seq(Pandas!LeftAlone) /\ pairs \in Seq(Pandas!Matches)
    BY <1>2, <1>5 DEF Enumerates
  <2> QED BY <1>2, <2>1
<1>8. /\ o = [q \in 1 .. n |-> o[q]]
      /\ rows = [q \in 1 .. n |-> rows[q]]
  BY <1>7
<1>9. Gathered = FrameOf(pairs)
  BY GatheredFrame DEF PairsReady, SidesReady
<1>10. ASSUME NEW c \in Pandas!LeftNames \cup Pandas!RightNames, NEW q \in 1 .. n
       PROVE  LET sources == SourcesIn(call.lcols, c, "_x")
              IN (IF sources = {} THEN NaN ELSE rows[q][CHOOSE m \in sources : TRUE])
                   = Pandas!CellOf(c, o[q])
  <2>1. o[q] = <<a[q], 0>> /\ a[q] # 0
        /\ rows[q] = [m \in Range(call.lcols) |-> Pandas!LeftCell(m, a[q])]
    BY <1>7 DEF PairsReady, SidesReady
  <2>2. o[q][1] = a[q] /\ o[q][2] = 0
    BY <2>1
  <2> HIDE DEF rows, o
  <2>3. CASE c \in Pandas!LeftNames
    <3>1. c[1] \in Range(call.lcols) /\ SourcesIn(call.lcols, c, "_x") = {c[1]}
      BY <2>3, LeftSources DEF PairsReady
    <3>2. (CHOOSE m \in {c[1]} : TRUE) = c[1]
      OBVIOUS
    <3>3. c \notin Pandas!RightNames
      BY <2>3, NamesFacts
    <3>4. Pandas!CellOf(c, o[q]) = Pandas!LeftCell(c[1], a[q])
      BY <2>1, <2>2, <2>3, <3>3 DEF Pandas!CellOf
    <3>5. rows[q][c[1]] = Pandas!LeftCell(c[1], a[q])
      BY <2>1, <3>1
    <3> QED BY <3>1, <3>2, <3>4, <3>5
  <2>4. CASE c \notin Pandas!LeftNames
    <3>1. SourcesIn(call.lcols, c, "_x") = {}
      BY <2>4, LeftSources DEF PairsReady
    <3>2. Pandas!CellOf(c, o[q]) = NaN
      BY <2>2, <2>4 DEF Pandas!CellOf
    <3> QED BY <3>1, <3>2
  <2> QED BY <2>3, <2>4
<1> HIDE DEF o, rows, n, k
<1>11. Lengthened(rows, call.lcols, "_x") = FrameOf(pairs \o o)
  BY <1>7, <1>8, <1>9, <1>10, LengthenedFrame
<1> QED BY <1>3, <1>6, <1>11 DEF ListsOrigins

\* A right merge: the key of a row without a partner comes from the right frame.
LEMMA RightFrame ==
  ASSUME PairsReady, call.how = "right"
  PROVE  ListsOrigins(WithRightRows)
<1> DEFINE a == Ascending(Pandas!RightAlone)
           o == [q \in DOMAIN a |-> <<0, a[q]>>]
           rows == [q \in DOMAIN a |->
                      [n \in Range(call.rcols) |-> Pandas!RightCell(n, a[q])]]
           n == Len(a)
           k == Len(pairs)
<1>1. Pandas!Origins = Pandas!Matches \cup ({0} \X Pandas!RightAlone)
  BY DEF Pandas!Origins
<1>2. Enumerates(a, Pandas!RightAlone) /\ Pandas!RightAlone \subseteq DOMAIN right
  BY AloneLists DEF PairsReady
<1>3. WithRightRows = Lengthened(rows, call.rcols, "_y")
  BY UnmatchedRows DEF WithRightRows
<1> HIDE DEF a
<1>4. Enumerates(o, {0} \X Pandas!RightAlone)
  BY <1>2, ListAlone
<1>5. Enumerates(pairs, Pandas!Matches)
  BY DEF PairsReady
<1>6. Enumerates(pairs \o o, Pandas!Origins)
  <2> HIDE DEF o
  <2>1. Enumerates(pairs \o o, Pandas!Matches \cup ({0} \X Pandas!RightAlone))
    BY <1>4, <1>5, OriginsApart, ListConcat DEF PairsReady
  <2> QED BY <1>1, <2>1
<1>7. /\ n \in Nat /\ DOMAIN a = 1 .. n /\ \A q \in 1 .. n : a[q] \in DOMAIN right
      /\ k \in Nat /\ pairs = [p \in 1 .. k |-> pairs[p]]
  <2>1. a \in Seq(Pandas!RightAlone) /\ pairs \in Seq(Pandas!Matches)
    BY <1>2, <1>5 DEF Enumerates
  <2> QED BY <1>2, <2>1
<1>8. /\ o = [q \in 1 .. n |-> o[q]]
      /\ rows = [q \in 1 .. n |-> rows[q]]
  BY <1>7
<1>9. Gathered = FrameOf(pairs)
  BY GatheredFrame DEF PairsReady, SidesReady
<1>10. ASSUME NEW c \in Pandas!LeftNames \cup Pandas!RightNames, NEW q \in 1 .. n
       PROVE  LET sources == SourcesIn(call.rcols, c, "_y")
              IN (IF sources = {} THEN NaN ELSE rows[q][CHOOSE m \in sources : TRUE])
                   = Pandas!CellOf(c, o[q])
  <2>1. o[q] = <<0, a[q]>> /\ a[q] # 0
        /\ rows[q] = [m \in Range(call.rcols) |-> Pandas!RightCell(m, a[q])]
    BY <1>7 DEF PairsReady, SidesReady
  <2>2. o[q][1] = 0 /\ o[q][2] = a[q]
    BY <2>1
  <2> HIDE DEF rows, o
  <2>3. (CHOOSE m \in {c[1]} : TRUE) = c[1]
    OBVIOUS
  <2>4. CASE c \in Pandas!LeftNames /\ Pandas!Shared(c[1])
    <3>1. c[1] \in Range(call.rcols) /\ SourcesIn(call.rcols, c, "_y") = {c[1]}
      BY <2>4, RightSources DEF PairsReady
    <3>2. Pandas!CellOf(c, o[q]) = Pandas!RightCell(c[1], a[q])
      <4>1. c \notin Pandas!RightNames
        BY <2>4, NamesFacts
      <4> QED BY <2>1, <2>2, <2>4, <4>1 DEF Pandas!CellOf
    <3>3. rows[q][c[1]] = Pandas!RightCell(c[1], a[q])
      BY <2>1, <3>1
    <3> QED BY <2>3, <3>1, <3>2, <3>3
  <2>5. CASE c \in Pandas!LeftNames /\ ~Pandas!Shared(c[1])
    <3>1. SourcesIn(call.rcols, c, "_y") = {}
      BY <2>5, RightSources DEF PairsReady
    <3>2. Pandas!CellOf(c, o[q]) = NaN
      <4>1. c \notin Pandas!RightNames
        BY <2>5, NamesFacts
      <4> QED BY <2>1, <2>2, <2>5, <4>1 DEF Pandas!CellOf
    <3> QED BY <3>1, <3>2
  <2>6. CASE c \notin Pandas!LeftNames
    <3>1. c[1] \in Range(call.rcols) /\ SourcesIn(call.rcols, c, "_y") = {c[1]}
      BY <2>6, RightSources DEF PairsReady
    <3>2. Pandas!CellOf(c, o[q]) = Pandas!RightCell(c[1], a[q])
      BY <2>1, <2>2, <2>6 DEF Pandas!CellOf
    <3>3. rows[q][c[1]] = Pandas!RightCell(c[1], a[q])
      BY <2>1, <3>1
    <3> QED BY <2>3, <3>1, <3>2, <3>3
  <2> QED BY <2>4, <2>5, <2>6
<1> HIDE DEF o, rows, n, k
<1>11. Lengthened(rows, call.rcols, "_y") = FrameOf(pairs \o o)
  BY <1>7, <1>8, <1>9, <1>10, LengthenedFrame
<1> QED BY <1>3, <1>6, <1>11 DEF ListsOrigins

\* What pandas answers, whatever `how' is.
LEMMA PandasLists ==
  ASSUME SidesReady, NEW s, Enumerates(s, Pandas!Matches)
  PROVE  ListsOrigins(PandasFrame(s))
<1> DEFINE L == IF call.how \in {"left", "outer"} THEN Pandas!LeftAlone ELSE {}
           R == IF call.how \in {"right", "outer"} THEN Pandas!RightAlone ELSE {}
           a == IF call.how \in {"left", "outer"} THEN Ascending(Pandas!LeftAlone) ELSE << >>
           b == IF call.how \in {"right", "outer"} THEN Ascending(Pandas!RightAlone) ELSE << >>
           la == [q \in DOMAIN a |-> <<a[q], 0>>]
           ra == [q \in DOMAIN b |-> <<0, b[q]>>]
<1>1. Pandas!Origins = Pandas!Matches \cup (L \X {0}) \cup ({0} \X R)
  BY DEF Pandas!Origins
<1>2. Enumerates(<< >>, {})
  BY DEF Enumerates
<1>3. Enumerates(a, L) /\ Enumerates(b, R)
  BY <1>2, AloneLists
<1>4. PandasFrame(s) = FrameOf(s \o la \o ra)
  BY DEF PandasFrame, FrameOf
<1>5. L \subseteq Pandas!LeftAlone /\ R \subseteq Pandas!RightAlone
  OBVIOUS
<1> HIDE DEF L, R, a, b
<1>6. Enumerates(la, L \X {0}) /\ Enumerates(ra, {0} \X R)
  BY <1>3, ListAlone
<1>7. /\ Pandas!Matches \cap (L \X {0}) = {}
      /\ (Pandas!Matches \cup (L \X {0})) \cap ({0} \X R) = {}
  BY <1>5, OriginsApart
<1> HIDE DEF la, ra
<1>8. Enumerates(s \o la, Pandas!Matches \cup (L \X {0}))
  BY <1>6, <1>7, ListConcat
<1>9. Enumerates((s \o la) \o ra, (Pandas!Matches \cup (L \X {0})) \cup ({0} \X R))
  BY <1>6, <1>7, <1>8, ListConcat
<1> QED BY <1>1, <1>4, <1>9 DEF ListsOrigins


-----------------------------------------------------------------------------
(* The merge answers as pandas does *)

\* Calls the device does not serve never reach it, and the frame is the last
\* thing that is made.
CallInv ==
  /\ call \in CallsOn(left, right)
  /\ phase \in {"build", "count", "write"} => Served
  /\ phase = "done" /\ frame = NoFrame => Served
  /\ phase # "done" => frame = NoFrame

\* No step touches the key columns.
LEMMA KeysStay ==
  ASSUME IInv, [Next]_vars
  PROVE  UNCHANGED <<left, right>>
BY DEF vars, Next, HostStep, EmptySide, StartBuild, StartCount, NoMatches, StartWrite,
       Finish, FallBack, BuildStep, LoadSlot, GiveUp, Claim, LoseSlot, StoreRow,
       ProbeStep, CountMatches, WriteMatches, DeviceError, Returned

\* A kernel runs only when another did, or in a call that was let in.
LEMMA KernelsFollow ==
  ASSUME IInv, [Next]_vars
  PROVE  /\ phase' \in {"build", "count", "write"} =>
              phase \in {"start", "build", "count", "write"}
         /\ phase' = "done" => phase \in {"start", "count", "write", "pandas", "done"}
         /\ phase = "done" => phase' = "done"
<1>1. CASE UNCHANGED vars \/ Returned
  BY <1>1 DEF vars, Returned
<1>2. CASE HostStep
  BY <1>2 DEF HostStep, EmptySide, StartBuild, StartCount, NoMatches, StartWrite, Finish,
              FallBack
<1>3. ASSUME NEW b \in DOMAIN build, BuildStep(b)
      PROVE  phase = "build" /\ phase' = "build"
  <2>1. found \subseteq running /\ claimed \subseteq running
        /\ (phase # "build" => found = {} /\ claimed = {})
    BY DEF IInv, TypeOK
  <2>2. CASE LoadSlot(b)
    BY <2>2 DEF LoadSlot, Probing
  <2>3. CASE GiveUp(b)
    BY <2>3 DEF GiveUp, Probing
  <2>4. CASE Claim(b)
    BY <2>1, <2>4 DEF Claim
  <2>5. CASE LoseSlot(b)
    BY <2>1, <2>5 DEF LoseSlot
  <2>6. CASE StoreRow(b)
    BY <2>1, <2>6 DEF StoreRow
  <2> QED BY <1>3, <2>2, <2>3, <2>4, <2>5, <2>6 DEF BuildStep
<1>4. ASSUME NEW r \in DOMAIN probe, ProbeStep(r)
      PROVE  phase' = phase /\ phase \in {"count", "write"}
  BY <1>4 DEF ProbeStep, CountMatches, WriteMatches
<1>5. CASE DeviceError
  BY <1>5 DEF DeviceError
<1> QED BY <1>1, <1>2, <1>3, <1>4, <1>5 DEF Next

\* A step of the merge is a step of the join, or turns to pandas.
LEMMA MergeSteps ==
  ASSUME [MergeNext]_mergeVars
  PROVE  [Next]_vars \/ Declined
BY DEF MergeNext, MergeHost, mergeVars, joinVars, Joining, Assemble, AskPandas,
       GatherFails, MergeReturned, Next, HostStep

LEMMA MergeBuffersNext ==
  ASSUME IInv, SoundTable, FewMatches, BufferInv, [MergeNext]_mergeVars
  PROVE  BufferInv'
<1>1. CASE [Next]_vars
  BY <1>1, BufferInvNext
<1>2. CASE Declined
  BY <1>2, BuffersStay DEF Declined
<1> QED BY <1>1, <1>2, MergeSteps

LEMMA MergeJoinedNext ==
  ASSUME IInv, SoundTable, FewMatches, EncodesClasses, BufferInv, Joined,
         [MergeNext]_mergeVars
  PROVE  Joined'
<1>1. CASE [Next]_vars
  BY <1>1, JoinedNext
<1>2. CASE Declined
  BY <1>2 DEF Declined, Joined
<1> QED BY <1>1, <1>2, MergeSteps

\* With an answer there are columns.
LEMMA AnswerHasColumns ==
  ASSUME SoundCall, NEW f, ListsOrigins(f)
  PROVE  f # NoFrame
<1>1. PICK o : f = FrameOf(o)
  BY DEF ListsOrigins
<1>2. DOMAIN f = Pandas!LeftNames \cup Pandas!RightNames
  BY <1>1 DEF FrameOf
<1>3. Pandas!LeftNames # {}
  <2>1. call.lkey \in Pandas!Range(call.lcols)
    BY DEF SoundCall, Pandas!Range, Range
  <2>2. <<call.lkey, IF call.lkey \in Pandas!Overlap THEN "_x" ELSE "">> \in Pandas!LeftNames
    BY <2>1 DEF Pandas!LeftNames
  <2> QED BY <2>2
<1>4. DOMAIN NoFrame = {}
  BY DEF NoFrame
<1> QED BY <1>2, <1>3, <1>4

\* Whatever the way to it, an answer has the rows of pandas.
LEMMA AnswersList ==
  ASSUME IInv, SoundCalls, EncodesClasses, CallInv, Joined,
         Assemble \/ GatherFails \/ AskPandas
  PROVE  ListsOrigins(frame')
<1>1. left \in LeftColumns /\ right \in RightColumns
  BY DEF IInv, TypeOK
<1>2. /\ SoundCall
      /\ Pandas!Matches = MatchesOf(left, right)
      /\ SidesReady
  BY <1>1, SameMatches DEF SoundCalls, SoundCall, CallInv, SidesReady
<1>3. Enumerates(PandasPairs, Pandas!Matches)
  BY <1>1, <1>2, PandasListsMatches
<1>4. CASE Assemble
  <2>1. phase = "done" /\ Served
    BY <1>4 DEF Assemble, CallInv
  <2>2. PairsReady
    BY <1>2, <2>1 DEF Joined, PairsReady
  <2>3. CASE call.how = "inner"
    BY <1>4, <2>2, <2>3, InnerFrame DEF Assemble
  <2>4. CASE call.how = "left"
    BY <1>4, <2>2, <2>4, LeftFrame DEF Assemble
  <2>5. CASE call.how = "right"
    BY <1>4, <2>2, <2>5, RightFrame DEF Assemble
  <2> QED BY <2>1, <2>3, <2>4, <2>5 DEF Served
<1>5. CASE GatherFails
  BY <1>2, <1>3, <1>5, PandasLists DEF GatherFails
<1>6. CASE AskPandas
  BY <1>2, <1>3, <1>6, PandasLists DEF AskPandas
<1> QED BY <1>4, <1>5, <1>6

\* A call is let in before its kernels run, and has its frame when it is done.
LEMMA CallInvNext ==
  ASSUME IInv, SoundCalls, EncodesClasses, CallInv, Joined, [MergeNext]_mergeVars
  PROVE  CallInv'
<1>1. CASE UNCHANGED mergeVars \/ MergeReturned
  BY <1>1 DEF mergeVars, joinVars, vars, MergeReturned, Returned, CallInv, Served, NoFrame
<1>2. CASE Declined
  BY <1>2 DEF Declined, CallInv, Served, NoFrame
<1>3. CASE Joining
  <2>1. /\ Served \/ phase # "start"
        /\ phase # "pandas" /\ phase # "done"
        /\ UNCHANGED <<call, frame>>
    BY <1>3 DEF Joining
  <2>2. UNCHANGED <<left, right>>
    BY <1>3, KeysStay DEF Joining
  <2>3. /\ phase' \in {"build", "count", "write"} =>
              phase \in {"start", "build", "count", "write"}
        /\ phase' = "done" => phase \in {"start", "count", "write", "pandas", "done"}
    BY <1>3, KernelsFollow DEF Joining
  <2>4. Served' = Served
    BY <2>1 DEF Served
  <2>5. frame = NoFrame /\ frame' = NoFrame
    BY <2>1 DEF CallInv, NoFrame
  <2> QED BY <2>1, <2>2, <2>3, <2>4, <2>5 DEF CallInv, NoFrame
<1>4. CASE Assemble \/ GatherFails \/ AskPandas
  <2>1. UNCHANGED <<left, right, call>> /\ phase' = "done"
    BY <1>4 DEF Assemble, GatherFails, AskPandas, FallBack, joinVars, vars
  <2>2. SoundCall
    BY DEF SoundCalls, SoundCall, CallInv, IInv, TypeOK
  <2>3. frame' # NoFrame
    BY <1>4, <2>2, AnswersList, AnswerHasColumns
  <2>4. NoFrame' = NoFrame
    BY DEF NoFrame
  <2> QED BY <2>1, <2>3, <2>4 DEF CallInv, Served
<1> QED BY <1>1, <1>2, <1>3, <1>4 DEF MergeNext, MergeHost

LEMMA MergeBuffersInvariance ==
  SoundTable /\ FewMatches => (MergeSpec => [](IInv /\ BufferInv))
<1>1. SoundTable /\ FewMatches /\ IInv /\ BufferInv /\ [MergeNext]_mergeVars
        => IInv' /\ BufferInv'
  BY MergeInvNext, MergeBuffersNext
<1>2. CASE SoundTable /\ FewMatches
  <2>1. IInv /\ BufferInv /\ [MergeNext]_mergeVars => (IInv /\ BufferInv)'
    BY <1>1, <1>2
  <2>2. MergeInit => IInv /\ BufferInv
    BY InvInit, BufferInit DEF MergeInit
  <2> QED BY <2>1, <2>2, PTL DEF MergeSpec
<1> QED BY <1>2

\* No thread of the write kernel leaves the index buffers of a merge.
THEOREM MergeWritesInBounds == SoundTable /\ FewMatches => (MergeSpec => []WritesInBounds)
<1>1. CASE SoundTable /\ FewMatches
  <2>1. IInv /\ BufferInv => WritesInBounds
    BY <1>1, InvWritesInBounds
  <2> QED BY <1>1, <2>1, MergeBuffersInvariance, PTL
<1> QED BY <1>1

-----------------------------------------------------------------------------
(* The refinement *)

\* What is assumed of the kernels' arithmetic and of the calls.
Assumed == SoundTable /\ FewMatches /\ EncodesClasses /\ SoundCalls

MergeInv == IInv /\ BufferInv /\ Joined /\ CallInv

LEMMA MergeInvInit == MergeInit => MergeInv
  BY InvInit, BufferInit DEF MergeInit, Init, MergeInv, CallInv, NoFrame

LEMMA MergeInvStep ==
  ASSUME Assumed, MergeInv, [MergeNext]_mergeVars
  PROVE  MergeInv'
BY MergeInvNext, MergeBuffersNext, MergeJoinedNext, CallInvNext DEF Assumed, MergeInv

\* What the frame lists is read off the frame, the key columns and the call.
LEMMA ListedFrameAnswers ==
  ASSUME UNCHANGED <<left, right, call>>, ListsOrigins(frame')
  PROVE  Pandas!Answered'
<1>1. PICK o : Enumerates(o, Pandas!Origins) /\ frame' = FrameOf(o)
  BY DEF ListsOrigins
<1>2. Pandas!Origins' = Pandas!Origins
  BY DEF Pandas!Origins, Pandas!Matches, Pandas!LeftAlone, Pandas!RightAlone
<1>3. /\ Pandas!LeftNames' = Pandas!LeftNames
      /\ Pandas!RightNames' = Pandas!RightNames
  BY DEF Pandas!LeftNames, Pandas!RightNames, Pandas!Overlap, Pandas!Shared
<1>4. (FrameOf(o))' = FrameOf(o)
  <2>1. ASSUME NEW c, NEW x PROVE (Pandas!CellOf(c, x))' = Pandas!CellOf(c, x)
    BY <1>3 DEF Pandas!CellOf, Pandas!Shared, Pandas!LeftCell, Pandas!RightCell,
                Pandas!Cell
  <2> QED BY <1>3, <2>1 DEF FrameOf
<1>5. (ListsOrigins(frame))'
  BY <1>1, <1>2, <1>4 DEF ListsOrigins
<1>6. (ListsOrigins(frame) => Pandas!Answered)'
  BY FrameAnswers, PTL
<1> QED BY <1>5, <1>6

\* Each step of the merge is the answer of pandas.merge, or leaves alone what
\* the caller sees.
LEMMA MergeStepAnswers ==
  ASSUME Assumed, MergeInv, [MergeNext]_mergeVars
  PROVE  [Pandas!Answer]_(Pandas!vars)
<1>1. CASE UNCHANGED mergeVars \/ MergeReturned
  BY <1>1 DEF mergeVars, joinVars, vars, MergeReturned, Returned, Pandas!vars
<1>2. CASE Declined
  BY <1>2 DEF Declined, Pandas!vars
<1>3. CASE Joining
  BY <1>3, KeysStay DEF Joining, Pandas!vars, MergeInv
<1>4. CASE Assemble \/ GatherFails \/ AskPandas
  <2>1. UNCHANGED <<left, right, call>>
    BY <1>4 DEF Assemble, GatherFails, AskPandas, FallBack, joinVars, vars
  <2>2. frame = NoFrame
    BY <1>4 DEF Assemble, GatherFails, AskPandas, FallBack, MergeInv, CallInv
  <2>3. ListsOrigins(frame')
    BY <1>4, AnswersList DEF Assumed, MergeInv
  <2>4. Pandas!Answered'
    BY <2>1, <2>3, ListedFrameAnswers
  <2> QED BY <2>1, <2>2, <2>4 DEF Pandas!Answer, Pandas!NoAnswer, NoFrame
<1> QED BY <1>1, <1>2, <1>3, <1>4 DEF MergeNext, MergeHost

\* What the caller of merge() sees is what pandas.merge promises, up to the
\* order of the rows: the frame comes once, with the columns and names of
\* pandas, and with each row as often as pandas has it, whether the device joins
\* the keys, fails underway or is never asked.  This is MergeIsCorrect without
\* its liveness.
THEOREM MergeAnswersPandas ==
  Assumed => (MergeSpec => Pandas!Init /\ [][Pandas!Answer]_(Pandas!vars))
<1>1. Assumed /\ MergeInv /\ [MergeNext]_mergeVars
        => MergeInv' /\ [Pandas!Answer]_(Pandas!vars)
  BY MergeInvStep, MergeStepAnswers
<1>2. MergeInit => MergeInv /\ Pandas!Init
  BY MergeInvInit DEF MergeInit, Pandas!Init, Pandas!NoAnswer, NoFrame
<1>3. CASE Assumed
  <2>1. MergeInv /\ [MergeNext]_mergeVars => MergeInv' /\ [Pandas!Answer]_(Pandas!vars)
    BY <1>1, <1>3
  <2> QED BY <1>2, <2>1, PTL DEF MergeSpec
<1> QED BY <1>3

=============================================================================
