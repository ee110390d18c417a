----------------------- MODULE StreamCompaction_proofs -----------------------
(***************************************************************************)
(* The prefix scan under its callers, for every column, every width of a   *)
(* threadgroup and every interleaving: types, the lockstep of threadgroups *)
(* and the shape of the recursion; then what the threads and the calls     *)
(* have folded at every moment; and from that the answers, sums, minima,   *)
(* maxima, fills and filtered rows, as pandas computes them.               *)
(***************************************************************************)
EXTENDS StreamCompaction, CommonLemmas

\* A call's output has a cell per cell of its input, its partials one per group.
BuffersFit(l) ==
  /\ Len(levels[l].input) >= 1
  /\ Len(levels[l].output) = Len(levels[l].input)
  /\ Len(levels[l].partials) = GroupsFor(Len(levels[l].input))

\* A call scans the partials of the call below it.
ScansPartials(l) ==
  Len(levels[l + 1].input) = GroupsFor(Len(levels[l].input))

StackShape ==
  /\ phase = "start" => levels = << >>
  /\ \A l \in 1 .. Len(levels) : BuffersFit(l)
  /\ \A l \in 1 .. Len(levels) - 1 : ScansPartials(l)

IInv == ScanTypeOK /\ StackShape /\ Lockstep /\ OnePrefixPerGroup

-----------------------------------------------------------------------------
(* Operators *)

\* What a call is.
LEMMA CallType ==
  ASSUME call \in Calls
  PROVE  /\ Size \in Nat /\ Size >= 2
         /\ call.column \in Seq(Values)
         /\ Op \in {"sum", "min", "max", "ffill", "bfill"}
<1>1. /\ call.op \in {"sum", "min", "max", "ffill", "bfill", "compact"}
      /\ call.column \in Seq(Values)
      /\ call.size \in Nat \ {0, 1}
  BY ScanAssumption
<1> QED
  BY <1>1 DEF Size, Op

\* A buffer of n cells has at least one group if it has a cell.
LEMMA GroupsType ==
  ASSUME Size \in Nat, Size >= 2, NEW n \in Nat
  PROVE  /\ GroupsFor(n) \in Nat
         /\ n >= 1 => GroupsFor(n) >= 1
<1> DEFINE s == Size
<1>1. s \in Nat /\ s >= 2
  OBVIOUS
<1>2. (n + s - 1) \div s \in Nat /\ (n >= 1 => (n + s - 1) \div s >= 1)
  <2> HIDE DEF s
  <2> QED
    BY <1>1
<1> QED
  BY <1>2 DEF GroupsFor

\* The kernels have a number of intervals.
LEMMA PublishingType ==
  ASSUME Size \in Nat
  PROVE  Publishing \in Nat /\ Publishing >= 1
<1>1. IsFiniteSet(0 .. Size - 1)
  BY FS_Interval
<1>2. IsFiniteSet({r \in 0 .. Size - 1 : 2 ^ r < Size})
  BY <1>1, FS_Subset
<1>3. Rounds \in Nat
  BY <1>2, FS_CardinalityType DEF Rounds
<1> QED
  BY <1>3 DEF Publishing

\* Combining two values gives a value.
LEMMA CombineType ==
  ASSUME call \in Calls, NEW x \in Values, NEW y \in Values
  PROVE  Combine(x, y) \in Values
<1>1. Op \in {"sum", "min", "max", "ffill", "bfill"}
  BY CallType
<1>2. x \in Int /\ y \in Int /\ Word \in Nat \ {0}
  BY ScanAssumption DEF Values
<1>3. Plus(x, y) \in Values
  BY <1>2 DEF Plus, Values
<1> QED
  BY <1>1, <1>3 DEF Combine, Filling

LEMMA IdentityType ==
  ASSUME call \in Calls
  PROVE  Identity \in Values
<1>1. Op \in {"sum", "min", "max", "ffill", "bfill"}
  BY CallType
<1>2. Word \in Nat \ {0} /\ NaN \in Values /\ 0 \in Values /\ Word - 1 \in Values
  BY ScanAssumption DEF Values
<1> QED
  BY <1>1, <1>2 DEF Identity, Filling

\* A thread's cell, and the cell its mirror image has.
LEMMA CellType ==
  ASSUME Size \in Nat, Size >= 2, Len(Top.input) \in Nat,
         NEW t \in Threads
  PROVE  /\ Base(t) \in Nat \ {0}
         /\ InColumn(t) => Index(Base(t)) \in 1 .. Len(Top.input)
<1> DEFINE s == Size
<1>1. t[1] \in Nat /\ t[2] \in Nat /\ s \in Nat
  BY GroupsType DEF Threads, ThreadsFor
<1>2. t[1] * s \in Nat
  <2> HIDE DEF s
  <2> QED
    BY <1>1
<1>3. Base(t) \in Nat \ {0}
  BY <1>1, <1>2 DEF Base
<1> QED
  BY <1>3 DEF InColumn, Index

-----------------------------------------------------------------------------
(* The stack *)

\* The buffers of the call that runs.
LEMMA TopType ==
  ASSUME IInv, levels # << >>
  PROVE  /\ Len(levels) \in Nat \ {0} /\ levels \in [1 .. Len(levels) -> Level]
         /\ Top \in Level
         /\ Len(Top.input) \in Nat \ {0}
         /\ Len(Top.output) = Len(Top.input)
         /\ Len(Top.partials) = NumGroups
         /\ NumGroups \in Nat \ {0}
<1>1. levels \in Seq(Level)
  BY DEF IInv, ScanTypeOK
<1>2. Len(levels) \in Nat \ {0} /\ levels \in [1 .. Len(levels) -> Level]
  BY <1>1
<1>3. Top \in Level
  BY <1>2 DEF Top
<1>4. BuffersFit(Len(levels))
  BY <1>2 DEF IInv, StackShape
<1>5. Len(Top.input) \in Nat \ {0} /\ Len(Top.output) = Len(Top.input)
      /\ Len(Top.partials) = NumGroups
  BY <1>3, <1>4 DEF BuffersFit, Top, NumGroups, Level
<1>6. NumGroups \in Nat \ {0}
  <2> DEFINE m == Len(Top.input)
  <2>1. call \in Calls
    BY DEF IInv, ScanTypeOK
  <2>2. Size \in Nat /\ Size >= 2
    BY <2>1, CallType
  <2>3. m \in Nat /\ m >= 1
    BY <1>5
  <2>4. GroupsFor(m) \in Nat /\ GroupsFor(m) >= 1
    <3> HIDE DEF m
    <3> QED
      BY <2>2, <2>3, GroupsType
  <2> QED
    BY <2>4 DEF NumGroups
<1> QED
  BY <1>2, <1>3, <1>5, <1>6

\* A call writes its buffers and leaves the shape of the stack as it is.
LEMMA TopWritten ==
  ASSUME IInv, levels # << >>, UNCHANGED <<call, phase>>,
         NEW o \in Seq(Values), Len(o) = Len(Top.input),
         NEW p \in Seq(Values), Len(p) = NumGroups,
         levels' = [levels EXCEPT ![Len(levels)] =
                      [input |-> Top.input, output |-> o, partials |-> p]]
  PROVE  /\ levels' \in Seq(Level) /\ levels' # << >>
         /\ StackShape'
         /\ Top'.input = Top.input
         /\ Threads' = Threads /\ NumGroups' = NumGroups
<1> DEFINE n == Len(levels)
           new == [input |-> Top.input, output |-> o, partials |-> p]
<1>1. /\ n \in Nat \ {0} /\ levels \in [1 .. n -> Level] /\ Top \in Level
      /\ Len(Top.input) \in Nat \ {0}
  BY TopType
<1>2. new \in Level
  BY <1>1 DEF Level
<1>3. levels' = [levels EXCEPT ![n] = new]
  OBVIOUS
<1>4. levels' \in [1 .. n -> Level] /\ levels'[n] = new
      /\ \A l \in 1 .. n - 1 : levels'[l] = levels[l]
  <2> HIDE DEF new, n
  <2> QED
    BY <1>1, <1>2, <1>3
<1>5. levels' \in Seq(Level) /\ Len(levels') = n
  <2> HIDE DEF new, n
  <2> QED
    BY <1>1, <1>4
<1>6. Top' = new
  BY <1>4, <1>5 DEF Top
<1>7. Size' = Size /\ \A m : GroupsFor(m)' = GroupsFor(m)
  BY DEF Size, GroupsFor
<1>8. \A l \in 1 .. n : levels'[l].input = levels[l].input
  BY <1>1, <1>4 DEF Top
<1>9. StackShape'
  <2>1. ASSUME NEW l \in 1 .. n PROVE BuffersFit(l)'
    <3>1. CASE l = n
      BY <1>1, <1>4, <3>1, <1>7 DEF BuffersFit, NumGroups
    <3>2. CASE l # n
      <4>1. levels'[l] = levels[l] /\ BuffersFit(l)
        BY <1>1, <1>4, <3>2 DEF IInv, StackShape
      <4> QED
        BY <4>1, <1>7 DEF BuffersFit
    <3> QED
      BY <3>1, <3>2
  <2>2. ASSUME NEW l \in 1 .. n - 1 PROVE ScansPartials(l)'
    <3>1. ScansPartials(l) /\ l \in 1 .. n /\ l + 1 \in 1 .. n
      BY <1>1 DEF IInv, StackShape
    <3> QED
      BY <3>1, <1>7, <1>8 DEF ScansPartials
  <2>3. phase' # "start"
    BY DEF IInv, StackShape
  <2> QED
    BY <1>5, <2>1, <2>2, <2>3 DEF StackShape
<1> QED
  BY <1>1, <1>5, <1>6, <1>7, <1>9 DEF Threads, ThreadsFor, NumGroups

\* A call that is made finds its buffers and threads in their initial state.
LEMMA LaunchKeeps ==
  ASSUME IInv, UNCHANGED <<call, scanned>>,
         NEW b \in Seq(Values), b # << >>,
         levels = << >> \/ (levels # << >> /\ Len(b) = NumGroups),
         Launch(b)
  PROVE  IInv'
<1> DEFINE n == Len(levels)
           new == [input |-> b, output |-> [i \in DOMAIN b |-> 0],
                   partials |-> [g \in 1 .. GroupsFor(Len(b)) |-> 0]]
<1>1. /\ call \in Calls /\ Size \in Nat /\ Size >= 2 /\ scanned \in Seq(Values)
      /\ levels \in Seq(Level)
  BY CallType DEF IInv, ScanTypeOK
<1>2. n \in Nat /\ levels \in [1 .. n -> Level]
  BY <1>1
<1>3. Len(b) \in Nat \ {0} /\ DOMAIN b = 1 .. Len(b)
  OBVIOUS
<1>4. GroupsFor(Len(b)) \in Nat \ {0}
  BY <1>1, <1>3, GroupsType
<1>5. 0 \in Values
  BY ScanAssumption DEF Values
<1>6. /\ new.input = b
      /\ new.output \in Seq(Values) /\ Len(new.output) = Len(b)
      /\ new.partials \in Seq(Values) /\ Len(new.partials) = GroupsFor(Len(b))
  BY <1>3, <1>4, <1>5
<1>7. new \in Level
  BY <1>6 DEF Level
<1>8. levels' = Append(levels, new) /\ phase' = "scan"
  BY DEF Launch
<1>9. /\ levels' \in Seq(Level) /\ Len(levels') = n + 1 /\ levels' # << >>
      /\ levels'[n + 1] = new
      /\ \A l \in 1 .. n : levels'[l] = levels[l]
  <2> HIDE DEF new
  <2> QED
    BY <1>1, <1>2, <1>7, <1>8
<1>10. Top' = new /\ Top'.input = b
  BY <1>9 DEF Top
<1>11. /\ Size' = Size /\ Threads' = ThreadsFor(Len(b)) /\ Publishing' = Publishing
       /\ \A m : GroupsFor(m)' = GroupsFor(m)
  BY <1>10 DEF Size, Threads, ThreadsFor, GroupsFor, Publishing, Rounds
<1>12. /\ at' = [t \in ThreadsFor(Len(b)) |-> 0]
       /\ shared' = [t \in ThreadsFor(Len(b)) |-> 0]
       /\ reg' = [t \in ThreadsFor(Len(b)) |-> 0]
  BY DEF Launch
<1>13. at' \in [Threads' -> 0 .. Publishing' + 1]
  BY <1>1, <1>11, <1>12, PublishingType
<1>14. shared' \in [Threads' -> Values] /\ reg' \in [Threads' -> Values]
  BY <1>5, <1>11, <1>12
<1>15. ScanTypeOK'
  BY <1>1, <1>8, <1>9, <1>13, <1>14 DEF ScanTypeOK
<1>16. StackShape'
  <2>1. ASSUME NEW l \in 1 .. n + 1 PROVE BuffersFit(l)'
    <3>1. CASE l = n + 1
      <4>1. levels'[l] = new
        BY <1>9, <3>1
      <4>2. /\ Len(levels'[l].input) = Len(b)
            /\ Len(levels'[l].output) = Len(b)
            /\ Len(levels'[l].partials) = GroupsFor(Len(b))
        <5> HIDE DEF new
        <5> QED
          BY <4>1, <1>6
      <4>3. Len(levels'[l].input) >= 1
        BY <4>2, <1>3
      <4> HIDE DEF new
      <4> QED
        BY <4>2, <4>3, <1>11 DEF BuffersFit, GroupsFor
    <3>2. CASE l # n + 1
      <4>1. levels'[l] = levels[l] /\ BuffersFit(l)
        BY <1>2, <1>9, <3>2 DEF IInv, StackShape
      <4> QED
        BY <4>1, <1>11 DEF BuffersFit
    <3> QED
      BY <3>1, <3>2
  <2>2. ASSUME NEW l \in 1 .. n PROVE ScansPartials(l)'
    <3>1. levels'[l] = levels[l] /\ l \in 1 .. n /\ levels # << >>
      BY <1>2, <1>9
    <3>2. CASE l = n
      BY <1>9, <1>11, <3>1, <3>2 DEF ScansPartials, NumGroups, Top
    <3>3. CASE l # n
      <4>0. l \in 1 .. n - 1 /\ l + 1 \in 1 .. n
        <5> HIDE DEF n
        <5> QED
          BY <1>2, <3>3
      <4>1. ScansPartials(l) /\ levels'[l + 1] = levels[l + 1]
        BY <4>0, <1>9 DEF IInv, StackShape
      <4> QED
        BY <3>1, <4>1, <1>11 DEF ScansPartials
    <3> QED
      BY <3>2, <3>3
  <2> QED
    BY <1>2, <1>8, <1>9, <2>1, <2>2 DEF StackShape
<1>17. Lockstep'
  BY <1>11, <1>12 DEF Lockstep
<1> QED
  BY <1>8, <1>15, <1>16, <1>17 DEF IInv, OnePrefixPerGroup

-----------------------------------------------------------------------------
(* Pass 1 *)

\* A thread that goes on at a barrier, or loads its cell, stays in lockstep.
LEMMA AdvanceKeeps ==
  ASSUME IInv, phase = "scan", NEW t \in Threads, at[t] <= Publishing,
         at[t] = 0 \/ Barrier(t), Advance(t),
         UNCHANGED call, Threads' = Threads
  PROVE  at' \in [Threads' -> 0 .. Publishing' + 1] /\ Lockstep'
<1>1. /\ at \in [Threads -> 0 .. Publishing + 1]
      /\ call \in Calls /\ Size \in Nat /\ Size >= 2
  BY CallType DEF IInv, ScanTypeOK
<1>2. Publishing \in Nat /\ Publishing' = Publishing
  BY <1>1, PublishingType DEF Publishing, Rounds, Size
<1>3. at' = [at EXCEPT ![t] = at[t] + 1]
  BY DEF Advance
<1>4. at' \in [Threads' -> 0 .. Publishing' + 1]
  BY <1>1, <1>2, <1>3
<1>5. ASSUME NEW u \in Threads PROVE at[u] \in Nat
  BY <1>1, <1>2
<1>6. ASSUME NEW u \in Threads, u[1] = t[1] PROVE at[t] <= at[u]
  <2>1. u = <<t[1], u[2]>> /\ u[2] \in 0 .. Size - 1
    BY <1>6 DEF Threads, ThreadsFor
  <2>2. CASE at[t] = 0
    BY <1>5, <2>2
  <2>3. CASE Barrier(t)
    <3>1. at[t] <= at[<<t[1], u[2]>>]
      BY <2>1, <2>3 DEF Barrier
    <3> QED
      BY <2>1, <3>1
  <2> QED
    BY <2>2, <2>3
<1>7. ASSUME NEW u \in Threads, NEW v \in Threads, u[1] = v[1]
      PROVE  at'[u] <= at'[v] + 1
  <2>1. at[u] <= at[v] + 1
    BY <1>7 DEF IInv, Lockstep
  <2>2. at[u] \in Nat /\ at[v] \in Nat /\ at[t] \in Nat
    BY <1>5
  <2>3. at'[u] = (IF u = t THEN at[t] + 1 ELSE at[u])
        /\ at'[v] = (IF v = t THEN at[t] + 1 ELSE at[v])
    BY <1>1, <1>3
  <2>4. CASE u = t
    <3>1. at[t] <= at[v]
      BY <1>6, <1>7, <2>4
    <3> QED
      BY <2>2, <2>3, <2>4, <3>1
  <2>5. CASE u # t
    BY <2>1, <2>2, <2>3, <2>5
  <2> QED
    BY <2>4, <2>5
<1>8. Lockstep'
  BY <1>7 DEF Lockstep
<1> QED
  BY <1>4, <1>8

\* Steps that change a thread's variables and no buffer.
LEMMA ThreadStepKeeps ==
  ASSUME IInv, phase = "scan", NEW t \in Threads, at[t] <= Publishing,
         at[t] = 0 \/ Barrier(t), Advance(t),
         shared' \in [Threads -> Values], reg' \in [Threads -> Values],
         UNCHANGED <<call, phase, levels, scanned>>
  PROVE  IInv'
<1>1. Threads' = Threads /\ Top' = Top /\ Size' = Size
  BY DEF Threads, ThreadsFor, GroupsFor, Size, Top
<1>2. at' \in [Threads' -> 0 .. Publishing' + 1] /\ Lockstep'
  BY <1>1, AdvanceKeeps
<1>3. ScanTypeOK'
  BY <1>1, <1>2 DEF IInv, ScanTypeOK
<1>4. StackShape'
  BY <1>1 DEF IInv, StackShape, BuffersFit, ScansPartials, GroupsFor
<1> QED
  BY <1>2, <1>3, <1>4 DEF IInv, OnePrefixPerGroup

\* In pass 1 the threads and their memory have their types.
LEMMA ScanPhase ==
  ASSUME IInv, phase = "scan"
  PROVE  /\ call \in Calls /\ Size \in Nat /\ Size >= 2 /\ levels # << >>
         /\ at \in [Threads -> 0 .. Publishing + 1]
         /\ shared \in [Threads -> Values] /\ reg \in [Threads -> Values]
         /\ Publishing \in Nat /\ Publishing >= 1
  BY CallType, PublishingType DEF IInv, ScanTypeOK

LEMMA LoadCellKeeps ==
  ASSUME IInv, NEW t \in Threads, LoadCell(t)
  PROVE  IInv'
<1>1. phase = "scan" /\ at[t] = 0 /\ Advance(t)
      /\ UNCHANGED <<call, phase, levels, reg, scanned>>
  BY DEF LoadCell
<1>2. /\ call \in Calls /\ Size \in Nat /\ Size >= 2 /\ levels # << >>
      /\ shared \in [Threads -> Values] /\ reg \in [Threads -> Values]
      /\ Publishing \in Nat
  BY <1>1, ScanPhase
<1>3. Len(Top.input) \in Nat \ {0} /\ Top.input \in Seq(Values)
  BY <1>2, TopType DEF Level
<1>4. InColumn(t) => Top.input[Index(Base(t))] \in Values
  <2>1. InColumn(t) => Index(Base(t)) \in 1 .. Len(Top.input)
    BY <1>2, <1>3, CellType
  <2> QED
    BY <1>3, <2>1
<1>5. Identity \in Values
  BY <1>2, IdentityType
<1>6. shared' \in [Threads -> Values]
  BY <1>2, <1>4, <1>5 DEF LoadCell
<1>7. reg' \in [Threads -> Values] /\ at[t] <= Publishing
  BY <1>1, <1>2
<1> QED
  BY <1>1, <1>6, <1>7, ThreadStepKeeps

LEMMA ReadCellsKeeps ==
  ASSUME IInv, NEW t \in Threads, ReadCells(t)
  PROVE  IInv'
<1>1. /\ phase = "scan" /\ at[t] < Publishing /\ at[t] % 2 = 1
      /\ Barrier(t) /\ Advance(t)
      /\ UNCHANGED <<call, phase, levels, shared, scanned>>
  BY DEF ReadCells
<1>2. /\ call \in Calls /\ Size \in Nat /\ Size >= 2
      /\ at \in [Threads -> 0 .. Publishing + 1]
      /\ shared \in [Threads -> Values] /\ reg \in [Threads -> Values]
      /\ Publishing \in Nat
  BY <1>1, ScanPhase
<1>3. Offset(t) \in Nat
  <2>1. at[t] \in Nat /\ at[t] >= 1
    BY <1>1, <1>2
  <2>2. (at[t] - 1) \div 2 \in Nat
    BY <2>1
  <2> QED
    BY <2>2, PowerOfTwo DEF Offset
<1>4. ASSUME t[2] >= Offset(t)
      PROVE  <<t[1], t[2] - Offset(t)>> \in Threads
  <2>1. t[1] \in 0 .. GroupsFor(Len(Top.input)) - 1 /\ t[2] \in 0 .. Size - 1
    BY DEF Threads, ThreadsFor
  <2>2. t[2] - Offset(t) \in 0 .. Size - 1
    BY <1>2, <1>3, <1>4, <2>1
  <2> QED
    BY <2>1, <2>2 DEF Threads, ThreadsFor
<1>5. shared[t] \in Values
  BY <1>2
<1>6. t[2] >= Offset(t) =>
        Combine(shared[<<t[1], t[2] - Offset(t)>>], shared[t]) \in Values
  BY <1>2, <1>4, <1>5, CombineType
<1>7. reg' \in [Threads -> Values]
  BY <1>2, <1>5, <1>6 DEF ReadCells
<1>8. shared' \in [Threads -> Values] /\ at[t] <= Publishing
  BY <1>1, <1>2
<1> QED
  BY <1>1, <1>7, <1>8, ThreadStepKeeps

LEMMA WriteCellKeeps ==
  ASSUME IInv, NEW t \in Threads, WriteCell(t)
  PROVE  IInv'
<1>1. /\ phase = "scan" /\ at[t] < Publishing
      /\ Barrier(t) /\ Advance(t)
      /\ UNCHANGED <<call, phase, levels, reg, scanned>>
  BY DEF WriteCell
<1>2. /\ at \in [Threads -> 0 .. Publishing + 1]
      /\ shared \in [Threads -> Values] /\ reg \in [Threads -> Values]
      /\ Publishing \in Nat
  BY <1>1, ScanPhase
<1>3. shared' \in [Threads -> Values]
  BY <1>2 DEF WriteCell
<1>4. reg' \in [Threads -> Values] /\ at[t] <= Publishing
  BY <1>1, <1>2
<1> QED
  BY <1>1, <1>3, <1>4, ThreadStepKeeps

LEMMA PublishKeeps ==
  ASSUME IInv, NEW t \in Threads, Publish(t)
  PROVE  IInv'
<1> DEFINE o == [i \in DOMAIN Top.input |->
                   IF InColumn(t) /\ i = Index(Base(t)) THEN shared[t]
                   ELSE Top.output[i]]
           p == [g \in DOMAIN Top.partials |->
                   IF g = t[1] + 1 /\ t[2] = Size - 1 THEN shared[t]
                   ELSE Top.partials[g]]
<1>1. /\ phase = "scan" /\ at[t] = Publishing /\ Barrier(t) /\ Advance(t)
      /\ UNCHANGED <<call, phase, shared, reg, scanned>>
      /\ levels' = [levels EXCEPT ![Len(levels)] =
                      [input |-> Top.input, output |-> o, partials |-> p]]
  BY DEF Publish
<1>2. /\ call \in Calls /\ levels # << >> /\ Publishing \in Nat
      /\ shared \in [Threads -> Values] /\ reg \in [Threads -> Values]
  BY <1>1, ScanPhase
<1>3. /\ Top.input \in Seq(Values) /\ Top.output \in Seq(Values)
      /\ Top.partials \in Seq(Values)
      /\ Len(Top.output) = Len(Top.input) /\ Len(Top.partials) = NumGroups
  BY <1>2, TopType DEF Level
<1>4. shared[t] \in Values
  BY <1>2
<1>5. o \in Seq(Values) /\ Len(o) = Len(Top.input)
  BY <1>3, <1>4
<1>6. p \in Seq(Values) /\ Len(p) = NumGroups
  BY <1>3, <1>4
<1>7. /\ levels' \in Seq(Level) /\ levels' # << >> /\ StackShape'
      /\ Threads' = Threads
  <2> HIDE DEF o, p
  <2> QED
    BY <1>1, <1>2, <1>5, <1>6, TopWritten
<1>8. at[t] <= Publishing
  BY <1>1, <1>2
<1>9. at' \in [Threads' -> 0 .. Publishing' + 1] /\ Lockstep'
  BY <1>1, <1>7, <1>8, AdvanceKeeps
<1>10. ScanTypeOK'
  <2> HIDE DEF o, p
  <2> QED
    BY <1>1, <1>2, <1>7, <1>9 DEF IInv, ScanTypeOK
<1> QED
  BY <1>1, <1>7, <1>9, <1>10 DEF IInv, OnePrefixPerGroup

-----------------------------------------------------------------------------
(* The calls *)

LEMMA StartKeeps ==
  ASSUME IInv, Start
  PROVE  IInv'
<1>1. call.column # << >> /\ Launch(call.column) /\ UNCHANGED <<call, scanned>>
  BY DEF Start
<1>2. call.column \in Seq(Values)
  BY CallType DEF IInv, ScanTypeOK
<1>3. levels = << >>
  BY DEF IInv, StackShape, Start
<1> QED
  BY <1>1, <1>2, <1>3, LaunchKeeps

LEMMA RecurseKeeps ==
  ASSUME IInv, Recurse
  PROVE  IInv'
<1>1. phase = "scan" /\ Launch(Top.partials) /\ UNCHANGED <<call, scanned>>
  BY DEF Recurse, Pass1Done
<1>2. levels # << >>
  BY <1>1, ScanPhase
<1>3. Top.partials \in Seq(Values) /\ Len(Top.partials) = NumGroups
      /\ NumGroups \in Nat \ {0}
  BY <1>2, TopType DEF Level
<1>4. Top.partials # << >>
  BY <1>3
<1> QED
  BY <1>1, <1>2, <1>3, <1>4, LaunchKeeps

LEMMA PropagateKeeps ==
  ASSUME IInv, NEW t \in Threads, Propagate(t)
  PROVE  IInv'
<1> DEFINE cell(i) == IF i = Index(Base(t))
                        THEN Combine(scanned[Predecessor(t)], Top.output[i])
                        ELSE Top.output[i]
           o == [i \in DOMAIN Top.input |-> cell(i)]
<1>1. /\ phase = "propagate" /\ at[t] = 0 /\ MayPropagate(t) /\ Advance(t)
      /\ UNCHANGED <<call, phase, shared, reg, scanned>>
      /\ levels' = [levels EXCEPT ![Len(levels)] =
                      [input |-> Top.input, output |-> o,
                       partials |-> Top.partials]]
  BY DEF Propagate
<1>2. /\ call \in Calls /\ levels # << >> /\ scanned \in Seq(Values)
      /\ at \in [Threads -> 0 .. Publishing + 1]
      /\ Len(scanned) = NumGroups
  BY <1>1 DEF IInv, ScanTypeOK, OnePrefixPerGroup
<1>3. /\ Top.input \in Seq(Values) /\ Top.output \in Seq(Values)
      /\ Top.partials \in Seq(Values)
      /\ Len(Top.output) = Len(Top.input) /\ Len(Top.partials) = NumGroups
      /\ NumGroups \in Nat \ {0}
  BY <1>2, TopType DEF Level
<1>4. scanned[Predecessor(t)] \in Values
  <2>1. t[1] \in 0 .. NumGroups - 1 /\ t[1] > 0
    BY <1>1 DEF Threads, ThreadsFor, NumGroups, MayPropagate
  <2>2. Predecessor(t) \in 1 .. Len(scanned)
    BY <1>2, <1>3, <2>1 DEF Predecessor
  <2> QED
    BY <1>2, <2>2
<1>5. ASSUME NEW i \in DOMAIN Top.input
      PROVE  cell(i) \in Values
  <2>1. Top.output[i] \in Values
    BY <1>3
  <2>2. Combine(scanned[Predecessor(t)], Top.output[i]) \in Values
    BY <1>2, <1>4, <2>1, CombineType
  <2> QED
    BY <2>1, <2>2
<1>6. o \in Seq(Values) /\ Len(o) = Len(Top.input)
  <2> HIDE DEF cell
  <2> QED
    BY <1>3, <1>5
<1>7. /\ levels' \in Seq(Level) /\ levels' # << >> /\ StackShape'
      /\ Threads' = Threads /\ NumGroups' = NumGroups
  <2> HIDE DEF o
  <2> QED
    BY <1>1, <1>2, <1>3, <1>6, TopWritten
<1>8. at' \in [Threads' -> 0 .. Publishing' + 1]
  <2>1. Publishing' = Publishing /\ Publishing \in Nat /\ Publishing >= 1
    BY <1>1, <1>2, CallType, PublishingType DEF Publishing, Rounds, Size
  <2>2. at' = [at EXCEPT ![t] = 1]
    BY <1>1, <1>2 DEF Advance
  <2> QED
    BY <1>2, <1>7, <2>1, <2>2
<1>9. ScanTypeOK'
  <2> HIDE DEF o
  <2> QED
    BY <1>1, <1>2, <1>7, <1>8 DEF ScanTypeOK
<1> QED
  BY <1>1, <1>2, <1>7, <1>9 DEF IInv, OnePrefixPerGroup, Lockstep

\* A call that returns leaves the one below it with a prefix per group.
LEMMA ReturnKeeps ==
  ASSUME IInv, Return
  PROVE  IInv'
<1> DEFINE n == Len(levels)
<1>1. phase \in {"scan", "propagate"}
  BY DEF Return, Pass1Done, Pass2Done
<1>2. levels # << >> /\ levels \in Seq(Level) /\ call \in Calls
  BY <1>1 DEF IInv, ScanTypeOK
<1>3. /\ n \in Nat \ {0} /\ levels \in [1 .. n -> Level]
      /\ Top.output \in Seq(Values) /\ Len(Top.output) = Len(Top.input)
  BY <1>2, TopType DEF Level
<1>4. /\ scanned' = Top.output /\ UNCHANGED <<call, shared, reg>>
      /\ levels' = SubSeq(levels, 1, n - 1)
  BY DEF Return, Result
<1>5. levels' \in [1 .. n - 1 -> Level] /\ \A l \in 1 .. n - 1 : levels'[l] = levels[l]
  <2>1. levels' = [l \in 1 .. n - 1 |-> levels[l]]
    BY <1>2, <1>3, <1>4
  <2> HIDE DEF n
  <2> QED
    BY <1>3, <2>1
<1>6. levels' \in Seq(Level) /\ Len(levels') = n - 1
  <2> HIDE DEF n
  <2> QED
    BY <1>3, <1>5
<1>7. Size' = Size
  BY <1>4 DEF Size
<1>8. StackShape'
  <2>1. ASSUME NEW l \in 1 .. n - 1 PROVE BuffersFit(l)'
    <3>1. l \in 1 .. n /\ levels'[l] = levels[l]
      BY <1>3, <1>5
    <3>2. BuffersFit(l)
      BY <3>1 DEF IInv, StackShape
    <3> QED
      BY <3>1, <3>2, <1>7 DEF BuffersFit, GroupsFor
  <2>2. ASSUME NEW l \in 1 .. n - 2 PROVE ScansPartials(l)'
    <3>1. /\ l \in 1 .. n - 1 /\ l + 1 \in 1 .. n - 1
      <4> HIDE DEF n
      <4> QED
        BY <1>3
    <3>2. levels'[l] = levels[l] /\ levels'[l + 1] = levels[l + 1]
      BY <1>5, <3>1
    <3>3. ScansPartials(l)
      BY <3>1 DEF IInv, StackShape
    <3> QED
      BY <3>2, <3>3, <1>7 DEF ScansPartials, GroupsFor
  <2>3. (n - 1) - 1 = n - 2
    BY <1>3
  <2>4. phase' # "start"
    BY DEF Return
  <2> QED
    BY <1>6, <2>1, <2>2, <2>3, <2>4 DEF StackShape
<1>9. CASE n = 1
  <2>1. phase' = "scanned"
    BY <1>9 DEF Return
  <2>2. ScanTypeOK'
    BY <1>2, <1>3, <1>4, <1>6, <2>1 DEF ScanTypeOK
  <2> QED
    BY <1>8, <2>1, <2>2 DEF IInv, Lockstep, OnePrefixPerGroup
<1>10. CASE n # 1
  <2>1. phase' = "propagate"
        /\ at' = [t \in ThreadsFor(Len(levels[n - 1].input)) |-> 0]
    BY <1>10 DEF Return
  <2>2. n - 1 \in 1 .. n - 1
    <3> HIDE DEF n
    <3> QED
      BY <1>3, <1>10
  <2>3. Top' = levels[n - 1]
    BY <1>5, <1>6, <2>2 DEF Top
  <2>4. Threads' = ThreadsFor(Len(levels[n - 1].input))
    BY <2>3, <1>7 DEF Threads, ThreadsFor, GroupsFor
  <2>5. Publishing' = Publishing /\ Publishing \in Nat
    BY <1>2, <1>7, CallType, PublishingType DEF Publishing, Rounds
  <2>6. at' \in [Threads' -> 0 .. Publishing' + 1]
    <3>1. at' = [t \in Threads' |-> 0]
      BY <2>1, <2>4
    <3>2. 0 \in 0 .. Publishing + 1
      BY <2>5
    <3> QED
      BY <2>5, <3>1, <3>2
  <2>7. levels' # << >>
    BY <1>6, <1>3, <1>10
  <2>8. ScanTypeOK'
    BY <1>2, <1>3, <1>4, <1>6, <2>1, <2>6, <2>7 DEF ScanTypeOK
  <2>9. Len(scanned') = NumGroups'
    <3>1. ScansPartials(n - 1)
      BY <2>2 DEF IInv, StackShape
    <3>2. (n - 1) + 1 = n
      BY <1>3
    <3>3. Len(Top.input) = GroupsFor(Len(levels[n - 1].input))
      BY <3>1, <3>2 DEF ScansPartials, Top
    <3> QED
      BY <3>3, <1>3, <1>4, <1>7, <2>3 DEF NumGroups, GroupsFor
  <2> QED
    BY <1>8, <2>1, <2>8, <2>9 DEF IInv, Lockstep, OnePrefixPerGroup
<1> QED
  BY <1>9, <1>10

-----------------------------------------------------------------------------
(* The invariant *)

LEMMA InitEstablishes ==
  Init => IInv
<1> SUFFICES ASSUME Init PROVE IInv
  OBVIOUS
<1>1. call \in Calls /\ phase = "start" /\ levels = << >> /\ scanned = << >>
  BY DEF Init
<1>2. ScanTypeOK
  BY <1>1 DEF ScanTypeOK
<1>3. StackShape
  <2>1. Len(levels) = 0
    BY <1>1
  <2> QED
    BY <2>1 DEF StackShape
<1> QED
  BY <1>1, <1>2, <1>3 DEF IInv, Lockstep, OnePrefixPerGroup

\* A step that leaves the scan alone, or only ends it, keeps the invariant.
LEMMA NoStepKeeps ==
  ASSUME IInv, UNCHANGED <<call, levels, at, shared, reg, scanned>>,
         phase' = phase \/ phase' \in {"scanned", "failed"},
         phase' = "scanned" => phase = phase' \/ levels = << >>
  PROVE  IInv'
<1>1. /\ Top' = Top /\ Size' = Size /\ Threads' = Threads
      /\ Publishing' = Publishing /\ NumGroups' = NumGroups
  BY DEF Top, Size, Threads, ThreadsFor, GroupsFor, Publishing, Rounds, NumGroups
<1>2. ScanTypeOK'
  BY <1>1 DEF IInv, ScanTypeOK
<1>3. StackShape'
  BY <1>1 DEF IInv, StackShape, BuffersFit, ScansPartials, GroupsFor
<1>4. Lockstep' /\ OnePrefixPerGroup'
  BY <1>1 DEF IInv, Lockstep, OnePrefixPerGroup
<1> QED
  BY <1>2, <1>3, <1>4 DEF IInv

LEMMA ScanKeeps ==
  ASSUME IInv, ScanNext
  PROVE  IInv'
<1>1. CASE Start
  BY <1>1, StartKeeps
<1>2. CASE NothingToScan
  BY <1>2, NoStepKeeps DEF NothingToScan, IInv, StackShape
<1>3. CASE Recurse
  BY <1>3, RecurseKeeps
<1>4. CASE Return
  BY <1>4, ReturnKeeps
<1>5. ASSUME NEW t \in Threads,
             LoadCell(t) \/ ReadCells(t) \/ WriteCell(t) \/ Publish(t) \/ Propagate(t)
      PROVE  IInv'
  BY <1>5, LoadCellKeeps, ReadCellsKeeps, WriteCellKeeps, PublishKeeps,
     PropagateKeeps
<1>6. CASE ScanError
  BY <1>6, NoStepKeeps DEF ScanError
<1> QED
  BY <1>1, <1>2, <1>3, <1>4, <1>5, <1>6 DEF ScanNext, ScanStep

\* What the callers do leaves the scan alone.
LEMMA NextKeeps ==
  ASSUME IInv, [Next]_allVars
  PROVE  IInv'
<1>1. ScanNext \/ UNCHANGED vars
  BY DEF Next, Scan, HandBack, StartCompact, CompactRow, FinishCompact,
         CompactError, RaiseScanError, FallBack, Returned, allVars
<1>2. CASE UNCHANGED vars
  BY <1>2, NoStepKeeps DEF vars
<1> QED
  BY <1>1, <1>2, ScanKeeps

LEMMA Invariance ==
  Spec => []IInv
<1>1. Begin => IInv
  BY InitEstablishes DEF Begin
<1>2. IInv /\ [Next]_allVars => IInv'
  BY NextKeeps
<1> QED
  BY <1>1, <1>2, PTL DEF Spec

\* The stack, threadgroup memory and the threads have their types in every scan
\* of cumulative_scan and fill_scan_dispatch.
THEOREM ScanTypes ==
  Spec => []ScanTypeOK
<1>1. IInv => ScanTypeOK
  BY DEF IInv
<1> QED
  BY <1>1, Invariance, PTL

\* The barriers of scan_inclusive keep the threads of a group within one interval
\* of each other, whatever the width of the group and the number of its rounds.
THEOREM ScanLockstep ==
  Spec => []Lockstep
<1>1. IInv => Lockstep
  BY DEF IInv
<1> QED
  BY <1>1, Invariance, PTL

\* At every depth of the recursion, the propagation kernel finds as many prefixes
\* as it has threadgroups: partials[group_id - 1] is never read out of bounds.
THEOREM ScanPrefixes ==
  Spec => []OnePrefixPerGroup
<1>1. IInv => OnePrefixPerGroup
  BY DEF IInv
<1> QED
  BY <1>1, Invariance, PTL

-----------------------------------------------------------------------------
(* Folds *)

\* Op::apply(x, y) and Op::identity of operation o.
JoinOf(o, x, y) ==
  CASE o = "sum" -> (x + y) % Word
    [] o = "min" -> IF x < y THEN x ELSE y
    [] o = "max" -> IF x > y THEN x ELSE y
    [] o \in Filling -> IF y = NaN THEN x ELSE y

IdentityOf(o) ==
  CASE o \in {"sum", "max"} -> 0
    [] o = "min" -> Word - 1
    [] o \in Filling -> NaN

\* The cell of input that is the k-th one for operation o.
IndexOf(o, input, k) == IF o = "bfill" THEN Len(input) + 1 - k ELSE k

\* The cells of input in the order of the operation, and identities behind them.
CellsOf(o, input) ==
  [k \in Nat \ {0} |-> IF k <= Len(input) THEN input[IndexOf(o, input, k)] ELSE IdentityOf(o)]

\* Cells c[i], .., c[j] combined from left to right.
StretchFold(o, c, i, j) ==
  LET f[n \in Nat] == IF n = 0 THEN c[i] ELSE JoinOf(o, f[n - 1], c[i + n])
  IN  f[j - i]

\* The first cell of group g, of s cells each.
FirstCell(s, g) == g * s + 1

ScanOps == {"sum", "min", "max", "ffill", "bfill"}

\* The operations of the scan are associative.
LEMMA JoinAssociates ==
  ASSUME NEW o \in ScanOps, NEW x \in Values, NEW y \in Values, NEW z \in Values
  PROVE  /\ JoinOf(o, x, y) \in Values
         /\ JoinOf(o, JoinOf(o, x, y), z) = JoinOf(o, x, JoinOf(o, y, z))
<1>1. /\ Word \in Nat \ {0} /\ NaN \in Int /\ NaN \notin 0 .. Word - 1
      /\ x \in Int /\ y \in Int /\ z \in Int
  BY ScanAssumption DEF Values
<1>2. CASE o = "sum"
  <2>1. \A a, b : JoinOf(o, a, b) = (a + b) % Word
    BY <1>2 DEF JoinOf, Filling
  <2> DEFINE a == x + y
             b == y + z
  <2>2. a \in Int /\ b \in Int /\ a + z = x + b
    BY <1>1
  <2>3. JoinOf(o, x, y) = a % Word /\ JoinOf(o, y, z) = b % Word
    BY <2>1
  <2> HIDE DEF a, b
  <2>4. a % Word \in 0 .. Word - 1
    BY <1>1, <2>2
  <2>5. ((a % Word) + z) % Word = (a + z) % Word
    BY <1>1, <2>2, ModPlus
  <2>6. (x + (b % Word)) % Word = (b + x) % Word
    BY <1>1, <2>2, ModPlus
  <2>7. b + x = x + b
    BY <1>1, <2>2
  <2> QED BY <2>1, <2>2, <2>3, <2>4, <2>5, <2>6, <2>7 DEF Values
<1>3. CASE o = "min"
  BY <1>1, <1>3 DEF JoinOf, Filling
<1>4. CASE o = "max"
  BY <1>1, <1>4 DEF JoinOf, Filling
<1>5. CASE o \in Filling
  BY <1>5 DEF JoinOf, Filling
<1> QED BY <1>2, <1>3, <1>4, <1>5 DEF ScanOps, Filling

\* A fold starts with its first cell and takes in one cell after the other.
LEMMA StretchSteps ==
  ASSUME NEW o \in ScanOps, NEW c \in [Nat \ {0} -> Values],
         NEW i \in Nat \ {0}, NEW j \in Nat, i <= j
  PROVE  /\ StretchFold(o, c, i, i) = c[i]
         /\ StretchFold(o, c, i, j) \in Values
         /\ StretchFold(o, c, i, j + 1) = JoinOf(o, StretchFold(o, c, i, j), c[j + 1])
<1> DEFINE step == [p \in Nat \X Values |-> IF p[1] = 0 THEN c[i] ELSE JoinOf(o, p[2], c[i + p[1]])]
           f[n \in Nat] == IF n = 0 THEN c[i] ELSE JoinOf(o, f[n - 1], c[i + n])
<1>1. step \in [Nat \X Values -> Values]
  <2>1. ASSUME NEW n \in Nat, NEW v \in Values
        PROVE  (IF n = 0 THEN c[i] ELSE JoinOf(o, v, c[i + n])) \in Values
    BY JoinAssociates
  <2> QED BY <2>1
<1> HIDE DEF step
<1>2. PICK g \in [Nat -> Values] : g[0] = c[i] /\ \A n \in Nat : g[n + 1] = step[<<n + 1, g[n]>>]
  <2> DEFINE a == c[i]
             V == Values
  <2>1. a \in V /\ step \in StepsOn(V)
    BY <1>1 DEF StepsOn
  <2> HIDE DEF a, V
  <2>2. \E g \in [Nat -> V] : g[0] = a /\ \A n \in Nat : g[n + 1] = step[<<n + 1, g[n]>>]
    BY <2>1, RecursiveFunction
  <2> QED BY <2>2 DEF a, V
<1>3. g = [n \in Nat |-> IF n = 0 THEN c[i] ELSE JoinOf(o, g[n - 1], c[i + n])]
  <2>1. ASSUME NEW n \in Nat, n # 0
        PROVE  g[n] = JoinOf(o, g[n - 1], c[i + n])
    <3>1. n - 1 \in Nat /\ (n - 1) + 1 = n
      BY <2>1
    <3>2. g[n - 1] \in Values /\ g[n] = step[<<n, g[n - 1]>>]
      BY <1>2, <3>1
    <3> QED BY <2>1, <3>2 DEF step
  <2> QED BY <1>2, <2>1
<1>4. f = [n \in Nat |-> IF n = 0 THEN c[i] ELSE JoinOf(o, f[n - 1], c[i + n])]
  BY <1>3
<1>5. \A k : StretchFold(o, c, i, k) = f[k - i]
  BY DEF StretchFold
<1> HIDE DEF f
<1>6. f[0] = c[i] /\ \A n \in Nat : f[n + 1] = JoinOf(o, f[n], c[i + (n + 1)])
  BY <1>4
<1>7. \A n \in Nat : f[n] \in Values
  <2> DEFINE S == {n \in Nat : f[n] \in Values}
  <2>1. 0 \in S
    BY <1>6
  <2>2. ASSUME NEW n \in Nat, n \in S PROVE n + 1 \in S
    <3>1. f[n] \in Values /\ c[i + (n + 1)] \in Values
      BY <2>2
    <3>2. JoinOf(o, f[n], c[i + (n + 1)]) \in Values
      BY <3>1, JoinAssociates
    <3> QED BY <1>6, <3>2
  <2>3. \A n \in Nat : n \in S
    <3> HIDE DEF S
    <3> QED BY <2>1, <2>2, SetInduction
  <2> QED BY <2>3
<1>8. /\ j - i \in Nat /\ (j + 1) - i = (j - i) + 1 /\ i - i = 0
      /\ i + ((j - i) + 1) = j + 1
  OBVIOUS
<1> QED BY <1>5, <1>6, <1>7, <1>8

\* A fold is the combination of its two parts.
LEMMA FoldSplits ==
  ASSUME NEW o \in ScanOps, NEW c \in [Nat \ {0} -> Values],
         NEW i \in Nat \ {0}, NEW j \in Nat, NEW k \in Nat, i <= j, j < k
  PROVE  StretchFold(o, c, i, k) = JoinOf(o, StretchFold(o, c, i, j), StretchFold(o, c, j + 1, k))
<1> DEFINE S == {d \in Nat : StretchFold(o, c, i, (j + 1) + d)
                   = JoinOf(o, StretchFold(o, c, i, j), StretchFold(o, c, j + 1, (j + 1) + d))}
<1>1. 0 \in S
  <2>1. StretchFold(o, c, i, j + 1) = JoinOf(o, StretchFold(o, c, i, j), c[j + 1])
    BY StretchSteps
  <2>2. StretchFold(o, c, j + 1, j + 1) = c[j + 1]
    BY StretchSteps
  <2>3. (j + 1) + 0 = j + 1
    OBVIOUS
  <2> QED BY <2>1, <2>2, <2>3
<1>2. ASSUME NEW d \in Nat, d \in S PROVE d + 1 \in S
  <2> DEFINE m == (j + 1) + d
  <2>1. m \in Nat /\ i <= m /\ j + 1 <= m /\ (j + 1) + (d + 1) = m + 1 /\ j + 1 \in Nat \ {0}
    OBVIOUS
  <2>2. StretchFold(o, c, i, m) = JoinOf(o, StretchFold(o, c, i, j), StretchFold(o, c, j + 1, m))
    BY <1>2
  <2> HIDE DEF m
  <2>3. StretchFold(o, c, i, m + 1) = JoinOf(o, StretchFold(o, c, i, m), c[m + 1])
    BY <2>1, StretchSteps
  <2>4. StretchFold(o, c, j + 1, m + 1) = JoinOf(o, StretchFold(o, c, j + 1, m), c[m + 1])
    BY <2>1, StretchSteps
  <2>5. StretchFold(o, c, i, j) \in Values /\ StretchFold(o, c, j + 1, m) \in Values /\ c[m + 1] \in Values
    BY <2>1, StretchSteps
  <2>6. StretchFold(o, c, i, m + 1) = JoinOf(o, StretchFold(o, c, i, j), StretchFold(o, c, j + 1, m + 1))
    <3> DEFINE x == StretchFold(o, c, i, j)
               y == StretchFold(o, c, j + 1, m)
               z == c[m + 1]
    <3>1. x \in Values /\ y \in Values /\ z \in Values
      BY <2>5
    <3> HIDE DEF x, y, z
    <3>2. JoinOf(o, JoinOf(o, x, y), z) = JoinOf(o, x, JoinOf(o, y, z))
      BY <3>1, JoinAssociates
    <3> QED BY <2>2, <2>3, <2>4, <3>2 DEF x, y, z
  <2> QED BY <2>1, <2>6 DEF m
<1>3. \A d \in Nat : d \in S
  <2> HIDE DEF S
  <2> QED BY <1>1, <1>2, SetInduction
<1>4. k - (j + 1) \in Nat /\ (j + 1) + (k - (j + 1)) = k
  OBVIOUS
<1>5. k - (j + 1) \in S
  <2> HIDE DEF S
  <2> QED BY <1>3, <1>4
<1> QED BY <1>4, <1>5

\* p[1], .., p[n] are the totals of the first n groups of s cells.
AreTotals(o, c, s, p, n) ==
  \A g \in 1 .. n : p[g] = StretchFold(o, c, FirstCell(s, g - 1), g * s)

\* Combining the totals of the first g groups of s cells combines their cells.
LEMMA StretchFoldOfTotals ==
  ASSUME NEW o \in ScanOps, NEW c \in [Nat \ {0} -> Values], NEW s \in Nat \ {0},
         NEW p \in [Nat \ {0} -> Values], NEW n \in Nat,
         AreTotals(o, c, s, p, n)
  PROVE  \A g \in 1 .. n : StretchFold(o, p, 1, g) = StretchFold(o, c, 1, g * s)
<1>0. \A g \in 1 .. n : p[g] = StretchFold(o, c, FirstCell(s, g - 1), g * s)
  BY DEF AreTotals
<1> DEFINE S == {d \in Nat : d + 1 <= n => StretchFold(o, p, 1, d + 1) = StretchFold(o, c, 1, (d + 1) * s)}
<1>1. 0 \in S
  <2> SUFFICES ASSUME 1 <= n PROVE StretchFold(o, p, 1, 0 + 1) = StretchFold(o, c, 1, (0 + 1) * s)
    OBVIOUS
  <2>1. StretchFold(o, p, 1, 1) = p[1]
    BY StretchSteps
  <2>2. p[1] = StretchFold(o, c, FirstCell(s, 1 - 1), 1 * s)
    BY <1>0
  <2>3. FirstCell(s, 1 - 1) = 1 /\ 0 + 1 = 1
    BY DEF FirstCell
  <2> QED BY <2>1, <2>2, <2>3
<1>2. ASSUME NEW d \in Nat, d \in S PROVE d + 1 \in S
  <2> SUFFICES ASSUME (d + 1) + 1 <= n
               PROVE  StretchFold(o, p, 1, (d + 1) + 1) = StretchFold(o, c, 1, ((d + 1) + 1) * s)
    OBVIOUS
  <2> DEFINE m == (d + 1) * s
             k == ((d + 1) + 1) * s
  <2>1. m \in Nat /\ 1 <= m /\ k = m + s
    OBVIOUS
  <2>2. StretchFold(o, p, 1, d + 1) = StretchFold(o, c, 1, m)
    BY <1>2
  <2>3. StretchFold(o, p, 1, (d + 1) + 1) = JoinOf(o, StretchFold(o, p, 1, d + 1), p[(d + 1) + 1])
    <3> DEFINE e == d + 1
    <3>1. e \in Nat /\ 1 <= e /\ 1 \in Nat \ {0}
      OBVIOUS
    <3> HIDE DEF e
    <3>2. StretchFold(o, p, 1, e + 1) = JoinOf(o, StretchFold(o, p, 1, e), p[e + 1])
      BY <3>1, StretchSteps
    <3> QED BY <3>2 DEF e
  <2>4. p[(d + 1) + 1] = StretchFold(o, c, m + 1, k)
    <3>1. (d + 1) + 1 \in 1 .. n /\ ((d + 1) + 1) - 1 = d + 1
      OBVIOUS
    <3> QED BY <1>0, <3>1 DEF FirstCell
  <2> HIDE DEF m, k
  <2>5. StretchFold(o, c, 1, k) = JoinOf(o, StretchFold(o, c, 1, m), StretchFold(o, c, m + 1, k))
    BY <2>1, FoldSplits
  <2> QED BY <2>2, <2>3, <2>4, <2>5 DEF k
<1>3. \A d \in Nat : d \in S
  <2> HIDE DEF S
  <2> QED BY <1>1, <1>2, SetInduction
<1> TAKE g \in 1 .. n
<1>4. g - 1 \in Nat /\ (g - 1) + 1 = g
  OBVIOUS
<1>5. g - 1 \in S
  <2> HIDE DEF S
  <2> QED BY <1>3, <1>4
<1> QED BY <1>4, <1>5

-----------------------------------------------------------------------------
(* What the threads and the calls have combined *)

\* What a thread of a call with buffers b has published in pass 1.
Published(o, s, b, t) ==
  LET k    == t[1] * s + t[2] + 1
      fold == StretchFold(o, CellsOf(o, b.input), FirstCell(s, t[1]), k)
  IN  /\ k <= Len(b.input) => b.output[IndexOf(o, b.input, k)] = fold
      /\ t[2] = s - 1 => b.partials[t[1] + 1] = fold

\* The combination of cells i .. j of the current input.
Reached(i, j) == StretchFold(Op, CellsOf(Op, Top.input), i, j)

\* Of the 2 ^ r cells that end with a thread's own, the first one of its group.
From(t, r) ==
  IF t[2] >= 2 ^ r THEN Base(t) - 2 ^ r + 1 ELSE FirstCell(Size, t[1])

\* The value of a thread after r rounds.
Covered(t, r) == Reached(From(t, r), Base(t))

\* Thread t of pass 1: its cell after as many rounds as it has written, its
\* register after one more, and what it has published.
ThreadFolds(t) ==
  /\ at[t] >= 1 => shared[t] = Covered(t, (at[t] - 1) \div 2)
  /\ at[t] >= 2 /\ at[t] <= 2 * Rounds /\ at[t] % 2 = 0 =>
       reg[t] = Covered(t, at[t] \div 2)
  /\ at[t] = Publishing + 1 => Published(Op, Size, Top, t)

\* The call at level l waits: it has completed pass 1, and its totals are scanned.
WaitsWithTotals(l) ==
  /\ levels[l + 1].input = levels[l].partials
  /\ \A t \in ThreadsFor(Len(levels[l].input)) : Published(Op, Size, levels[l], t)

\* In pass 2 a cell has the combination of its group before its thread has run,
\* and of everything up to it afterwards.
CellFolds(t) ==
  InColumn(t) =>
    Top.output[Index(Base(t))] =
      Reached(IF MayPropagate(t) /\ at[t] = 0 THEN FirstCell(Size, t[1]) ELSE 1, Base(t))

\* r is the result of a call with operation o on a column.
IsFolded(o, column, r) ==
  /\ Len(r) = Len(column)
  /\ \A k \in 1 .. Len(column) :
       r[IndexOf(o, column, k)] = StretchFold(o, CellsOf(o, column), 1, k)

FoldInv ==
  /\ phase = "start" => scanned = << >>
  /\ phase \in {"scan", "propagate"} => levels[1].input = call.column
  /\ \A l \in 1 .. Len(levels) - 1 : WaitsWithTotals(l)
  /\ Op = "bfill" => Len(levels) <= 1
  /\ phase = "scan" => \A t \in Threads : ThreadFolds(t)
  /\ phase = "propagate" =>
       /\ \A g \in 1 .. NumGroups : scanned[g] = Reached(1, g * Size)
       /\ \A t \in Threads : CellFolds(t)
  /\ phase = "scanned" => IsFolded(Op, call.column, scanned)

\* A backward fill stays in one group of threads; any other operation may take
\* as many groups and levels as its column needs.
Forward == Op = "bfill" => GroupsFor(Len(call.column)) <= 1

-----------------------------------------------------------------------------
(* Threads and their cells *)

\* The operation of the call is the one the folds are named by.
LEMMA SameOperation ==
  ASSUME call \in Calls
  PROVE  /\ Op \in ScanOps
         /\ \A x, y : Combine(x, y) = JoinOf(Op, x, y)
         /\ Identity = IdentityOf(Op)
         /\ \A k : Index(k) = IndexOf(Op, Top.input, k)
<1>1. Op \in ScanOps
  BY CallType DEF ScanOps
<1>2. ASSUME NEW x, NEW y PROVE Combine(x, y) = JoinOf(Op, x, y)
  BY <1>1 DEF Combine, JoinOf, Plus, ScanOps, Filling
<1>3. Identity = IdentityOf(Op)
  BY <1>1 DEF Identity, IdentityOf, ScanOps, Filling
<1> QED BY <1>1, <1>2, <1>3 DEF Index, IndexOf

\* A buffer, continued by identities, is a sequence of values without an end.
LEMMA CellsType ==
  ASSUME call \in Calls, NEW b \in Seq(Values)
  PROVE  CellsOf(Op, b) \in [Nat \ {0} -> Values]
<1>1. IdentityOf(Op) \in Values
  BY SameOperation, IdentityType
<1>2. ASSUME NEW k \in Nat \ {0}, k <= Len(b)
      PROVE  b[IndexOf(Op, b, k)] \in Values
  <2>1. IndexOf(Op, b, k) \in 1 .. Len(b)
    BY <1>2 DEF IndexOf
  <2> QED BY <2>1
<1> QED BY <1>1, <1>2 DEF CellsOf

\* The numbers of a thread and of its cell.
LEMMA ThreadNumbers ==
  ASSUME Size \in Nat, Size >= 2, NEW n \in Nat, NEW t \in ThreadsFor(n)
  PROVE  /\ t = <<t[1], t[2]>> /\ t[1] \in 0 .. GroupsFor(n) - 1
         /\ t[1] \in Nat /\ t[2] \in 0 .. Size - 1
         /\ FirstCell(Size, t[1]) \in Nat \ {0}
         /\ Base(t) = FirstCell(Size, t[1]) + t[2] /\ Base(t) \in Nat \ {0}
         /\ t[1] = 0 => FirstCell(Size, t[1]) = 1
<1>1. /\ t = <<t[1], t[2]>> /\ t[1] \in 0 .. GroupsFor(n) - 1
      /\ t[1] \in Nat /\ t[2] \in 0 .. Size - 1
  <2>1. GroupsFor(n) \in Nat
    BY GroupsType
  <2> QED BY <2>1 DEF ThreadsFor
<1> DEFINE s == Size
           x == t[1] * s
<1>2. x \in Nat /\ (t[1] = 0 => x = 0)
  <2>1. s \in Nat
    OBVIOUS
  <2> HIDE DEF s
  <2> QED BY <1>1, <2>1
<1>3. FirstCell(Size, t[1]) = x + 1 /\ Base(t) = x + t[2] + 1
  BY DEF FirstCell, Base
<1> HIDE DEF x
<1> QED BY <1>1, <1>2, <1>3

\* The same of a thread of the running call.
LEMMA ThreadOfTop ==
  ASSUME Size \in Nat, Size >= 2, Top \in Level, NEW t \in Threads
  PROVE  /\ t = <<t[1], t[2]>> /\ t[1] \in 0 .. NumGroups - 1
         /\ t[1] \in Nat /\ t[2] \in 0 .. Size - 1
         /\ FirstCell(Size, t[1]) \in Nat \ {0}
         /\ Base(t) = FirstCell(Size, t[1]) + t[2] /\ Base(t) \in Nat \ {0}
         /\ t[1] = 0 => FirstCell(Size, t[1]) = 1
<1> DEFINE n == Len(Top.input)
<1>1. n \in Nat
  BY DEF Level
<1>2. t \in ThreadsFor(n) /\ NumGroups = GroupsFor(n)
  BY DEF Threads, NumGroups
<1> HIDE DEF n
<1> QED BY <1>1, <1>2, ThreadNumbers

\* Threads have different cells.
LEMMA CellsDiffer ==
  ASSUME Size \in Nat, Size >= 2, NEW n \in Nat,
         NEW t \in ThreadsFor(n), NEW u \in ThreadsFor(n), Base(t) = Base(u)
  PROVE  t = u
<1>1. /\ t = <<t[1], t[2]>> /\ t[1] \in Nat /\ t[2] \in 0 .. Size - 1
      /\ u = <<u[1], u[2]>> /\ u[1] \in Nat /\ u[2] \in 0 .. Size - 1
  BY ThreadNumbers
<1>2. t[1] * Size + t[2] = u[1] * Size + u[2]
  <2> DEFINE s == Size
             x == t[1] * s
             y == u[1] * s
  <2>1. x \in Nat /\ y \in Nat
    <3>1. s \in Nat
      OBVIOUS
    <3> HIDE DEF s
    <3> QED BY <1>1, <3>1
  <2>2. x + t[2] + 1 = y + u[2] + 1
    BY DEF Base
  <2> HIDE DEF x, y
  <2>3. x + t[2] = y + u[2]
    BY <1>1, <2>1, <2>2
  <2> QED BY <2>3 DEF x, y
<1>3. t[1] = u[1] /\ t[2] = u[2]
  <2> DEFINE s == Size
             a == t[1]
             b == t[2]
             c == u[1]
             d == u[2]
  <2>1. /\ s \in Nat \ {0} /\ a \in Nat /\ b \in 0 .. s - 1
        /\ c \in Nat /\ d \in 0 .. s - 1 /\ a * s + b = c * s + d
    BY <1>1, <1>2
  <2> HIDE DEF s, a, b, c, d
  <2>2. a = c /\ b = d
    BY <2>1, DivUnique
  <2> QED BY <2>2 DEF a, b, c, d
<1> QED BY <1>1, <1>3

\* Every cell of a column has its thread.
LEMMA CellsCovered ==
  ASSUME Size \in Nat, Size >= 2, NEW n \in Nat, NEW k \in 1 .. n
  PROVE  \E t \in ThreadsFor(n) : Base(t) = k
<1> DEFINE s == Size
           e == k - 1
           g == e \div s
           i == e % s
<1>1. s \in Nat \ {0} /\ e \in Nat /\ e \in 0 .. n - 1
  OBVIOUS
<1> HIDE DEF s, e
<1>2. g \in Nat /\ i \in 0 .. s - 1 /\ e = g * s + i
  BY <1>1, DivMod
<1>3. g \in 0 .. (n + s - 1) \div s - 1
  BY <1>1, CeilingCovers
<1> HIDE DEF g, i
<1>4. <<g, i>> \in ThreadsFor(n)
  BY <1>2, <1>3 DEF ThreadsFor, GroupsFor, s
<1>5. Base(<<g, i>>) = k
  <2> DEFINE x == g * s
  <2>1. x \in Nat
    BY <1>1, <1>2
  <2>2. Base(<<g, i>>) = x + i + 1 /\ k - 1 = x + i
    BY <1>2 DEF Base, s, e
  <2> HIDE DEF x
  <2> QED BY <1>2, <2>1, <2>2
<1> QED BY <1>4, <1>5

\* Folds of the current input.
LEMMA ReachedFacts ==
  ASSUME call \in Calls, Top.input \in Seq(Values),
         NEW i \in Nat \ {0}, NEW j \in Nat, i <= j
  PROVE  /\ Reached(i, i) = CellsOf(Op, Top.input)[i]
         /\ Reached(i, j) \in Values
         /\ \A k \in Nat : j < k =>
              Reached(i, k) = Combine(Reached(i, j), Reached(j + 1, k))
<1> DEFINE c == CellsOf(Op, Top.input)
           o == Op
<1>1. c \in [Nat \ {0} -> Values] /\ o \in ScanOps
  BY CellsType, SameOperation
<1>2. \A a, b : Reached(a, b) = StretchFold(o, c, a, b)
  BY DEF Reached
<1>3. \A x, y : Combine(x, y) = JoinOf(o, x, y)
  BY SameOperation
<1> HIDE DEF c, o
<1>4. StretchFold(o, c, i, i) = c[i] /\ StretchFold(o, c, i, j) \in Values
  BY <1>1, StretchSteps
<1>5. ASSUME NEW k \in Nat, j < k
      PROVE  StretchFold(o, c, i, k) = JoinOf(o, StretchFold(o, c, i, j), StretchFold(o, c, j + 1, k))
  BY <1>1, <1>5, FoldSplits
<1>6. Reached(i, i) = c[i] /\ Reached(i, j) \in Values
  BY <1>2, <1>4
<1>7. ASSUME NEW k \in Nat, j < k
      PROVE  Reached(i, k) = Combine(Reached(i, j), Reached(j + 1, k))
  BY <1>2, <1>3, <1>5, <1>7
<1> QED BY <1>6, <1>7 DEF c

\* Before the first round a thread has its own cell.
LEMMA CoveredFirst ==
  ASSUME call \in Calls, Size \in Nat, Size >= 2, Top \in Level, NEW t \in Threads
  PROVE  Covered(t, 0) = IF InColumn(t) THEN Top.input[Index(Base(t))] ELSE Identity
<1>1. Top.input \in Seq(Values) /\ Len(Top.input) \in Nat
  BY DEF Level
<1>2. /\ t[2] \in 0 .. Size - 1 /\ Base(t) \in Nat \ {0}
      /\ Base(t) = FirstCell(Size, t[1]) + t[2] /\ FirstCell(Size, t[1]) \in Nat
  BY <1>1, ThreadNumbers DEF Threads
<1>3. From(t, 0) = Base(t)
  BY <1>2, ZerothPower DEF From
<1>4. Covered(t, 0) = CellsOf(Op, Top.input)[Base(t)]
  BY <1>1, <1>2, <1>3, ReachedFacts DEF Covered
<1> QED BY <1>1, <1>2, <1>4, SameOperation DEF CellsOf, InColumn

\* A round doubles what a thread covers, up to the first cell of its group.
LEMMA CoveredDoubles ==
  ASSUME call \in Calls, Size \in Nat, Size >= 2, Top \in Level,
         NEW t \in Threads, NEW r \in Nat
  PROVE  /\ t[2] < 2 ^ r => Covered(t, r + 1) = Covered(t, r)
         /\ t[2] >= 2 ^ r =>
              /\ <<t[1], t[2] - 2 ^ r>> \in Threads
              /\ Covered(t, r + 1) =
                   Combine(Covered(<<t[1], t[2] - 2 ^ r>>, r), Covered(t, r))
<1> DEFINE w == 2 ^ r
           w2 == 2 ^ (r + 1)
           f == FirstCell(Size, t[1])
<1>1. Top.input \in Seq(Values) /\ Len(Top.input) \in Nat
  BY DEF Level
<1>2. /\ t[2] \in 0 .. Size - 1 /\ f \in Nat \ {0}
      /\ Base(t) = f + t[2] /\ t = <<t[1], t[2]>>
      /\ t[1] \in 0 .. GroupsFor(Len(Top.input)) - 1
  BY <1>1, ThreadNumbers DEF Threads
<1>3. w \in Nat \ {0} /\ w2 = 2 * w
  BY PowerOfTwo
<1>4. /\ From(t, r) = IF t[2] >= w THEN Base(t) - w + 1 ELSE f
      /\ From(t, r + 1) = IF t[2] >= w2 THEN Base(t) - w2 + 1 ELSE f
  BY DEF From
<1>5. ASSUME t[2] < w PROVE Covered(t, r + 1) = Covered(t, r)
  <2>1. t[2] < w2
    BY <1>2, <1>3, <1>5
  <2>2. From(t, r + 1) = From(t, r)
    BY <1>2, <1>3, <1>4, <1>5, <2>1
  <2> QED BY <2>2 DEF Covered
<1>6. ASSUME t[2] >= w
      PROVE  /\ <<t[1], t[2] - w>> \in Threads
             /\ Covered(t, r + 1) = Combine(Covered(<<t[1], t[2] - w>>, r), Covered(t, r))
  <2> DEFINE u == <<t[1], t[2] - w>>
  <2>1. u \in Threads
    <3>1. t[2] - w \in 0 .. Size - 1
      BY <1>2, <1>3, <1>6
    <3> QED BY <1>2, <3>1 DEF Threads, ThreadsFor
  <2>2. u[1] = t[1] /\ u[2] = t[2] - w
    OBVIOUS
  <2>3. Base(u) = f + (t[2] - w) /\ FirstCell(Size, u[1]) = f
    BY <1>1, <2>1, <2>2, ThreadNumbers DEF Threads
  <2>4. From(u, r) = IF u[2] >= w THEN Base(u) - w + 1 ELSE f
    BY <2>3 DEF From
  <2> HIDE DEF u, w, w2, f
  <2>5. Base(u) + w = Base(t) /\ Base(u) \in Nat /\ Base(t) \in Nat
    BY <1>2, <1>3, <1>6, <2>2, <2>3
  <2>6. From(t, r) = Base(u) + 1
    BY <1>2, <1>3, <1>4, <1>6, <2>5
  <2>7. From(u, r) = From(t, r + 1)
    <3>1. CASE t[2] >= w2
      <4>1. u[2] >= w
        BY <1>2, <1>3, <2>2, <3>1
      <4>2. From(u, r) = Base(u) - w + 1 /\ From(t, r + 1) = Base(t) - w2 + 1
        BY <1>4, <2>4, <3>1, <4>1
      <4> QED BY <1>3, <2>5, <4>2
    <3>2. CASE t[2] < w2
      BY <1>2, <1>3, <1>4, <2>2, <2>3, <2>4, <2>5, <3>2
    <3> QED BY <1>2, <1>3, <3>1, <3>2
  <2>8. From(u, r) \in Nat \ {0} /\ From(u, r) <= Base(u)
    <3>1. u[2] \in Nat /\ Base(u) = f + u[2]
      BY <1>2, <1>3, <1>6, <2>2, <2>3
    <3>2. CASE u[2] >= w
      <4>1. From(u, r) = Base(u) - w + 1
        BY <2>4, <3>2
      <4> DEFINE b == Base(u)
                 v == u[2]
      <4>2. v \in Nat /\ w \in Nat \ {0} /\ f \in Nat \ {0} /\ v >= w /\ b = f + v
        BY <1>2, <1>3, <3>1, <3>2
      <4> HIDE DEF b, v
      <4>3. b - w + 1 \in Nat \ {0} /\ b - w + 1 <= b
        BY <4>2
      <4> QED BY <4>1, <4>3 DEF b
    <3>3. CASE ~(u[2] >= w)
      <4>1. From(u, r) = f
        BY <2>4, <3>3
      <4> QED BY <1>2, <3>1, <4>1
    <3> QED BY <3>2, <3>3
  <2>9. Base(u) < Base(t)
    BY <1>3, <2>5
  <2>10. Reached(From(u, r), Base(t)) =
           Combine(Reached(From(u, r), Base(u)), Reached(Base(u) + 1, Base(t)))
    BY <1>1, <2>5, <2>8, <2>9, ReachedFacts
  <2>11. Covered(t, r + 1) = Combine(Covered(u, r), Covered(t, r))
    BY <2>6, <2>7, <2>10 DEF Covered
  <2> QED BY <2>1, <2>11 DEF u
<1> QED BY <1>5, <1>6

\* After the last round a thread covers its group up to its own cell.
LEMMA CoveredAll ==
  ASSUME call \in Calls, Size \in Nat, Size >= 2, Top \in Level, NEW t \in Threads
  PROVE  /\ Rounds \in Nat
         /\ Covered(t, Rounds) = Reached(FirstCell(Size, t[1]), Base(t))
<1>1. Rounds \in Nat /\ Size <= 2 ^ Rounds
  <2> DEFINE s == Size
  <2>1. s \in Nat \ {0}
    OBVIOUS
  <2>2. Rounds = Cardinality({k \in 0 .. s - 1 : 2 ^ k < s})
    BY DEF Rounds
  <2> HIDE DEF s
  <2>3. Rounds \in Nat /\ s <= 2 ^ Rounds
    BY <2>1, <2>2, DoublingsReach
  <2> QED BY <2>3 DEF s
<1>2. t[2] \in 0 .. Size - 1
  BY ThreadNumbers DEF Threads, Level
<1>3. 2 ^ Rounds \in Nat
  BY <1>1, PowerOfTwo
<1>4. ~(t[2] >= 2 ^ Rounds)
  BY <1>1, <1>2, <1>3
<1>5. From(t, Rounds) = FirstCell(Size, t[1])
  BY <1>4 DEF From
<1> QED BY <1>1, <1>5 DEF Covered

-----------------------------------------------------------------------------
(* Pass 1 folds the cells of each group *)

\* While the input stays, so does what is folded of it.
LEMMA SameFolds ==
  ASSUME UNCHANGED call, Top'.input = Top.input
  PROVE  /\ Op' = Op /\ Size' = Size /\ Threads' = Threads /\ NumGroups' = NumGroups
         /\ Publishing' = Publishing /\ Rounds' = Rounds
         /\ \A n : GroupsFor(n)' = GroupsFor(n) /\ ThreadsFor(n)' = ThreadsFor(n)
         /\ \A i, j : Reached(i, j)' = Reached(i, j)
         /\ \A t, r : Covered(t, r)' = Covered(t, r)
         /\ \A t : Base(t)' = Base(t) /\ InColumn(t)' = InColumn(t)
                   /\ MayPropagate(t)' = MayPropagate(t)
         /\ \A k : Index(k)' = Index(k)
<1>1. Op' = Op /\ Size' = Size
  BY DEF Op, Size
<1>2. \A n : GroupsFor(n)' = GroupsFor(n) /\ ThreadsFor(n)' = ThreadsFor(n)
  BY <1>1 DEF GroupsFor, ThreadsFor
<1>3. Threads' = Threads /\ NumGroups' = NumGroups
  BY <1>2 DEF Threads, NumGroups
<1>4. Publishing' = Publishing /\ Rounds' = Rounds
  BY <1>1 DEF Publishing, Rounds
<1>5. \A i, j : Reached(i, j)' = Reached(i, j)
  BY <1>1 DEF Reached
<1>6. \A t : Base(t)' = Base(t)
  BY <1>1 DEF Base
<1>7. \A t : InColumn(t)' = InColumn(t) /\ MayPropagate(t)' = MayPropagate(t)
  BY <1>6 DEF InColumn, MayPropagate
<1>8. \A k : Index(k)' = Index(k)
  BY <1>1 DEF Index
<1>9. \A t, r : Covered(t, r)' = Covered(t, r)
  BY <1>1, <1>5, <1>6 DEF Covered, From
<1> QED BY <1>1, <1>2, <1>3, <1>4, <1>5, <1>6, <1>7, <1>8, <1>9

\* The calls below the running one wait as before when only its buffers, other
\* than its input, are written.
LEMMA StackStays ==
  ASSUME IInv, FoldInv, levels # << >>, UNCHANGED call, Top'.input = Top.input,
         Len(levels') = Len(levels),
         \A l \in 1 .. Len(levels) - 1 : levels'[l] = levels[l]
  PROVE  /\ levels'[1].input = levels[1].input
         /\ \A l \in 1 .. Len(levels') - 1 : WaitsWithTotals(l)'
         /\ Op' = "bfill" => Len(levels') <= 1
<1> DEFINE n == Len(levels)
<1>1. n \in Nat \ {0}
  BY TopType
<1>2. \A l \in 1 .. n : levels'[l].input = levels[l].input
  <2>1. levels'[n].input = levels[n].input
    BY DEF Top
  <2> HIDE DEF n
  <2> QED BY <1>1, <2>1 DEF n
<1>3. 1 \in 1 .. n
  BY <1>1
<1>4. ASSUME NEW l \in 1 .. n - 1 PROVE WaitsWithTotals(l)'
  <2>1. WaitsWithTotals(l)
    BY DEF FoldInv
  <2>2. l \in 1 .. n /\ l + 1 \in 1 .. n
    BY <1>1
  <2>3. levels'[l] = levels[l] /\ levels'[l + 1].input = levels[l + 1].input
    BY <1>2, <2>2
  <2>4. Op' = Op /\ Size' = Size /\ \A m : ThreadsFor(m)' = ThreadsFor(m)
    BY SameFolds
  <2> QED BY <2>1, <2>3, <2>4 DEF WaitsWithTotals
<1>5. Op' = Op
  BY SameFolds
<1> QED BY <1>2, <1>3, <1>4, <1>5 DEF FoldInv

\* A thread that has done its step of pass 1 as it should keeps the folds.
LEMMA ThreadStepFolds ==
  ASSUME IInv, FoldInv, phase = "scan", NEW t \in Threads, Advance(t),
         UNCHANGED <<call, phase, scanned>>, Top'.input = Top.input,
         Len(levels') = Len(levels),
         \A l \in 1 .. Len(levels) - 1 : levels'[l] = levels[l],
         \A u \in Threads \ {t} :
           /\ shared'[u] = shared[u] /\ reg'[u] = reg[u]
           /\ Published(Op, Size, Top, u) => Published(Op, Size, Top', u),
         shared'[t] = Covered(t, at[t] \div 2),
         at[t] >= 1 /\ at[t] < 2 * Rounds /\ at[t] % 2 = 1 =>
           reg'[t] = Covered(t, (at[t] + 1) \div 2),
         at[t] = Publishing => Published(Op, Size, Top', t)
  PROVE  FoldInv'
<1>1. /\ levels # << >> /\ at \in [Threads -> 0 .. Publishing + 1]
      /\ Publishing \in Nat /\ Size \in Nat /\ Size >= 2 /\ call \in Calls
  BY ScanPhase
<1>2. /\ Op' = Op /\ Size' = Size /\ Threads' = Threads
      /\ Publishing' = Publishing /\ Rounds' = Rounds
      /\ \A u, r : Covered(u, r)' = Covered(u, r)
  BY SameFolds
<1>3. /\ levels'[1].input = levels[1].input
      /\ \A l \in 1 .. Len(levels') - 1 : WaitsWithTotals(l)'
      /\ Op' = "bfill" => Len(levels') <= 1
  BY <1>1, StackStays
<1>4. at' = [at EXCEPT ![t] = at[t] + 1]
  BY DEF Advance
<1>5. ASSUME NEW u \in Threads, u # t PROVE ThreadFolds(u)'
  <2>1. at'[u] = at[u] /\ ThreadFolds(u)
    BY <1>1, <1>4, <1>5 DEF FoldInv
  <2>2. shared'[u] = shared[u] /\ reg'[u] = reg[u]
        /\ (Published(Op, Size, Top, u) => Published(Op, Size, Top', u))
    BY <1>5
  <2> QED BY <1>2, <2>1, <2>2 DEF ThreadFolds
<1>6. ThreadFolds(t)'
  <2> DEFINE a == at[t]
  <2>1. a \in Nat /\ at'[t] = a + 1
    BY <1>1, <1>4
  <2>2. ((a + 1) - 1) \div 2 = a \div 2
    BY <2>1
  <2>3. a + 1 >= 2 /\ a + 1 <= 2 * Rounds /\ (a + 1) % 2 = 0 =>
          a >= 1 /\ a < 2 * Rounds /\ a % 2 = 1
    <3> DEFINE b == 2 * Rounds
    <3>1. b \in Nat
      BY <1>1, <2>1, CoveredAll, TopType
    <3>2. a \in Nat
      BY <2>1
    <3> HIDE DEF a, b
    <3>3. (a + 1) % 2 = 0 => a % 2 = 1
      BY <3>2
    <3>4. (a + 1 >= 2 => a >= 1) /\ (a + 1 <= b => a < b)
      BY <3>1, <3>2
    <3> QED BY <3>3, <3>4 DEF b
  <2>4. a + 1 = Publishing + 1 => a = Publishing
    BY <1>1, <2>1
  <2>5. shared'[t] = Covered(t, ((a + 1) - 1) \div 2)
    BY <2>2
  <2>6. /\ (a >= 1 /\ a < 2 * Rounds /\ a % 2 = 1 => reg'[t] = Covered(t, (a + 1) \div 2))
        /\ (a = Publishing => Published(Op, Size, Top', t))
    OBVIOUS
  <2> HIDE DEF a
  <2> QED BY <1>2, <2>1, <2>3, <2>4, <2>5, <2>6 DEF ThreadFolds
<1>7. \A u \in Threads' : ThreadFolds(u)'
  BY <1>2, <1>5, <1>6
<1> QED BY <1>3, <1>7 DEF FoldInv

LEMMA LoadCellFolds ==
  ASSUME IInv, FoldInv, NEW t \in Threads, LoadCell(t)
  PROVE  FoldInv'
<1>1. /\ phase = "scan" /\ at[t] = 0 /\ Advance(t)
      /\ UNCHANGED <<call, phase, levels, reg, scanned>>
      /\ shared' = [shared EXCEPT ![t] =
                      IF InColumn(t) THEN Top.input[Index(Base(t))] ELSE Identity]
  BY DEF LoadCell
<1>2. /\ call \in Calls /\ Size \in Nat /\ Size >= 2 /\ levels # << >>
      /\ shared \in [Threads -> Values] /\ Publishing >= 1
  BY <1>1, ScanPhase
<1>3. Top \in Level /\ Top' = Top
  BY <1>1, <1>2, TopType DEF Top
<1>4. shared'[t] = Covered(t, 0)
  BY <1>1, <1>2, <1>3, CoveredFirst
<1>5. at[t] \div 2 = 0
  BY <1>1
<1>6. \A u \in Threads \ {t} :
        /\ shared'[u] = shared[u] /\ reg'[u] = reg[u]
        /\ Published(Op, Size, Top, u) => Published(Op, Size, Top', u)
  BY <1>1, <1>2, <1>3
<1>7. at[t] # Publishing /\ ~(at[t] >= 1)
  BY <1>1, <1>2
<1> QED BY <1>1, <1>3, <1>4, <1>5, <1>6, <1>7, ThreadStepFolds

LEMMA ReadCellsFolds ==
  ASSUME IInv, FoldInv, NEW t \in Threads, ReadCells(t)
  PROVE  FoldInv'
<1> DEFINE a == at[t]
           r == (a - 1) \div 2
           u == <<t[1], t[2] - 2 ^ r>>
<1>1. /\ phase = "scan" /\ a < Publishing /\ a % 2 = 1 /\ Barrier(t) /\ Advance(t)
      /\ UNCHANGED <<call, phase, levels, shared, scanned>>
      /\ reg' = [reg EXCEPT ![t] = IF t[2] >= 2 ^ r
                                     THEN Combine(shared[u], shared[t]) ELSE shared[t]]
  BY DEF ReadCells, Offset
<1>2. /\ call \in Calls /\ Size \in Nat /\ Size >= 2 /\ levels # << >>
      /\ at \in [Threads -> 0 .. Publishing + 1] /\ Publishing \in Nat
      /\ reg \in [Threads -> Values]
  BY <1>1, ScanPhase
<1>3. Top \in Level /\ Top' = Top
  BY <1>1, <1>2, TopType DEF Top
<1>4. a \in Nat /\ a >= 1 /\ r \in Nat /\ a \div 2 = r /\ (a + 1) \div 2 = r + 1
  <2>1. a \in Nat
    BY <1>2
  <2> HIDE DEF a
  <2> QED BY <1>1, <2>1
<1>5. shared[t] = Covered(t, r)
  <2>1. ThreadFolds(t)
    BY <1>1 DEF FoldInv
  <2> QED BY <1>4, <2>1 DEF ThreadFolds
<1>6. /\ t[2] < 2 ^ r => Covered(t, r + 1) = Covered(t, r)
      /\ t[2] >= 2 ^ r => /\ u \in Threads
                          /\ Covered(t, r + 1) = Combine(Covered(u, r), Covered(t, r))
  BY <1>2, <1>3, <1>4, CoveredDoubles
<1>7. ASSUME t[2] >= 2 ^ r PROVE shared[u] = Covered(u, r)
  <2>1. u \in Threads /\ u[1] = t[1] /\ u = <<t[1], u[2]>>
    BY <1>6, <1>7
  <2>2. u[2] \in 0 .. Size - 1
    BY <2>1, <1>2, <1>3, ThreadOfTop
  <2>3. at[t] <= at[u]
    <3>1. at[t] <= at[<<t[1], u[2]>>]
      BY <1>1, <2>2 DEF Barrier
    <3> QED BY <2>1, <3>1
  <2>4. at[u] <= at[t] + 1
    BY <1>1, <2>1 DEF IInv, Lockstep
  <2>5. at[u] \in Nat
    BY <1>2, <2>1
  <2>6. (at[u] - 1) \div 2 = r /\ at[u] >= 1
    <3> DEFINE b == at[u]
    <3>1. b \in Nat /\ a \in Nat /\ a <= b /\ b <= a + 1 /\ a % 2 = 1
      BY <1>1, <1>4, <2>3, <2>4, <2>5
    <3> HIDE DEF a, b
    <3> QED BY <3>1 DEF b
  <2>7. ThreadFolds(u)
    BY <1>1, <2>1 DEF FoldInv
  <2> QED BY <2>6, <2>7 DEF ThreadFolds
<1>8. reg'[t] = Covered(t, r + 1)
  <2>1. reg'[t] = IF t[2] >= 2 ^ r THEN Combine(shared[u], shared[t]) ELSE shared[t]
    BY <1>1, <1>2
  <2>2. CASE t[2] >= 2 ^ r
    BY <1>5, <1>6, <1>7, <2>1, <2>2
  <2>3. CASE ~(t[2] >= 2 ^ r)
    <3>1. t[2] \in Nat /\ 2 ^ r \in Nat
      BY <1>2, <1>3, <1>4, ThreadOfTop, PowerOfTwo
    <3>2. t[2] < 2 ^ r
      BY <2>3, <3>1
    <3> QED BY <1>5, <1>6, <2>1, <2>3, <3>2
  <2> QED BY <2>2, <2>3
<1>9. \A v \in Threads \ {t} :
        /\ shared'[v] = shared[v] /\ reg'[v] = reg[v]
        /\ Published(Op, Size, Top, v) => Published(Op, Size, Top', v)
  BY <1>1, <1>2, <1>3
<1>10. shared'[t] = Covered(t, a \div 2)
  BY <1>1, <1>4, <1>5
<1>11. reg'[t] = Covered(t, (a + 1) \div 2)
  BY <1>4, <1>8
<1>12. a # Publishing
  BY <1>1, <1>2, <1>4
<1> HIDE DEF r, u
<1> QED BY <1>1, <1>3, <1>9, <1>10, <1>11, <1>12, ThreadStepFolds

LEMMA WriteCellFolds ==
  ASSUME IInv, FoldInv, NEW t \in Threads, WriteCell(t)
  PROVE  FoldInv'
<1> DEFINE a == at[t]
<1>1. /\ phase = "scan" /\ 0 < a /\ a % 2 = 0 /\ a < Publishing /\ Advance(t)
      /\ UNCHANGED <<call, phase, levels, reg, scanned>>
      /\ shared' = [shared EXCEPT ![t] = reg[t]]
  BY DEF WriteCell
<1>2. /\ call \in Calls /\ Size \in Nat /\ Size >= 2 /\ levels # << >>
      /\ at \in [Threads -> 0 .. Publishing + 1] /\ Publishing \in Nat
      /\ shared \in [Threads -> Values]
  BY <1>1, ScanPhase
<1>3. Top \in Level /\ Top' = Top
  BY <1>1, <1>2, TopType DEF Top
<1>4. a \in Nat /\ a >= 2 /\ a <= 2 * Rounds
  <2>1. a \in Nat /\ Rounds \in Nat /\ Publishing = 2 * Rounds + 1
    BY <1>2, <1>3, CoveredAll DEF Publishing
  <2> HIDE DEF a
  <2> QED BY <1>1, <2>1
<1>5. shared'[t] = Covered(t, a \div 2)
  <2>1. ThreadFolds(t)
    BY <1>1 DEF FoldInv
  <2>2. reg[t] = Covered(t, a \div 2)
    BY <1>1, <1>4, <2>1 DEF ThreadFolds
  <2> QED BY <1>1, <1>2, <2>2
<1>6. \A u \in Threads \ {t} :
        /\ shared'[u] = shared[u] /\ reg'[u] = reg[u]
        /\ Published(Op, Size, Top, u) => Published(Op, Size, Top', u)
  BY <1>1, <1>2, <1>3
<1>7. a # Publishing /\ ~(a % 2 = 1)
  BY <1>1, <1>2, <1>4
<1> QED BY <1>1, <1>3, <1>5, <1>6, <1>7, ThreadStepFolds

\* The buffers of the running call are replaced; the stack below it is not.
LEMMA TopReplaced ==
  ASSUME IInv, levels # << >>, NEW o, NEW p,
         levels' = [levels EXCEPT ![Len(levels)] =
                      [input |-> Top.input, output |-> o, partials |-> p]]
  PROVE  /\ Len(levels') = Len(levels)
         /\ \A l \in 1 .. Len(levels) - 1 : levels'[l] = levels[l]
         /\ Top' = [input |-> Top.input, output |-> o, partials |-> p]
<1> DEFINE n == Len(levels)
           new == [input |-> Top.input, output |-> o, partials |-> p]
<1>1. n \in Nat \ {0} /\ levels \in Seq(Level) /\ DOMAIN levels = 1 .. n
  BY TopType DEF IInv, ScanTypeOK
<1>2. levels' = [levels EXCEPT ![n] = new]
  OBVIOUS
<1>3. Len(levels') = n
  <2>1. DOMAIN levels' = 1 .. n /\ levels' \in Seq(Level \cup {new})
    <3> HIDE DEF new, n
    <3>1. levels \in [1 .. n -> Level \cup {new}]
      BY <1>1 DEF n
    <3>2. levels' \in [1 .. n -> Level \cup {new}]
      BY <1>1, <1>2, <3>1
    <3> QED BY <1>1, <3>2
  <2> HIDE DEF new, n
  <2> QED BY <1>1, <2>1
<1>4. \A l \in 1 .. n - 1 : levels'[l] = levels[l]
  <2> HIDE DEF new, n
  <2> QED BY <1>1, <1>2
<1>5. levels'[n] = new
  <2> HIDE DEF new
  <2> QED BY <1>1, <1>2
<1> QED BY <1>3, <1>4, <1>5 DEF Top

\* The order of the cells is one to one.
LEMMA IndexDiffers ==
  ASSUME Len(Top.input) \in Nat, NEW j \in Nat, NEW k \in Nat, Index(j) = Index(k)
  PROVE  j = k
  BY DEF Index

LEMMA PublishFolds ==
  ASSUME IInv, FoldInv, NEW t \in Threads, Publish(t)
  PROVE  FoldInv'
<1> DEFINE o == [i \in DOMAIN Top.input |->
                   IF InColumn(t) /\ i = Index(Base(t)) THEN shared[t]
                   ELSE Top.output[i]]
           p == [g \in DOMAIN Top.partials |->
                   IF g = t[1] + 1 /\ t[2] = Size - 1 THEN shared[t]
                   ELSE Top.partials[g]]
<1>1. /\ phase = "scan" /\ at[t] = Publishing /\ Advance(t)
      /\ UNCHANGED <<call, phase, shared, reg, scanned>>
      /\ levels' = [levels EXCEPT ![Len(levels)] =
                      [input |-> Top.input, output |-> o, partials |-> p]]
  BY DEF Publish
<1>2. /\ call \in Calls /\ Size \in Nat /\ Size >= 2 /\ levels # << >>
  BY <1>1, ScanPhase
<1>3. /\ Top \in Level /\ Top.input \in Seq(Values) /\ Len(Top.input) \in Nat
      /\ DOMAIN Top.input = 1 .. Len(Top.input)
      /\ DOMAIN Top.partials = 1 .. NumGroups /\ NumGroups \in Nat
  BY <1>2, TopType DEF Level
<1>4. /\ Len(levels') = Len(levels)
      /\ \A l \in 1 .. Len(levels) - 1 : levels'[l] = levels[l]
      /\ Top' = [input |-> Top.input, output |-> o, partials |-> p]
  <2> HIDE DEF o, p
  <2> QED BY <1>1, <1>2, TopReplaced
<1>5. Top'.input = Top.input /\ Top'.output = o /\ Top'.partials = p
  <2> HIDE DEF o, p
  <2> QED BY <1>4
<1>6. Rounds \in Nat /\ at[t] = 2 * Rounds + 1
      /\ shared[t] = Reached(FirstCell(Size, t[1]), Base(t))
  <2>1. Rounds \in Nat /\ Covered(t, Rounds) = Reached(FirstCell(Size, t[1]), Base(t))
    BY <1>2, <1>3, CoveredAll
  <2>2. ThreadFolds(t) /\ at[t] = 2 * Rounds + 1
    BY <1>1 DEF FoldInv, Publishing
  <2>3. at[t] >= 1 /\ (at[t] - 1) \div 2 = Rounds
    BY <2>1, <2>2
  <2> QED BY <2>1, <2>2, <2>3 DEF ThreadFolds
<1>7. shared'[t] = Covered(t, at[t] \div 2)
  <2>1. at[t] \div 2 = Rounds
    BY <1>6
  <2> QED BY <1>1, <1>2, <1>3, <1>6, <2>1, CoveredAll
<1>8. /\ \A k : IndexOf(Op, Top.input, k) = Index(k)
      /\ \A i, j : StretchFold(Op, CellsOf(Op, Top.input), i, j) = Reached(i, j)
  BY <1>2, SameOperation DEF Reached
<1>9. \A u : \A b : b.input = Top.input =>
        (Published(Op, Size, b, u) <=>
           /\ InColumn(u) => b.output[Index(Base(u))] = Reached(FirstCell(Size, u[1]), Base(u))
           /\ u[2] = Size - 1 => b.partials[u[1] + 1] = Reached(FirstCell(Size, u[1]), Base(u)))
  BY <1>8 DEF Published, Base, InColumn
<1>10. Published(Op, Size, Top', t)
  <2>1. InColumn(t) => o[Index(Base(t))] = shared[t]
    BY <1>2, <1>3, CellType
  <2>2. t[2] = Size - 1 => p[t[1] + 1] = shared[t]
    BY <1>2, <1>3, ThreadOfTop
  <2> HIDE DEF o, p
  <2> QED BY <1>5, <1>6, <1>9, <2>1, <2>2
<1>11. ASSUME NEW u \in Threads, u # t, Published(Op, Size, Top, u)
       PROVE  Published(Op, Size, Top', u)
  <2>1. InColumn(u) => o[Index(Base(u))] = Top.output[Index(Base(u))]
    <3>1. Base(u) # Base(t)
      <4> DEFINE m == Len(Top.input)
      <4>1. m \in Nat /\ t \in ThreadsFor(m) /\ u \in ThreadsFor(m)
        BY <1>3 DEF Threads
      <4> HIDE DEF m
      <4> QED BY <1>2, <1>11, <4>1, CellsDiffer
    <3>2. Index(Base(u)) # Index(Base(t))
      <4>1. Base(u) \in Nat /\ Base(t) \in Nat
        BY <1>2, <1>3, ThreadOfTop
      <4> QED BY <1>3, <3>1, <4>1, IndexDiffers
    <3> QED BY <1>2, <1>3, <3>2, CellType
  <2>2. u[2] = Size - 1 => p[u[1] + 1] = Top.partials[u[1] + 1]
    <3>1. t = <<t[1], t[2]>> /\ t[1] \in Nat
      BY <1>2, <1>3, ThreadOfTop
    <3>2. u = <<u[1], u[2]>> /\ u[1] \in Nat /\ u[1] + 1 \in 1 .. NumGroups
      BY <1>2, <1>3, <1>11, ThreadOfTop
    <3>3. u[2] = Size - 1 => ~(u[1] + 1 = t[1] + 1 /\ t[2] = Size - 1)
      BY <1>11, <3>1, <3>2
    <3> QED BY <1>3, <3>1, <3>2, <3>3
  <2> HIDE DEF o, p
  <2> QED BY <1>5, <1>9, <1>11, <2>1, <2>2
<1>12. ~(at[t] < 2 * Rounds)
  BY <1>6
<1>13. \A u \in Threads \ {t} :
         /\ shared'[u] = shared[u] /\ reg'[u] = reg[u]
         /\ Published(Op, Size, Top, u) => Published(Op, Size, Top', u)
  BY <1>1, <1>11
<1> HIDE DEF o, p
<1> QED BY <1>1, <1>4, <1>5, <1>7, <1>10, <1>12, <1>13, ThreadStepFolds

-----------------------------------------------------------------------------
(* The calls and pass 2 combine the groups *)

\* The stack and the threads of a call that is made.
LEMMA LaunchedStack ==
  ASSUME levels \in Seq(Level), call \in Calls, UNCHANGED call,
         NEW b \in Seq(Values), Launch(b)
  PROVE  /\ Len(levels') = Len(levels) + 1
         /\ \A l \in 1 .. Len(levels) : levels'[l] = levels[l]
         /\ Top'.input = b /\ levels'[Len(levels) + 1].input = b
         /\ \A t \in Threads' : at'[t] = 0
<1> DEFINE n == Len(levels)
           new == [input |-> b, output |-> [i \in DOMAIN b |-> 0],
                   partials |-> [g \in 1 .. GroupsFor(Len(b)) |-> 0]]
<1>1. levels' = Append(levels, new)
  BY DEF Launch
<1>2. n \in Nat /\ new.input = b
  OBVIOUS
<1>3. /\ Len(levels') = n + 1 /\ levels'[n + 1] = new
      /\ \A l \in 1 .. n : levels'[l] = levels[l]
  <2> HIDE DEF new
  <2> QED BY <1>1, <1>2
<1>4. Top' = new
  BY <1>3 DEF Top
<1>5. Threads' = ThreadsFor(Len(b))
  BY <1>2, <1>4 DEF Threads, ThreadsFor, GroupsFor, Size
<1>6. at' = [t \in ThreadsFor(Len(b)) |-> 0]
  BY DEF Launch
<1> QED BY <1>2, <1>3, <1>4, <1>5, <1>6

LEMMA StartFolds ==
  ASSUME IInv, FoldInv, Start
  PROVE  FoldInv'
<1>1. /\ phase = "start" /\ Launch(call.column) /\ UNCHANGED <<call, scanned>>
      /\ phase' = "scan"
  BY DEF Start, Launch
<1>2. levels = << >> /\ levels \in Seq(Level) /\ call \in Calls /\ call.column \in Seq(Values)
  BY <1>1, CallType DEF IInv, ScanTypeOK, StackShape
<1>3. /\ Len(levels') = Len(levels) + 1 /\ levels'[Len(levels) + 1].input = call.column
      /\ \A t \in Threads' : at'[t] = 0
  BY <1>1, <1>2, LaunchedStack
<1>4. Len(levels') = 1 /\ levels'[1].input = call.column
  BY <1>2, <1>3
<1>5. \A t \in Threads' : ThreadFolds(t)'
  <2>1. Publishing' = Publishing /\ Publishing \in Nat
    BY <1>1, <1>2, CallType, PublishingType DEF Publishing, Rounds, Size
  <2>2. 0 # Publishing + 1
    BY <2>1
  <2> QED BY <1>3, <2>1, <2>2 DEF ThreadFolds
<1>6. \A l \in 1 .. Len(levels') - 1 : WaitsWithTotals(l)'
  BY <1>4
<1> QED BY <1>1, <1>4, <1>5, <1>6 DEF FoldInv

\* A backward fill never recurses.
LEMMA RecurseFolds ==
  ASSUME IInv, FoldInv, Forward, Recurse
  PROVE  FoldInv'
<1> DEFINE n == Len(levels)
<1>1. /\ phase = "scan" /\ Pass1Done /\ NumGroups > 1 /\ Launch(Top.partials)
      /\ UNCHANGED <<call, scanned>> /\ phase' = "scan"
  BY DEF Recurse, Pass1Done, Launch
<1>2. /\ levels \in Seq(Level) /\ levels # << >> /\ call \in Calls /\ n \in Nat \ {0}
      /\ Top \in Level /\ NumGroups \in Nat
  BY <1>1, ScanPhase, TopType DEF IInv, ScanTypeOK
<1>3. /\ Len(levels') = n + 1
      /\ \A l \in 1 .. n : levels'[l] = levels[l]
      /\ levels'[n + 1].input = Top.partials
      /\ \A t \in Threads' : at'[t] = 0
  <2>1. Top.partials \in Seq(Values)
    BY <1>2 DEF Level
  <2> QED BY <1>1, <1>2, <2>1, LaunchedStack
<1>4. Op' = Op /\ Size' = Size /\ \A m : ThreadsFor(m)' = ThreadsFor(m)
  BY <1>1 DEF Op, Size, ThreadsFor, GroupsFor
<1>5. levels'[1].input = call.column
  <2>1. 1 \in 1 .. n
    BY <1>2
  <2> QED BY <1>1, <1>3, <2>1 DEF FoldInv
<1>6. Op # "bfill"
  <2> SUFFICES ASSUME Op = "bfill" PROVE FALSE
    OBVIOUS
  <2>1. n = 1
    <3>1. n <= 1
      BY DEF FoldInv
    <3> HIDE DEF n
    <3> QED BY <1>2, <3>1
  <2>2. Top.input = call.column
    BY <1>1, <2>1 DEF FoldInv, Top
  <2> QED BY <1>1, <1>2, <2>2 DEF Forward, NumGroups
<1>7. ASSUME NEW l \in 1 .. n PROVE WaitsWithTotals(l)'
  <2>1. CASE l = n
    <3>1. levels'[l + 1].input = levels'[l].partials /\ levels'[l] = Top
      BY <1>2, <1>3, <2>1 DEF Top
    <3>2. ASSUME NEW t \in Threads PROVE Published(Op, Size, Top, t)
      BY <1>1 DEF FoldInv, ThreadFolds, Pass1Done
    <3> QED BY <1>4, <3>1, <3>2 DEF WaitsWithTotals, Threads
  <2>2. CASE l # n
    <3>1. l \in 1 .. n - 1 /\ l + 1 \in 1 .. n
      <4> HIDE DEF n
      <4> QED BY <1>2, <2>2
    <3>2. WaitsWithTotals(l) /\ levels'[l] = levels[l] /\ levels'[l + 1] = levels[l + 1]
      BY <1>3, <3>1 DEF FoldInv
    <3> QED BY <1>4, <3>2 DEF WaitsWithTotals
  <2> QED BY <2>1, <2>2
<1>8. \A l \in 1 .. Len(levels') - 1 : WaitsWithTotals(l)'
  BY <1>2, <1>3, <1>7
<1>9. \A t \in Threads' : ThreadFolds(t)'
  <2>1. Publishing' = Publishing /\ Publishing \in Nat
    BY <1>1, <1>2, CallType, PublishingType DEF Publishing, Rounds, Size
  <2>2. 0 # Publishing + 1
    BY <2>1
  <2> QED BY <1>3, <2>1, <2>2 DEF ThreadFolds
<1> QED BY <1>1, <1>4, <1>5, <1>6, <1>8, <1>9 DEF FoldInv

LEMMA PropagateFolds ==
  ASSUME IInv, FoldInv, NEW t \in Threads, Propagate(t)
  PROVE  FoldInv'
<1> DEFINE o == [i \in DOMAIN Top.input |->
                   IF i = Index(Base(t))
                     THEN Combine(scanned[Predecessor(t)], Top.output[i])
                     ELSE Top.output[i]]
<1>1. /\ phase = "propagate" /\ at[t] = 0 /\ MayPropagate(t) /\ Advance(t)
      /\ UNCHANGED <<call, phase, shared, reg, scanned>>
      /\ levels' = [levels EXCEPT ![Len(levels)] =
                      [input |-> Top.input, output |-> o, partials |-> Top.partials]]
  BY DEF Propagate
<1>2. /\ call \in Calls /\ levels # << >> /\ Size \in Nat /\ Size >= 2
      /\ at \in [Threads -> 0 .. Publishing + 1]
  BY <1>1, CallType DEF IInv, ScanTypeOK
<1>3. /\ Top \in Level /\ Top.input \in Seq(Values) /\ Len(Top.input) \in Nat
      /\ DOMAIN Top.input = 1 .. Len(Top.input) /\ NumGroups \in Nat
  BY <1>2, TopType DEF Level
<1>4. /\ Len(levels') = Len(levels)
      /\ \A l \in 1 .. Len(levels) - 1 : levels'[l] = levels[l]
      /\ Top' = [input |-> Top.input, output |-> o, partials |-> Top.partials]
  <2> HIDE DEF o
  <2> QED BY <1>1, <1>2, TopReplaced
<1>5. Top'.input = Top.input /\ Top'.output = o
  <2> HIDE DEF o
  <2> QED BY <1>4
<1>6. /\ Op' = Op /\ Size' = Size /\ Threads' = Threads /\ NumGroups' = NumGroups
      /\ \A i, j : Reached(i, j)' = Reached(i, j)
      /\ \A u : Base(u)' = Base(u) /\ InColumn(u)' = InColumn(u)
                /\ MayPropagate(u)' = MayPropagate(u)
      /\ \A k : Index(k)' = Index(k)
  BY <1>1, <1>5, SameFolds
<1>7. /\ levels'[1].input = levels[1].input
      /\ \A l \in 1 .. Len(levels') - 1 : WaitsWithTotals(l)'
      /\ Op' = "bfill" => Len(levels') <= 1
  BY <1>1, <1>2, <1>4, <1>5, StackStays
<1>8. at' = [at EXCEPT ![t] = 1]
  BY <1>1 DEF Advance
<1>9. CellFolds(t)'
  <2> DEFINE m == t[1] * Size
             b == Base(t)
  <2>1. /\ t[1] \in 1 .. NumGroups /\ b \in Nat /\ FirstCell(Size, t[1]) <= b
        /\ FirstCell(Size, t[1]) \in Nat \ {0}
    <3>1. /\ t[1] \in 0 .. NumGroups - 1 /\ t[2] \in 0 .. Size - 1
          /\ FirstCell(Size, t[1]) \in Nat \ {0}
          /\ Base(t) = FirstCell(Size, t[1]) + t[2]
      BY <1>2, <1>3, ThreadOfTop
    <3> QED BY <1>1, <1>3, <3>1 DEF MayPropagate
  <2>2. scanned[Predecessor(t)] = Reached(1, m)
    BY <1>1, <2>1 DEF FoldInv, Predecessor
  <2>3. Top.output[Index(b)] = Reached(m + 1, b)
    BY <1>1 DEF FoldInv, CellFolds, MayPropagate, FirstCell
  <2>4. m + 1 = FirstCell(Size, t[1])
    BY DEF FirstCell
  <2>5. m \in Nat /\ 1 <= m
    <3> DEFINE s == Size
               q == t[1]
    <3>1. s \in Nat \ {0} /\ q \in Nat \ {0}
      BY <1>2, <1>3, <2>1
    <3> HIDE DEF s, q
    <3>2. q * s \in Nat /\ 1 <= q * s
      BY <3>1
    <3> QED BY <3>2 DEF s, q
  <2>6. Index(b) \in 1 .. Len(Top.input)
    BY <1>1, <1>2, <1>3, CellType DEF MayPropagate
  <2>7. o[Index(b)] = Combine(Reached(1, m), Reached(m + 1, b))
    BY <1>3, <2>2, <2>3, <2>6
  <2> HIDE DEF m, b, o
  <2>8. Reached(1, b) = Combine(Reached(1, m), Reached(m + 1, b))
    <3>1. m < b
      BY <2>1, <2>4, <2>5
    <3> QED BY <1>2, <1>3, <2>1, <2>5, <3>1, ReachedFacts
  <2>9. Top'.output[Index(Base(t))] = Reached(1, Base(t))
    BY <1>5, <2>7, <2>8 DEF b
  <2>10. at'[t] # 0
    BY <1>2, <1>8
  <2> QED BY <1>6, <2>9, <2>10 DEF CellFolds
<1>10. ASSUME NEW u \in Threads, u # t PROVE CellFolds(u)'
  <2>1. CellFolds(u) /\ at'[u] = at[u]
    BY <1>1, <1>2, <1>8, <1>10 DEF FoldInv
  <2>2. Index(Base(u)) # Index(Base(t))
    <3>1. Base(u) \in Nat /\ Base(t) \in Nat
      BY <1>2, <1>3, ThreadOfTop
    <3>2. Base(u) # Base(t)
      <4> DEFINE m == Len(Top.input)
      <4>1. m \in Nat /\ t \in ThreadsFor(m) /\ u \in ThreadsFor(m)
        BY <1>3 DEF Threads
      <4> HIDE DEF m
      <4> QED BY <1>2, <1>10, <4>1, CellsDiffer
    <3> QED BY <1>3, <3>1, <3>2, IndexDiffers
  <2>3. InColumn(u) => o[Index(Base(u))] = Top.output[Index(Base(u))]
    BY <1>2, <1>3, <2>2, CellType
  <2> HIDE DEF o
  <2> QED BY <1>5, <1>6, <2>1, <2>3 DEF CellFolds
<1>11. \A u \in Threads' : CellFolds(u)'
  BY <1>6, <1>9, <1>10
<1>12. \A g \in 1 .. NumGroups' : scanned'[g] = Reached(1, g * Size)'
  BY <1>1, <1>6 DEF FoldInv
<1> QED BY <1>1, <1>7, <1>11, <1>12 DEF FoldInv

\* What a call returns is folded.
LEMMA ResultFolded ==
  ASSUME IInv, FoldInv, levels # << >>, (Pass1Done /\ NumGroups = 1) \/ Pass2Done
  PROVE  IsFolded(Op, Top.input, Top.output)
<1>1. phase \in {"scan", "propagate"}
  BY DEF Pass1Done, Pass2Done
<1>2. /\ call \in Calls /\ Size \in Nat /\ Size >= 2
      /\ Top \in Level /\ Len(Top.output) = Len(Top.input) /\ Len(Top.input) \in Nat
  BY <1>1, CallType, TopType DEF IInv, ScanTypeOK, Level
<1>3. ASSUME NEW k \in 1 .. Len(Top.input)
      PROVE  Top.output[Index(k)] = Reached(1, k)
  <2>1. PICK t \in Threads : Base(t) = k
    <3> DEFINE m == Len(Top.input)
    <3>1. m \in Nat /\ k \in 1 .. m
      BY <1>2
    <3> HIDE DEF m
    <3>2. \E t \in ThreadsFor(m) : Base(t) = k
      BY <1>2, <3>1, CellsCovered
    <3> QED BY <3>2 DEF m, Threads
  <2>2. InColumn(t)
    BY <2>1, <1>2 DEF InColumn
  <2>3. CASE Pass1Done /\ NumGroups = 1
    <3>1. Published(Op, Size, Top, t)
      BY <2>3 DEF FoldInv, ThreadFolds, Pass1Done
    <3>2. FirstCell(Size, t[1]) = 1
      <4>1. t[1] \in 0 .. NumGroups - 1 /\ (t[1] = 0 => FirstCell(Size, t[1]) = 1)
        BY <1>2, ThreadOfTop
      <4> QED BY <2>3, <4>1
    <3>3. IndexOf(Op, Top.input, k) = Index(k)
      BY <1>2, SameOperation
    <3> QED BY <2>1, <2>2, <3>1, <3>2, <3>3 DEF Published, Base, InColumn, Reached
  <2>4. CASE Pass2Done
    <3>1. CellFolds(t) /\ (MayPropagate(t) => at[t] = 1)
      BY <2>4 DEF FoldInv, Pass2Done
    <3> QED BY <2>1, <2>2, <3>1 DEF CellFolds
  <2> QED BY <2>3, <2>4
<1>4. \A k : IndexOf(Op, Top.input, k) = Index(k)
  BY <1>2, SameOperation
<1> QED BY <1>2, <1>3, <1>4 DEF IsFolded, Reached

LEMMA ReturnFolds ==
  ASSUME IInv, FoldInv, Return
  PROVE  FoldInv'
<1> DEFINE n == Len(levels)
<1>1. /\ (Pass1Done /\ NumGroups = 1) \/ Pass2Done
      /\ phase \in {"scan", "propagate"}
      /\ scanned' = Top.output /\ UNCHANGED <<call, shared, reg>>
      /\ levels' = SubSeq(levels, 1, n - 1)
  BY DEF Return, Result, Pass1Done, Pass2Done
<1>2. /\ levels # << >> /\ levels \in Seq(Level) /\ call \in Calls
      /\ Size \in Nat /\ Size >= 2
  BY <1>1, CallType DEF IInv, ScanTypeOK
<1>3. n \in Nat \ {0} /\ levels \in [1 .. n -> Level]
  BY <1>2, TopType
<1>4. /\ Len(levels') = n - 1
      /\ \A l \in 1 .. n - 1 : levels'[l] = levels[l]
  <2>1. levels' = [l \in 1 .. n - 1 |-> levels[l]] /\ n - 1 \in Nat
    BY <1>1, <1>2, <1>3
  <2>2. levels' \in [1 .. n - 1 -> Level]
    BY <1>3, <2>1
  <2> HIDE DEF n
  <2>3. levels' \in Seq(Level)
    BY <2>1, <2>2
  <2> QED BY <2>1, <2>2, <2>3
<1>5. IsFolded(Op, Top.input, Top.output)
  BY <1>1, <1>2, ResultFolded
<1>6. Op' = Op /\ Size' = Size /\ \A m : ThreadsFor(m)' = ThreadsFor(m)
  BY <1>1 DEF Op, Size, ThreadsFor, GroupsFor
<1>7. CASE n = 1
  <2>1. phase' = "scanned"
    BY <1>7 DEF Return
  <2>2. Top.input = call.column
    BY <1>1, <1>7 DEF FoldInv, Top
  <2>3. IsFolded(Op, call.column, scanned)'
    BY <1>1, <1>5, <1>6, <2>2
  <2> QED BY <1>4, <1>7, <2>1, <2>3 DEF FoldInv
<1>8. CASE n # 1
  <2> DEFINE b == levels[n - 1]
             c == CellsOf(Op, b.input)
             p == CellsOf(Op, b.partials)
             s == Size
             q == Op
  <2>1. /\ phase' = "propagate"
        /\ at' = [t \in ThreadsFor(Len(levels[n - 1].input)) |-> 0]
    BY <1>8 DEF Return
  <2>2. n - 1 \in 1 .. n - 1 /\ n - 1 \in 1 .. n /\ (n - 1) + 1 = n /\ 1 \in 1 .. n - 1
    <3> HIDE DEF n
    <3> QED BY <1>3, <1>8
  <2>3. Top' = b
    BY <1>4, <2>2 DEF Top
  <2>4. /\ b \in Level /\ Len(b.input) \in Nat /\ Len(b.partials) = GroupsFor(Len(b.input))
        /\ b.input \in Seq(Values) /\ b.partials \in Seq(Values)
    <3>1. b \in Level
      BY <1>3, <2>2
    <3>2. BuffersFit(n - 1)
      BY <2>2 DEF IInv, StackShape
    <3> QED BY <3>1, <3>2 DEF Level, BuffersFit
  <2>5. /\ Top.input = b.partials
        /\ \A t \in ThreadsFor(Len(b.input)) : Published(Op, Size, b, t)
    <3>1. WaitsWithTotals(n - 1)
      BY <2>2 DEF FoldInv
    <3> QED BY <2>2, <3>1 DEF WaitsWithTotals, Top
  <2>6. Op # "bfill" /\ Op \in ScanOps
    <3>1. ~(Len(levels) <= 1)
      BY <1>3, <1>8
    <3> QED BY <1>2, <3>1, SameOperation DEF FoldInv
  <2>7. /\ Threads' = ThreadsFor(Len(b.input)) /\ NumGroups' = GroupsFor(Len(b.input))
        /\ \A i, j : Reached(i, j)' = StretchFold(Op, c, i, j)
        /\ \A t : Base(t)' = Base(t)
    BY <1>6, <2>3 DEF Threads, NumGroups, ThreadsFor, GroupsFor, Reached, Base
  <2>8. c \in [Nat \ {0} -> Values] /\ p \in [Nat \ {0} -> Values]
    BY <1>2, <2>4, CellsType
  <2>9. GroupsFor(Len(b.input)) \in Nat
    <3> DEFINE m == Len(b.input)
    <3>1. m \in Nat
      BY <2>4
    <3> HIDE DEF m
    <3>2. GroupsFor(m) \in Nat
      BY <1>2, <3>1, GroupsType
    <3> QED BY <3>2 DEF m
  <2>10. ASSUME NEW g \in 1 .. GroupsFor(Len(b.input))
         PROVE  p[g] = StretchFold(Op, c, FirstCell(Size, g - 1), g * Size)
    <3> DEFINE t == <<g - 1, Size - 1>>
    <3>1. g \in Nat \ {0} /\ g <= Len(b.partials) /\ g - 1 \in Nat
      BY <2>4, <2>9
    <3>2. p[g] = b.partials[g]
      BY <2>6, <3>1 DEF CellsOf, IndexOf
    <3>3. t \in ThreadsFor(Len(b.input)) /\ t[1] = g - 1 /\ t[2] = Size - 1
      BY <1>2, <2>9, <3>1 DEF ThreadsFor
    <3>4. b.partials[(g - 1) + 1] = StretchFold(Op, c, FirstCell(Size, g - 1), (g - 1) * Size + (Size - 1) + 1)
      BY <2>5, <3>3 DEF Published
    <3>5. (g - 1) + 1 = g
      BY <3>1
    <3>6. (g - 1) * Size + (Size - 1) + 1 = g * Size
      <4> HIDE DEF s
      <4>1. s \in Nat
        BY <1>2 DEF s
      <4>2. (g - 1) * s + (s - 1) + 1 = g * s
        BY <3>1, <4>1
      <4> QED BY <4>2 DEF s
    <3> QED BY <3>2, <3>4, <3>5, <3>6
  <2>11. \A g \in 1 .. GroupsFor(Len(b.input)) : StretchFold(Op, p, 1, g) = StretchFold(Op, c, 1, g * Size)
    <3> DEFINE m == GroupsFor(Len(b.input))
    <3>1. s \in Nat \ {0} /\ q \in ScanOps /\ m \in Nat
      BY <1>2, <2>6, <2>9
    <3>2. AreTotals(q, c, s, p, m)
      BY <2>10 DEF AreTotals
    <3> HIDE DEF m, p, c, s, q
    <3>3. \A g \in 1 .. m : StretchFold(q, p, 1, g) = StretchFold(q, c, 1, g * s)
      BY <2>8, <3>1, <3>2, StretchFoldOfTotals
    <3> QED BY <3>3 DEF m, s, q
  <2>12. ASSUME NEW g \in 1 .. GroupsFor(Len(b.input))
         PROVE  scanned'[g] = StretchFold(Op, c, 1, g * Size)
    <3>1. g \in 1 .. Len(b.partials)
      BY <2>4
    <3>2. Top.output[IndexOf(Op, b.partials, g)] = StretchFold(Op, p, 1, g)
      BY <1>5, <2>5, <3>1 DEF IsFolded
    <3>3. IndexOf(Op, b.partials, g) = g
      BY <2>6 DEF IndexOf
    <3> QED BY <1>1, <2>11, <3>2, <3>3
  <2>13. \A g \in 1 .. NumGroups' : scanned'[g] = Reached(1, g * Size)'
    <3>1. \A g : Reached(1, g * Size)' = StretchFold(Op, c, 1, g * Size)
      BY <1>6, <2>3 DEF Reached
    <3> HIDE DEF c, b
    <3> QED BY <2>7, <2>12, <3>1
  <2>14. ASSUME NEW t \in Threads' PROVE CellFolds(t)'
    <3>1. /\ t \in ThreadsFor(Len(b.input)) /\ at'[t] = 0
      BY <2>1, <2>7
    <3>2. Published(Op, Size, b, t)
      BY <2>5, <3>1
    <3>3. /\ t[1] \in Nat /\ (t[1] = 0 => FirstCell(Size, t[1]) = 1)
          /\ Base(t) \in Nat
      <4> DEFINE m == Len(b.input)
      <4>1. m \in Nat /\ t \in ThreadsFor(m)
        BY <2>4, <3>1
      <4> HIDE DEF m
      <4> QED BY <1>2, <4>1, ThreadNumbers
    <3>4. InColumn(t)' <=> Base(t) <= Len(b.input)
      BY <2>3, <2>7 DEF InColumn
    <3>5. Index(Base(t))' = IndexOf(Op, b.input, Base(t))
      BY <1>6, <2>3, <2>7 DEF Index, IndexOf
    <3>6. Base(t) <= Len(b.input) =>
            b.output[IndexOf(Op, b.input, Base(t))] = StretchFold(Op, c, FirstCell(Size, t[1]), Base(t))
      BY <3>2 DEF Published, Base
    <3>7. MayPropagate(t)' <=> t[1] > 0 /\ InColumn(t)'
      BY DEF MayPropagate
    <3>8. /\ Reached(1, Base(t))' = StretchFold(Op, c, 1, Base(t))
          /\ Reached(FirstCell(Size, t[1]), Base(t))' = StretchFold(Op, c, FirstCell(Size, t[1]), Base(t))
      BY <1>6, <2>3, <2>7 DEF Reached, FirstCell
    <3>9. InColumn(t)' => (IF MayPropagate(t)' /\ at'[t] = 0 THEN FirstCell(Size, t[1]) ELSE 1)
                            = FirstCell(Size, t[1])
      BY <3>1, <3>3, <3>7
    <3> HIDE DEF b, c
    <3> QED BY <1>6, <2>3, <2>7, <3>4, <3>5, <3>6, <3>8, <3>9 DEF CellFolds, FirstCell
  <2>15. levels'[1].input = call.column
    BY <1>1, <1>4, <2>2 DEF FoldInv
  <2>16. ASSUME NEW l \in 1 .. n - 2 PROVE WaitsWithTotals(l)'
    <3>1. l \in 1 .. n - 1 /\ l + 1 \in 1 .. n - 1
      <4> HIDE DEF n
      <4> QED BY <1>3
    <3>2. WaitsWithTotals(l) /\ levels'[l] = levels[l] /\ levels'[l + 1] = levels[l + 1]
      BY <1>4, <3>1 DEF FoldInv
    <3> QED BY <1>6, <3>2 DEF WaitsWithTotals
  <2>17. Len(levels') - 1 = n - 2
    BY <1>3, <1>4
  <2> HIDE DEF b, c, p, s, q
  <2> QED BY <1>1, <1>6, <2>1, <2>6, <2>13, <2>14, <2>15, <2>16, <2>17 DEF FoldInv
<1> QED BY <1>7, <1>8

LEMMA FoldsEstablished ==
  ASSUME Init
  PROVE  FoldInv
<1>1. phase = "start" /\ levels = << >> /\ scanned = << >>
  BY DEF Init
<1>2. Len(levels) = 0
  BY <1>1
<1> QED BY <1>1, <1>2 DEF FoldInv

\* A step that leaves the scan alone, fails it, or has nothing to scan.
LEMMA NoStepFolds ==
  ASSUME FoldInv, UNCHANGED <<call, levels, at, shared, reg, scanned>>,
         phase' = phase \/ phase' \in {"scanned", "failed"},
         phase' = "scanned" => phase = phase' \/ (phase = "start" /\ call.column = << >>)
  PROVE  FoldInv'
<1>1. Top'.input = Top.input /\ Top' = Top
  BY DEF Top
<1>2. /\ Op' = Op /\ Size' = Size /\ Threads' = Threads /\ NumGroups' = NumGroups
      /\ Publishing' = Publishing /\ Rounds' = Rounds
      /\ \A n : ThreadsFor(n)' = ThreadsFor(n)
      /\ \A i, j : Reached(i, j)' = Reached(i, j)
      /\ \A t, r : Covered(t, r)' = Covered(t, r)
      /\ \A t : Base(t)' = Base(t) /\ InColumn(t)' = InColumn(t)
                /\ MayPropagate(t)' = MayPropagate(t)
      /\ \A k : Index(k)' = Index(k)
  BY <1>1, SameFolds
<1>3. \A l : WaitsWithTotals(l)' <=> WaitsWithTotals(l)
  BY <1>2 DEF WaitsWithTotals
<1>4. \A t : ThreadFolds(t)' <=> ThreadFolds(t)
  BY <1>1, <1>2 DEF ThreadFolds
<1>5. \A t : CellFolds(t)' <=> CellFolds(t)
  BY <1>1, <1>2 DEF CellFolds
<1>6. IsFolded(Op, call.column, scanned)' <=> IsFolded(Op, call.column, scanned)
  BY <1>2 DEF IsFolded
<1>7. call.column = << >> /\ scanned = << >> => IsFolded(Op, call.column, scanned)
  BY DEF IsFolded
<1>8. /\ phase' = "start" => phase = "start"
      /\ phase' = "scan" => phase = "scan"
      /\ phase' = "propagate" => phase = "propagate"
  OBVIOUS
<1>9. phase' = "start" => scanned' = << >>
  BY <1>8 DEF FoldInv
<1>10. phase' \in {"scan", "propagate"} => levels'[1].input = call'.column
  BY <1>8 DEF FoldInv
<1>11. \A l \in 1 .. Len(levels') - 1 : WaitsWithTotals(l)'
  BY <1>3 DEF FoldInv
<1>12. Op' = "bfill" => Len(levels') <= 1
  BY <1>2 DEF FoldInv
<1>13. phase' = "scan" => \A t \in Threads' : ThreadFolds(t)'
  BY <1>2, <1>4, <1>8 DEF FoldInv
<1>14. phase' = "propagate" =>
         /\ \A g \in 1 .. NumGroups' : scanned'[g] = Reached(1, g * Size)'
         /\ \A t \in Threads' : CellFolds(t)'
  BY <1>2, <1>5, <1>8 DEF FoldInv
<1>15. phase' = "scanned" => IsFolded(Op, call.column, scanned)'
  BY <1>6, <1>7 DEF FoldInv
<1> QED BY <1>9, <1>10, <1>11, <1>12, <1>13, <1>14, <1>15 DEF FoldInv

LEMMA ScanFolds ==
  ASSUME IInv, FoldInv, Forward, ScanNext
  PROVE  FoldInv'
<1>1. CASE Start
  BY <1>1, StartFolds
<1>2. CASE NothingToScan
  BY <1>2, NoStepFolds DEF NothingToScan
<1>3. CASE Recurse
  BY <1>3, RecurseFolds
<1>4. CASE Return
  BY <1>4, ReturnFolds
<1>5. ASSUME NEW t \in Threads,
             LoadCell(t) \/ ReadCells(t) \/ WriteCell(t) \/ Publish(t) \/ Propagate(t)
      PROVE  FoldInv'
  BY <1>5, LoadCellFolds, ReadCellsFolds, WriteCellFolds, PublishFolds, PropagateFolds
<1>6. CASE ScanError
  BY <1>6, NoStepFolds DEF ScanError
<1> QED
  BY <1>1, <1>2, <1>3, <1>4, <1>5, <1>6 DEF ScanNext, ScanStep

\* No step changes the call.
LEMMA CallStays ==
  ASSUME [Next]_allVars
  PROVE  call' = call
<1>1. ScanNext \/ UNCHANGED vars
  BY DEF Next, Scan, HandBack, StartCompact, CompactRow, FinishCompact,
         CompactError, RaiseScanError, FallBack, Returned, allVars
<1>2. UNCHANGED vars => call' = call
  BY DEF vars
<1>3. ScanNext => call' = call
  BY DEF ScanNext, ScanStep, ScanError, Start, NothingToScan, Recurse, Return,
         LoadCell, ReadCells, WriteCell, Publish, Propagate
<1> QED BY <1>1, <1>2, <1>3

LEMMA NextFolds ==
  ASSUME IInv, Forward => FoldInv, [Next]_allVars
  PROVE  (Forward => FoldInv)'
<1>1. call' = call
  BY CallStays
<1>2. Forward' <=> Forward
  BY <1>1 DEF Forward, Op, GroupsFor, Size
<1>3. ScanNext \/ UNCHANGED vars
  BY DEF Next, Scan, HandBack, StartCompact, CompactRow, FinishCompact,
         CompactError, RaiseScanError, FallBack, Returned, allVars
<1>4. ASSUME Forward, FoldInv PROVE FoldInv'
  <2>1. CASE UNCHANGED vars
    BY <1>4, <2>1, NoStepFolds DEF vars
  <2> QED BY <1>3, <1>4, <2>1, ScanFolds
<1> QED BY <1>2, <1>4

LEMMA FoldsInvariant ==
  Spec => [](Forward => FoldInv)
<1>1. Begin => (Forward => FoldInv)
  BY FoldsEstablished DEF Begin
<1>2. IInv /\ (Forward => FoldInv) /\ [Next]_allVars => (Forward => FoldInv)'
  BY NextFolds
<1> QED BY <1>1, <1>2, Invariance, PTL DEF Spec

\* The reference of PrefixesFolded, read as a fold.
LEMMA FoldedIsReached ==
  ASSUME call \in Calls, Top.input \in Seq(Values), NEW i \in Nat \ {0},
         NEW j \in Nat, i <= j
  PROVE  Folded(i, j) = Reached(i, j)
<1> DEFINE c == CellsOf(Op, Top.input)
           cell(k) == IF k <= Len(Top.input) THEN Top.input[Index(k)] ELSE Identity
           f[n \in Nat] == IF n = 0 THEN cell(i) ELSE Combine(f[n - 1], cell(i + n))
           g == [n \in Nat |-> Reached(i, i + n)]
<1>0. c \in [Nat \ {0} -> Values] /\ Op \in ScanOps
  BY CellsType, SameOperation
<1>1. \A k \in Nat \ {0} : cell(k) = c[k]
  BY SameOperation DEF CellsOf
<1>2. \A n \in Nat : c[i + n] = cell(i + n)
  BY <1>1
<1> HIDE DEF cell
<1>3. g = [n \in Nat |-> IF n = 0 THEN cell(i) ELSE Combine(g[n - 1], cell(i + n))]
  <2>1. ASSUME NEW n \in Nat, n # 0
        PROVE  Reached(i, i + n) = Combine(Reached(i, i + (n - 1)), cell(i + n))
    <3> DEFINE m == i + (n - 1)
    <3>1. m \in Nat /\ i <= m /\ m + 1 = i + n
      BY <2>1
    <3> HIDE DEF c, m
    <3>2. StretchFold(Op, c, i, m + 1) = JoinOf(Op, StretchFold(Op, c, i, m), c[m + 1])
      BY <1>0, <3>1, StretchSteps
    <3>3. \A x, y : Combine(x, y) = JoinOf(Op, x, y)
      BY SameOperation
    <3>4. \A a, b : Reached(a, b) = StretchFold(Op, c, a, b)
      BY DEF Reached, c
    <3> QED BY <1>2, <3>1, <3>2, <3>3, <3>4 DEF m
  <2>2. Reached(i, i + 0) = cell(i)
    <3>1. i + 0 = i
      OBVIOUS
    <3>2. Reached(i, i) = c[i]
      BY ReachedFacts
    <3> QED BY <1>1, <3>1, <3>2
  <2>3. ASSUME NEW n \in Nat, n # 0 PROVE g[n - 1] = Reached(i, i + (n - 1))
    <3>1. n - 1 \in Nat
      BY <2>3
    <3> QED BY <3>1
  <2> QED BY <2>1, <2>2, <2>3
<1> HIDE DEF g
<1>4. f = [n \in Nat |-> IF n = 0 THEN cell(i) ELSE Combine(f[n - 1], cell(i + n))]
  BY <1>3
<1>5. Folded(i, j) = f[j - i]
  BY DEF Folded, cell
<1> HIDE DEF f
<1>6. \A n \in Nat : f[n] = g[n]
  <2> DEFINE S == {n \in Nat : f[n] = g[n]}
  <2>1. 0 \in S
    BY <1>3, <1>4
  <2>2. ASSUME NEW n \in Nat, n \in S PROVE n + 1 \in S
    <3>1. n + 1 \in Nat /\ n + 1 # 0 /\ (n + 1) - 1 = n
      OBVIOUS
    <3>2. f[n + 1] = Combine(f[n], cell(i + (n + 1)))
      BY <1>4, <3>1
    <3>3. g[n + 1] = Combine(g[n], cell(i + (n + 1)))
      BY <1>3, <3>1
    <3> QED BY <2>2, <3>2, <3>3
  <2> HIDE DEF S
  <2>3. \A n \in Nat : n \in S
    BY <2>1, <2>2, SetInduction
  <2> QED BY <2>3 DEF S
<1>7. j - i \in Nat /\ i + (j - i) = j
  OBVIOUS
<1> QED BY <1>5, <1>6, <1>7 DEF g

\* Pass 2 hands every threadgroup the combination of all cells before it: for
\* every column, group width, depth of the recursion and interleaving of the
\* threads.  A backward fill of more than one group is excepted; there the
\* totals are scanned from the wrong end.
THEOREM PrefixesAlwaysFolded ==
  Spec => [](Forward => PrefixesFolded)
<1>1. ASSUME IInv, FoldInv PROVE PrefixesFolded
  <2> SUFFICES ASSUME phase = "propagate", NEW g \in 1 .. Len(scanned) - 1
               PROVE  scanned[g] = Folded(1, g * Size)
    BY DEF PrefixesFolded
  <2>1. call \in Calls /\ levels # << >> /\ Len(scanned) = NumGroups /\ Size \in Nat /\ Size >= 2
    BY <1>1, CallType DEF IInv, ScanTypeOK, OnePrefixPerGroup
  <2>2. Top.input \in Seq(Values) /\ NumGroups \in Nat
    BY <1>1, <2>1, TopType DEF Level
  <2>3. g \in 1 .. NumGroups
    BY <2>1, <2>2
  <2>4. scanned[g] = Reached(1, g * Size)
    BY <1>1, <2>3 DEF FoldInv
  <2>5. g * Size \in Nat /\ 1 <= g * Size
    <3> DEFINE s == Size
    <3>1. s \in Nat \ {0} /\ g \in Nat \ {0}
      BY <2>1, <2>3
    <3> HIDE DEF s
    <3>2. g * s \in Nat /\ 1 <= g * s
      BY <3>1
    <3> QED BY <3>2 DEF s
  <2> DEFINE m == g * Size
  <2> HIDE DEF m
  <2>6. Folded(1, m) = Reached(1, m)
    BY <2>1, <2>2, <2>5, FoldedIsReached DEF m
  <2> QED BY <2>4, <2>6 DEF m
<1>2. IInv /\ (Forward => FoldInv) => (Forward => PrefixesFolded)
  BY <1>1
<1> QED BY <1>2, Invariance, FoldsInvariant, PTL

-----------------------------------------------------------------------------
(* What pandas answers, step by step *)

\* Sums are taken cell by cell.
LEMMA SumToSteps ==
  ASSUME call.column \in Seq(Nat)
  PROVE  /\ Sequential!SumTo(0) = 0
         /\ \A k \in 1 .. Len(call.column) :
              /\ Sequential!SumTo(k - 1) \in Nat
              /\ Sequential!SumTo(k) \in Nat
              /\ Sequential!SumTo(k) = Sequential!SumTo(k - 1) + call.column[k]
<1> DEFINE n == Len(call.column)
           step == [p \in Nat \X Nat |-> IF p[1] \in 1 .. n THEN p[2] + call.column[p[1]] ELSE 0]
           f[k \in 0 .. n] == IF k = 0 THEN 0 ELSE f[k - 1] + call.column[k]
<1>1. n \in Nat /\ \A k \in 1 .. n : call.column[k] \in Nat
  OBVIOUS
<1>2. \A i : Sequential!SumTo(i) = f[i]
  BY DEF Sequential!SumTo
<1> HIDE DEF n
<1>3. step \in StepsOn(Nat)
  BY <1>1 DEF StepsOn
<1>4. PICK g \in [Nat -> Nat] : g[0] = 0 /\ \A k \in Nat : g[k + 1] = step[<<k + 1, g[k]>>]
  <2> DEFINE a == 0
             V == Nat
  <2>1. a \in V /\ step \in StepsOn(V)
    BY <1>3
  <2> HIDE DEF a, V, step
  <2>2. \E g \in [Nat -> V] : g[0] = a /\ \A k \in Nat : g[k + 1] = step[<<k + 1, g[k]>>]
    BY <2>1, RecursiveFunction
  <2> QED BY <2>2 DEF a, V
<1>5. ASSUME NEW k \in 1 .. n PROVE g[k - 1] \in Nat /\ g[k] = g[k - 1] + call.column[k]
  <2>1. k - 1 \in Nat /\ (k - 1) + 1 = k /\ k \in Nat
    BY <1>1
  <2>2. g[k] = step[<<k, g[k - 1]>>] /\ g[k - 1] \in Nat
    BY <1>4, <2>1
  <2>3. <<k, g[k - 1]>> \in Nat \X Nat
    BY <2>1, <2>2
  <2>4. step[<<k, g[k - 1]>>] = g[k - 1] + call.column[k]
    BY <2>3
  <2> QED BY <2>2, <2>4
<1> HIDE DEF step
<1> DEFINE h == [k \in 0 .. n |-> g[k]]
<1>6. h = [k \in 0 .. n |-> IF k = 0 THEN 0 ELSE h[k - 1] + call.column[k]]
  <2>1. ASSUME NEW k \in 0 .. n
        PROVE  g[k] = IF k = 0 THEN 0 ELSE h[k - 1] + call.column[k]
    <3>1. CASE k = 0
      BY <1>4, <3>1
    <3>2. CASE k # 0
      <4>1. k \in 1 .. n /\ k - 1 \in 0 .. n
        BY <1>1, <3>2
      <4> QED BY <1>5, <3>2, <4>1
    <3> QED BY <3>1, <3>2
  <2> QED BY <2>1
<1> HIDE DEF h
<1>7. f = [k \in 0 .. n |-> IF k = 0 THEN 0 ELSE f[k - 1] + call.column[k]]
  BY <1>6
<1> HIDE DEF f
<1>8. f[0] = 0
  BY <1>1, <1>7
<1>9. ASSUME NEW k \in 1 .. n PROVE f[k] = f[k - 1] + call.column[k]
  <2>1. k \in 0 .. n /\ k # 0
    BY <1>1
  <2> QED BY <1>7, <2>1
<1>10. \A k \in Nat : k <= n => f[k] \in Nat
  <2> DEFINE S == {k \in Nat : k <= n => f[k] \in Nat}
  <2>1. 0 \in S
    BY <1>8
  <2>2. ASSUME NEW k \in Nat, k \in S PROVE k + 1 \in S
    <3> SUFFICES ASSUME k + 1 <= n PROVE f[k + 1] \in Nat
      OBVIOUS
    <3>1. k + 1 \in 1 .. n /\ (k + 1) - 1 = k /\ f[k] \in Nat
      BY <1>1, <2>2
    <3>2. f[k + 1] = f[k] + call.column[k + 1]
      BY <1>9, <3>1
    <3>3. call.column[k + 1] \in Nat
      BY <1>1, <3>1
    <3> DEFINE x == f[k]
               y == call.column[k + 1]
    <3>4. x \in Nat /\ y \in Nat /\ f[k + 1] = x + y
      BY <3>1, <3>2, <3>3
    <3> HIDE DEF x, y
    <3>5. x + y \in Nat
      BY <3>4
    <3> QED BY <3>4, <3>5
  <2> HIDE DEF S
  <2>3. \A k \in Nat : k \in S
    BY <2>1, <2>2, SetInduction
  <2> QED BY <2>3 DEF S
<1>11. ASSUME NEW k \in 1 .. n PROVE f[k - 1] \in Nat /\ f[k] \in Nat
  <2>1. k - 1 \in Nat /\ k - 1 <= n /\ k \in Nat /\ k <= n
    BY <1>1
  <2> QED BY <1>10, <2>1
<1> QED BY <1>2, <1>8, <1>9, <1>11 DEF n

\* Rows are kept one after the other.
LEMMA KeptToSteps ==
  ASSUME call.column \in Seq(Nat)
  PROVE  /\ Sequential!KeptTo(0) = << >>
         /\ \A k \in 1 .. Len(call.column) :
              /\ Sequential!KeptTo(k - 1) \in Seq(Nat)
              /\ Sequential!KeptTo(k) =
                   IF call.column[k] = 1 THEN Append(Sequential!KeptTo(k - 1), k)
                   ELSE Sequential!KeptTo(k - 1)
<1> DEFINE n == Len(call.column)
           step == [p \in Nat \X Seq(Nat) |->
                      IF call.column[p[1]] = 1 THEN Append(p[2], p[1]) ELSE p[2]]
           f[k \in 0 .. n] ==
             IF k = 0 THEN << >>
             ELSE IF call.column[k] = 1 THEN Append(f[k - 1], k) ELSE f[k - 1]
<1>1. n \in Nat
  OBVIOUS
<1>2. \A i : Sequential!KeptTo(i) = f[i]
  BY DEF Sequential!KeptTo
<1> HIDE DEF n
<1>3. step \in StepsOn(Seq(Nat))
  <2>1. ASSUME NEW k \in Nat, NEW s \in Seq(Nat) PROVE Append(s, k) \in Seq(Nat)
    OBVIOUS
  <2>2. \A p \in Nat \X Seq(Nat) :
          (IF call.column[p[1]] = 1 THEN Append(p[2], p[1]) ELSE p[2]) \in Seq(Nat)
    BY <2>1
  <2> QED BY <2>2 DEF StepsOn
<1>4. PICK g \in [Nat -> Seq(Nat)] :
        g[0] = << >> /\ \A k \in Nat : g[k + 1] = step[<<k + 1, g[k]>>]
  <2>1. << >> \in Seq(Nat)
    OBVIOUS
  <2> HIDE DEF step, f
  <2>2. PICK V, a : V = Seq(Nat) /\ a = << >>
    OBVIOUS
  <2>3. a \in V /\ step \in StepsOn(V)
    BY <1>3, <2>1, <2>2
  <2>4. \E g \in [Nat -> V] : g[0] = a /\ \A k \in Nat : g[k + 1] = step[<<k + 1, g[k]>>]
    BY <2>3, RecursiveFunction
  <2> QED BY <2>2, <2>4
<1>5. ASSUME NEW k \in 1 .. n
      PROVE  /\ g[k - 1] \in Seq(Nat)
             /\ g[k] = IF call.column[k] = 1 THEN Append(g[k - 1], k) ELSE g[k - 1]
  <2>1. k - 1 \in Nat /\ (k - 1) + 1 = k /\ k \in Nat
    OBVIOUS
  <2>2. g[k] = step[<<k, g[k - 1]>>] /\ g[k - 1] \in Seq(Nat)
    BY <1>4, <2>1
  <2> QED BY <2>1, <2>2
<1> HIDE DEF step
<1> DEFINE h == [k \in 0 .. n |-> g[k]]
<1>6. h = [k \in 0 .. n |-> IF k = 0 THEN << >>
                            ELSE IF call.column[k] = 1 THEN Append(h[k - 1], k) ELSE h[k - 1]]
  <2>1. ASSUME NEW k \in 0 .. n
        PROVE  g[k] = IF k = 0 THEN << >>
                      ELSE IF call.column[k] = 1 THEN Append(h[k - 1], k) ELSE h[k - 1]
    <3>1. CASE k = 0
      BY <1>4, <3>1
    <3>2. CASE k # 0
      <4>1. k \in 1 .. n /\ k - 1 \in 0 .. n
        BY <1>1, <3>2
      <4>2. h[k - 1] = g[k - 1]
        BY <4>1
      <4> HIDE DEF h
      <4> QED BY <1>5, <3>2, <4>1, <4>2
    <3> QED BY <3>1, <3>2
  <2>2. \A k \in 0 .. n : h[k] = g[k]
    OBVIOUS
  <2> QED BY <2>1
<1> HIDE DEF h
<1>7. f = [k \in 0 .. n |-> IF k = 0 THEN << >>
                            ELSE IF call.column[k] = 1 THEN Append(f[k - 1], k) ELSE f[k - 1]]
  BY <1>6
<1> HIDE DEF f
<1>8. f[0] = << >>
  BY <1>1, <1>7
<1>9. ASSUME NEW k \in 1 .. n
      PROVE  f[k] = IF call.column[k] = 1 THEN Append(f[k - 1], k) ELSE f[k - 1]
  <2>1. k \in 0 .. n /\ k # 0
    BY <1>1
  <2> QED BY <1>7, <2>1
<1>10. \A k \in Nat : k <= n => f[k] \in Seq(Nat)
  <2> DEFINE S == {k \in Nat : k <= n => f[k] \in Seq(Nat)}
  <2>1. 0 \in S
    <3>1. << >> \in Seq(Nat)
      OBVIOUS
    <3> QED BY <1>8, <3>1
  <2>2. ASSUME NEW k \in Nat, k \in S PROVE k + 1 \in S
    <3> SUFFICES ASSUME k + 1 <= n PROVE f[k + 1] \in Seq(Nat)
      OBVIOUS
    <3>1. k + 1 \in 1 .. n /\ (k + 1) - 1 = k /\ f[k] \in Seq(Nat)
      BY <1>1, <2>2
    <3>2. f[k + 1] = IF call.column[k + 1] = 1 THEN Append(f[k], k + 1) ELSE f[k]
      BY <1>9, <3>1
    <3>3. k + 1 \in Nat
      OBVIOUS
    <3>4. Append(f[k], k + 1) \in Seq(Nat)
      BY <3>1, <3>3
    <3> QED BY <3>1, <3>2, <3>4
  <2> HIDE DEF S
  <2>3. \A k \in Nat : k \in S
    BY <2>1, <2>2, SetInduction
  <2> QED BY <2>3 DEF S
<1>11. ASSUME NEW k \in 1 .. n PROVE f[k - 1] \in Seq(Nat)
  <2>1. k - 1 \in Nat /\ k - 1 <= n
    BY <1>1
  <2> QED BY <1>10, <2>1
<1> QED BY <1>2, <1>8, <1>9, <1>11 DEF n

-----------------------------------------------------------------------------
(* The folds are what pandas computes *)

IsSum(o) == o = "sum"

\* g has the sums of the first cells of c.
SumsTo(c, n, g) ==
  /\ g \in [0 .. n -> Nat]
  /\ g[0] = 0
  /\ \A i \in 1 .. n : c[i] \in 0 .. Word - 1 /\ g[i] = g[i - 1] + c[i]

\* A fold of sums is the sum g of its cells, modulo the word.
LEMMA FoldSums ==
  ASSUME NEW o, IsSum(o), NEW c \in [Nat \ {0} -> Values], NEW n \in Nat,
         NEW g, SumsTo(c, n, g)
  PROVE  \A k \in 1 .. n : StretchFold(o, c, 1, k) = g[k] % Word
<1> DEFINE S == {d \in Nat : d + 1 <= n => StretchFold(o, c, 1, d + 1) = g[d + 1] % Word}
<1>1. Word \in Nat \ {0} /\ o \in ScanOps
  BY ScanAssumption DEF ScanOps, IsSum
<1>2. \A x, y : JoinOf(o, x, y) = (x + y) % Word
  BY DEF JoinOf, Filling, IsSum
<1>3. 0 \in S
  <2> SUFFICES ASSUME 0 + 1 <= n PROVE StretchFold(o, c, 1, 1) = g[1] % Word
    OBVIOUS
  <2>1. PICK i : i = 1
    OBVIOUS
  <2>2. StretchFold(o, c, i, i) = c[i]
    BY <1>1, <2>1, StretchSteps
  <2>3. i \in 1 .. n /\ i - 1 = 0
    BY <2>1
  <2>4. g[i] = 0 + c[i] /\ c[i] \in 0 .. Word - 1
    BY <2>3 DEF SumsTo
  <2> DEFINE x == c[i]
             w == Word
  <2>5. x \in 0 .. w - 1 /\ w \in Nat \ {0}
    BY <1>1, <2>4
  <2> HIDE DEF x, w, S
  <2>6. (0 + x) % w = x
    <3>1. 0 + x = w * 0 + x /\ 0 + x \in Int /\ 0 \in Int
      BY <2>5
    <3> QED BY <2>5, <3>1, ModUnique
  <2> QED BY <2>1, <2>2, <2>4, <2>6 DEF x, w
<1>4. ASSUME NEW d \in Nat, d \in S PROVE d + 1 \in S
  <2> DEFINE e == d + 1
  <2> SUFFICES ASSUME e + 1 <= n
               PROVE  StretchFold(o, c, 1, e + 1) = g[e + 1] % Word
    OBVIOUS
  <2>1. e \in Nat /\ 1 <= e /\ e + 1 \in 1 .. n /\ e \in 0 .. n /\ (e + 1) - 1 = e
    OBVIOUS
  <2>2. StretchFold(o, c, 1, e) = g[e] % Word
    BY <1>4, <2>1
  <2> HIDE DEF e
  <2>3. StretchFold(o, c, 1, e + 1) = JoinOf(o, StretchFold(o, c, 1, e), c[e + 1])
    BY <1>1, <2>1, StretchSteps
  <2> DEFINE x == g[e]
             y == c[e + 1]
             w == Word
  <2>4. x \in Nat /\ y \in Nat /\ w \in Nat \ {0} /\ g[e + 1] = x + y
    BY <1>1, <2>1 DEF SumsTo
  <2>5. StretchFold(o, c, 1, e + 1) = ((x % w) + y) % w
    BY <1>2, <2>2, <2>3
  <2> HIDE DEF x, y, w, S
  <2>6. ((x % w) + y) % w = (x + y) % w
    <3>1. x \in Int /\ y \in Int
      BY <2>4
    <3> QED BY <2>4, <3>1, ModPlus
  <2> QED BY <2>4, <2>5, <2>6 DEF w
<1>5. \A d \in Nat : d \in S
  <2> HIDE DEF S
  <2> QED BY <1>3, <1>4, SetInduction
<1> TAKE k \in 1 .. n
<1>6. k - 1 \in Nat /\ (k - 1) + 1 = k /\ k <= n
  OBVIOUS
<1>7. k - 1 \in S
  <2> HIDE DEF S
  <2> QED BY <1>5, <1>6
<1> QED BY <1>6, <1>7

\* A fold of minima, or of maxima, is one of its cells and bounds the others.
LEMMA BoundFolded ==
  ASSUME NEW o \in {"min", "max"}, NEW c \in [Nat \ {0} -> Values], NEW k \in Nat \ {0}
  PROVE  \E j \in 1 .. k :
           /\ StretchFold(o, c, 1, k) = c[j]
           /\ \A i \in 1 .. k : IF o = "min" THEN c[j] <= c[i] ELSE c[j] >= c[i]
<1> DEFINE Bound(v, m) == \A i \in 1 .. m : IF o = "min" THEN v <= c[i] ELSE v >= c[i]
           S == {d \in Nat : \E j \in 1 .. d + 1 :
                               StretchFold(o, c, 1, d + 1) = c[j] /\ Bound(c[j], d + 1)}
<1>1. o \in ScanOps /\ \A i \in Nat \ {0} : c[i] \in Int
  BY ScanAssumption DEF ScanOps, Values
<1>2. 0 \in S
  <2>1. StretchFold(o, c, 1, 1) = c[1] /\ c[1] \in Int
    BY <1>1, StretchSteps
  <2>2. Bound(c[1], 1)
    <3> SUFFICES ASSUME NEW i \in 1 .. 1 PROVE IF o = "min" THEN c[1] <= c[i] ELSE c[1] >= c[i]
      OBVIOUS
    <3>1. i = 1
      OBVIOUS
    <3> QED BY <2>1, <3>1
  <2>3. 0 + 1 = 1 /\ 1 \in 1 .. 1
    OBVIOUS
  <2> HIDE DEF Bound
  <2> QED BY <2>1, <2>2, <2>3
<1>3. ASSUME NEW d \in Nat, d \in S PROVE d + 1 \in S
  <2> DEFINE e == d + 1
  <2>1. e \in Nat \ {0} /\ 1 <= e
    OBVIOUS
  <2>2. PICK j \in 1 .. e : StretchFold(o, c, 1, e) = c[j] /\ Bound(c[j], e)
    BY <1>3
  <2> HIDE DEF e
  <2>3. StretchFold(o, c, 1, e + 1) = JoinOf(o, c[j], c[e + 1])
    BY <1>1, <2>1, <2>2, StretchSteps
  <2>4. j \in 1 .. e + 1 /\ e + 1 \in 1 .. e + 1 /\ j \in Nat \ {0} /\ e + 1 \in Nat \ {0}
    BY <2>1
  <2>5. c[j] \in Int /\ c[e + 1] \in Int
    BY <1>1, <2>4
  <2>6. ASSUME NEW v \in Int, IF o = "min" THEN v <= c[j] ELSE v >= c[j],
               IF o = "min" THEN v <= c[e + 1] ELSE v >= c[e + 1]
        PROVE  Bound(v, e + 1)
    <3> SUFFICES ASSUME NEW i \in 1 .. e + 1 PROVE IF o = "min" THEN v <= c[i] ELSE v >= c[i]
      OBVIOUS
    <3>1. CASE i = e + 1
      BY <2>6, <3>1
    <3>2. CASE i # e + 1
      <4>1. i \in 1 .. e /\ i \in Nat \ {0}
        BY <2>1, <3>2
      <4>2. IF o = "min" THEN c[j] <= c[i] ELSE c[j] >= c[i]
        BY <2>2, <4>1
      <4>3. c[i] \in Int
        BY <1>1, <4>1
      <4> QED BY <2>5, <2>6, <4>2, <4>3
    <3> QED BY <3>1, <3>2
  <2> HIDE DEF Bound
  <2>7. CASE o = "min"
    <3>1. StretchFold(o, c, 1, e + 1) = IF c[j] < c[e + 1] THEN c[j] ELSE c[e + 1]
      BY <2>3, <2>7 DEF JoinOf, Filling
    <3>2. CASE c[j] < c[e + 1]
      <4>1. StretchFold(o, c, 1, e + 1) = c[j] /\ Bound(c[j], e + 1)
        BY <2>5, <2>6, <2>7, <3>1, <3>2
      <4> QED BY <2>4, <4>1 DEF e
    <3>3. CASE ~(c[j] < c[e + 1])
      <4>1. StretchFold(o, c, 1, e + 1) = c[e + 1] /\ Bound(c[e + 1], e + 1)
        BY <2>5, <2>6, <2>7, <3>1, <3>3
      <4> QED BY <2>4, <4>1 DEF e
    <3> QED BY <3>2, <3>3
  <2>8. CASE o = "max"
    <3>1. StretchFold(o, c, 1, e + 1) = IF c[j] > c[e + 1] THEN c[j] ELSE c[e + 1]
      BY <2>3, <2>8 DEF JoinOf, Filling
    <3>2. CASE c[j] > c[e + 1]
      <4>1. StretchFold(o, c, 1, e + 1) = c[j] /\ Bound(c[j], e + 1)
        BY <2>5, <2>6, <2>8, <3>1, <3>2
      <4> QED BY <2>4, <4>1 DEF e
    <3>3. CASE ~(c[j] > c[e + 1])
      <4>1. StretchFold(o, c, 1, e + 1) = c[e + 1] /\ Bound(c[e + 1], e + 1)
        BY <2>5, <2>6, <2>8, <3>1, <3>3
      <4> QED BY <2>4, <4>1 DEF e
    <3> QED BY <3>2, <3>3
  <2> QED BY <2>7, <2>8
<1>4. \A d \in Nat : d \in S
  <2> HIDE DEF S
  <2> QED BY <1>2, <1>3, SetInduction
<1>5. k - 1 \in Nat /\ (k - 1) + 1 = k
  OBVIOUS
<1>6. k - 1 \in S
  <2> HIDE DEF S
  <2> QED BY <1>4, <1>5
<1> QED BY <1>5, <1>6

\* A fold of a fill is the last of its cells that is valid, if there is one.
LEMMA FillFolded ==
  ASSUME NEW o \in Filling, NEW c \in [Nat \ {0} -> Values], NEW k \in Nat \ {0}
  PROVE  \/ /\ \A i \in 1 .. k : c[i] = NaN
            /\ StretchFold(o, c, 1, k) = NaN
         \/ \E j \in 1 .. k :
              /\ c[j] # NaN /\ StretchFold(o, c, 1, k) = c[j]
              /\ \A i \in 1 .. k : c[i] # NaN => i <= j
<1> DEFINE None(m) == (\A i \in 1 .. m : c[i] = NaN) /\ StretchFold(o, c, 1, m) = NaN
           LastIs(m, j) == /\ c[j] # NaN /\ StretchFold(o, c, 1, m) = c[j]
                           /\ \A i \in 1 .. m : c[i] # NaN => i <= j
           S == {d \in Nat : None(d + 1) \/ \E j \in 1 .. d + 1 : LastIs(d + 1, j)}
<1>1. o \in ScanOps /\ \A x, y : JoinOf(o, x, y) = IF y = NaN THEN x ELSE y
  BY DEF ScanOps, Filling, JoinOf
<1>2. 0 \in S
  <2>1. StretchFold(o, c, 1, 1) = c[1]
    BY <1>1, StretchSteps
  <2>2. \A i \in 1 .. 1 : i = 1
    OBVIOUS
  <2>3. 0 + 1 = 1 /\ 1 \in 1 .. 1
    OBVIOUS
  <2>4. CASE c[1] = NaN
    <3>1. None(1)
      BY <2>1, <2>2, <2>4
    <3> HIDE DEF None, LastIs
    <3> QED BY <2>3, <3>1
  <2>5. CASE c[1] # NaN
    <3>1. LastIs(1, 1)
      BY <2>1, <2>2, <2>5
    <3> HIDE DEF None, LastIs
    <3> QED BY <2>3, <3>1
  <2> QED BY <2>4, <2>5
<1>3. ASSUME NEW d \in Nat, d \in S PROVE d + 1 \in S
  <2> DEFINE e == d + 1
  <2>1. e \in Nat \ {0} /\ 1 <= e /\ e + 1 \in 1 .. e + 1
    OBVIOUS
  <2>2. None(e) \/ \E j \in 1 .. e : LastIs(e, j)
    BY <1>3
  <2> HIDE DEF e
  <2>3. StretchFold(o, c, 1, e + 1) = IF c[e + 1] = NaN THEN StretchFold(o, c, 1, e) ELSE c[e + 1]
    BY <1>1, <2>1, StretchSteps
  <2>4. \A i \in 1 .. e + 1 : i = e + 1 \/ i \in 1 .. e
    BY <2>1
  <2>5. CASE c[e + 1] # NaN
    <3>1. LastIs(e + 1, e + 1)
      BY <2>1, <2>3, <2>5
    <3> HIDE DEF None, LastIs
    <3> QED BY <2>1, <3>1 DEF e
  <2>6. CASE c[e + 1] = NaN
    <3>1. CASE None(e)
      <4>1. None(e + 1)
        BY <2>3, <2>4, <2>6, <3>1
      <4> HIDE DEF None, LastIs
      <4> QED BY <4>1 DEF e
    <3>2. ASSUME NEW j \in 1 .. e, LastIs(e, j) PROVE e \in S
      <4>1. LastIs(e + 1, j)
        BY <2>3, <2>4, <2>6, <3>2
      <4>2. j \in 1 .. e + 1
        BY <2>1
      <4> HIDE DEF None, LastIs
      <4> QED BY <2>1, <4>1, <4>2
    <3> QED BY <2>2, <3>1, <3>2 DEF e
  <2> QED BY <2>5, <2>6
<1>4. \A d \in Nat : d \in S
  <2> HIDE DEF S
  <2> QED BY <1>2, <1>3, SetInduction
<1>5. k - 1 \in Nat /\ (k - 1) + 1 = k
  OBVIOUS
<1>6. k - 1 \in S
  <2> HIDE DEF S
  <2> QED BY <1>4, <1>5
<1> QED BY <1>5, <1>6

\* A column of numbers has sums that are numbers.
LEMMA SumsAreNat ==
  ASSUME call \in Calls, call.op = "sum", NEW k \in 1 .. Len(call.column)
  PROVE  Sequential!SumTo(k) \in Nat
<1>1. call.column \in Seq(0 .. Word - 1) /\ Word \in Nat \ {0}
  BY ScanAssumption DEF Filling
<1>2. 0 .. Word - 1 \subseteq Nat
  OBVIOUS
<1>3. call.column \in Seq(Nat)
  BY <1>1, <1>2
<1> QED BY <1>3, SumToSteps

\* The sums of a column, and the counts of a mask, which do not overflow.
LEMMA SumFolded ==
  ASSUME call \in Calls, call.op \in {"sum", "compact"},
         NEW k \in 1 .. Len(call.column)
  PROVE  StretchFold(Op, CellsOf(Op, call.column), 1, k) = Sequential!SumTo(k) % Word
<1> DEFINE n == Len(call.column)
           c == CellsOf(Op, call.column)
           g == [i \in 0 .. n |-> Sequential!SumTo(i)]
<1>1. n \in Nat /\ call.column \in Seq(Values) /\ Word \in Nat \ {0}
  BY CallType, ScanAssumption
<1>2. Op = "sum"
  BY DEF Op
<1>3. \A i \in 1 .. n : call.column[i] \in 0 .. Word - 1
  <2>1. CASE call.op = "sum"
    <3>1. call.column \in Seq(0 .. Word - 1)
      BY <2>1, ScanAssumption DEF Filling
    <3> DEFINE W == 0 .. Word - 1
    <3>2. call.column \in Seq(W)
      BY <3>1
    <3> HIDE DEF W
    <3>3. \A i \in 1 .. n : call.column[i] \in W
      BY <3>2
    <3> QED BY <3>3 DEF W
  <2>2. CASE call.op = "compact"
    <3>1. call.column \in Seq({0, 1}) /\ n < Word
      BY <2>2, ScanAssumption
    <3> HIDE DEF n
    <3> SUFFICES ASSUME NEW i \in 1 .. n PROVE call.column[i] \in 0 .. Word - 1
      OBVIOUS
    <3>2. Word - 1 >= 1
      BY <1>1, <3>1
    <3>3. call.column[i] \in {0, 1}
      BY <3>1 DEF n
    <3> QED BY <1>1, <3>2, <3>3
  <2> QED BY <2>1, <2>2
<1>4. call.column \in Seq(Nat)
  BY <1>1, <1>3
<1>5. /\ Sequential!SumTo(0) = 0
      /\ \A i \in 1 .. n : /\ Sequential!SumTo(i - 1) \in Nat
                           /\ Sequential!SumTo(i) \in Nat
                           /\ Sequential!SumTo(i) = Sequential!SumTo(i - 1) + call.column[i]
  BY <1>4, SumToSteps
<1>6. \A i \in 1 .. n : c[i] = call.column[i]
  BY <1>1, <1>2 DEF CellsOf, IndexOf
<1>7. c \in [Nat \ {0} -> Values]
  BY <1>1, CellsType
<1> HIDE DEF n, c
<1>8. SumsTo(c, n, g)
  <2>1. \A i \in 0 .. n : Sequential!SumTo(i) \in Nat
    <3> SUFFICES ASSUME NEW i \in 0 .. n PROVE Sequential!SumTo(i) \in Nat
      OBVIOUS
    <3>1. i = 0 \/ i \in 1 .. n
      BY <1>1
    <3> QED BY <1>5, <3>1
  <2>2. g \in [0 .. n -> Nat] /\ g[0] = 0
    BY <1>1, <1>5, <2>1
  <2>3. ASSUME NEW i \in 1 .. n PROVE c[i] \in 0 .. Word - 1 /\ g[i] = g[i - 1] + c[i]
    <3>1. i \in 0 .. n /\ i - 1 \in 0 .. n
      BY <1>1
    <3> QED BY <1>3, <1>5, <1>6, <3>1
  <2> HIDE DEF g
  <2> QED BY <2>2, <2>3 DEF SumsTo
<1>9. IsSum(Op)
  BY <1>2 DEF IsSum
<1>10. g[k] = Sequential!SumTo(k)
  BY <1>1 DEF n
<1>11. k \in 1 .. n
  BY DEF n
<1> HIDE DEF g
<1>12. \A i \in 1 .. n : StretchFold(Op, c, 1, i) = g[i] % Word
  BY <1>1, <1>7, <1>8, <1>9, FoldSums
<1> QED BY <1>10, <1>11, <1>12 DEF c

\* The sums of the call fit the column's width, unless pandas adds up in no
\* wider one.
SumsFit ==
  call.op = "sum" /\ call.acc # Word =>
    \A i \in 1 .. Len(call.column) : Sequential!SumTo(i) < Word

\* Unless it is the count of a mask, a folded result is what pandas answers.
LEMMA FoldedIsExpected ==
  ASSUME call \in Calls, SumsFit, call.op # "compact", NEW r \in Seq(Values),
         IsFolded(Op, call.column, r)
  PROVE  r = Sequential!Expected
<1> DEFINE n == Len(call.column)
           c == CellsOf(Op, call.column)
<1>1. /\ n \in Nat /\ call.column \in Seq(Values) /\ Op = call.op /\ Op \in ScanOps
      /\ DOMAIN call.column = 1 .. n /\ DOMAIN r = 1 .. n
      /\ Len(r) = n
  BY CallType DEF IsFolded, Op, ScanOps
<1>2. c \in [Nat \ {0} -> Values]
  BY <1>1, CellsType
<1>3. \A k \in 1 .. n : /\ IndexOf(Op, call.column, k) \in 1 .. n
                        /\ c[k] = call.column[IndexOf(Op, call.column, k)]
                        /\ r[IndexOf(Op, call.column, k)] = StretchFold(Op, c, 1, k)
  <2>1. \A k \in 1 .. n : IndexOf(Op, call.column, k) \in 1 .. n
    BY <1>1 DEF IndexOf
  <2>2. \A k \in 1 .. n : c[k] = call.column[IndexOf(Op, call.column, k)]
    <3> SUFFICES ASSUME NEW k \in 1 .. n PROVE c[k] = call.column[IndexOf(Op, call.column, k)]
      OBVIOUS
    <3>1. k \in Nat \ {0} /\ k <= n
      BY <1>1
    <3> QED BY <3>1 DEF CellsOf
  <2>3. \A k \in 1 .. n : r[IndexOf(Op, call.column, k)] = StretchFold(Op, c, 1, k)
    BY DEF IsFolded
  <2> QED BY <2>1, <2>2, <2>3
<1>4. Op # "bfill" => \A k : IndexOf(Op, call.column, k) = k
  BY DEF IndexOf
<1>5. Op = "bfill" => \A k : IndexOf(Op, call.column, k) = n + 1 - k
  BY DEF IndexOf
<1>6. \A i \in 1 .. n : call.column[i] \in Values
  BY <1>1
<1>7. \A v \in Values : v \in Int
  BY ScanAssumption DEF Values
<1>8. CASE Op = "sum"
  <2>1. Sequential!Expected = [i \in 1 .. n |-> Sequential!SumTo(i) % Word]
    <3>1. Sequential!Expected = [i \in 1 .. n |-> Sequential!SumTo(i) % call.acc]
      BY <1>1, <1>8 DEF Sequential!Expected, Sequential!Rows
    <3>2. ASSUME NEW i \in 1 .. n
          PROVE  Sequential!SumTo(i) % call.acc = Sequential!SumTo(i) % Word
      <4>1. CASE call.acc = Word
        BY <4>1
      <4>2. CASE call.acc # Word
        <5>1. Sequential!SumTo(i) < Word
          BY <1>1, <1>8, <4>2 DEF SumsFit
        <5>2. Sequential!SumTo(i) \in Nat
          BY <1>1, <1>8, SumsAreNat
        <5>3. call.acc \in Nat /\ Word <= call.acc /\ Word \in Nat \ {0}
          BY ScanAssumption
        <5> DEFINE sum == Sequential!SumTo(i)
        <5>4. sum \in Nat /\ sum < Word
          BY <5>1, <5>2
        <5> HIDE DEF sum
        <5>5. sum % call.acc = sum /\ sum % Word = sum
          BY <5>3, <5>4
        <5> QED BY <5>5 DEF sum
      <4> QED BY <4>1, <4>2
    <3> HIDE DEF n
    <3> QED BY <3>1, <3>2
  <2>2. ASSUME NEW k \in 1 .. n PROVE r[k] = Sequential!SumTo(k) % Word
    <3>1. StretchFold(Op, c, 1, k) = Sequential!SumTo(k) % Word
      BY <1>1, <1>8, SumFolded
    <3> HIDE DEF n, c
    <3>2. r[k] = StretchFold(Op, c, 1, k)
      BY <1>3, <1>4, <1>8
    <3> QED BY <3>1, <3>2
  <2> HIDE DEF n, c
  <2> QED BY <1>1, <2>1, <2>2
<1>9. CASE Op \in {"min", "max"}
  <2>1. ASSUME NEW k \in 1 .. n
        PROVE  \E j \in 1 .. k :
                 /\ j \in 1 .. n /\ r[k] = call.column[j]
                 /\ \A i \in 1 .. k : IF Op = "min" THEN call.column[j] <= call.column[i]
                                      ELSE call.column[j] >= call.column[i]
    <3>1. k \in Nat \ {0}
      OBVIOUS
    <3> HIDE DEF c
    <3>2. PICK j \in 1 .. k : /\ StretchFold(Op, c, 1, k) = c[j]
                              /\ \A i \in 1 .. k : IF Op = "min" THEN c[j] <= c[i] ELSE c[j] >= c[i]
      BY <1>2, <1>9, <3>1, BoundFolded
    <3>3. \A i \in 1 .. k : i \in 1 .. n
      BY <1>1
    <3> HIDE DEF n
    <3>4. \A i \in 1 .. k : c[i] = call.column[i]
      BY <1>3, <1>4, <1>9, <3>3
    <3>5. r[k] = StretchFold(Op, c, 1, k)
      BY <1>3, <1>4, <1>9
    <3> QED BY <3>2, <3>3, <3>4, <3>5
  <2>2. CASE Op = "min"
    <3>1. Sequential!Expected = [i \in 1 .. n |-> Sequential!LeastOf(1 .. i)]
      BY <1>1, <2>2 DEF Sequential!Expected, Sequential!Rows, Sequential!UpTo
    <3>2. ASSUME NEW k \in 1 .. n PROVE r[k] = Sequential!LeastOf(1 .. k)
      <4>1. PICK j \in 1 .. k : /\ j \in 1 .. n /\ r[k] = call.column[j]
                                /\ \A i \in 1 .. k : call.column[j] <= call.column[i]
        BY <2>1, <2>2
      <4> DEFINE A == {call.column[i] : i \in 1 .. k}
                 w == CHOOSE v \in A : \A i \in 1 .. k : v <= call.column[i]
      <4>2. Sequential!LeastOf(1 .. k) = w
        BY DEF Sequential!LeastOf
      <4>3. call.column[j] \in A
        OBVIOUS
      <4>4. w \in A /\ \A i \in 1 .. k : w <= call.column[i]
        BY <4>1, <4>3
      <4> HIDE DEF w
      <4>5. PICK i \in 1 .. k : w = call.column[i]
        BY <4>4
      <4>6. i \in 1 .. n
        BY <1>1
      <4>7. call.column[i] \in Int /\ call.column[j] \in Int
        BY <1>6, <1>7, <4>1, <4>6
      <4>8. call.column[i] <= call.column[j] /\ call.column[j] <= call.column[i]
        BY <4>1, <4>4, <4>5
      <4>9. call.column[i] = call.column[j]
        BY <4>7, <4>8
      <4> QED BY <4>1, <4>2, <4>5, <4>9
    <3> HIDE DEF n, c
    <3> QED BY <1>1, <3>1, <3>2
  <2>3. CASE Op = "max"
    <3>1. Sequential!Expected = [i \in 1 .. n |-> Sequential!GreatestOf(1 .. i)]
      BY <1>1, <2>3 DEF Sequential!Expected, Sequential!Rows, Sequential!UpTo
    <3>2. ASSUME NEW k \in 1 .. n PROVE r[k] = Sequential!GreatestOf(1 .. k)
      <4>1. PICK j \in 1 .. k : /\ j \in 1 .. n /\ r[k] = call.column[j]
                                /\ \A i \in 1 .. k : call.column[j] >= call.column[i]
        BY <2>1, <2>3
      <4> DEFINE A == {call.column[i] : i \in 1 .. k}
                 w == CHOOSE v \in A : \A i \in 1 .. k : v >= call.column[i]
      <4>2. Sequential!GreatestOf(1 .. k) = w
        BY DEF Sequential!GreatestOf
      <4>3. call.column[j] \in A
        OBVIOUS
      <4>4. w \in A /\ \A i \in 1 .. k : w >= call.column[i]
        BY <4>1, <4>3
      <4> HIDE DEF w
      <4>5. PICK i \in 1 .. k : w = call.column[i]
        BY <4>4
      <4>6. i \in 1 .. n
        BY <1>1
      <4>7. call.column[i] \in Int /\ call.column[j] \in Int
        BY <1>6, <1>7, <4>1, <4>6
      <4>8. call.column[i] >= call.column[j] /\ call.column[j] >= call.column[i]
        BY <4>1, <4>4, <4>5
      <4>9. call.column[i] = call.column[j]
        BY <4>7, <4>8
      <4> QED BY <4>1, <4>2, <4>5, <4>9
    <3> HIDE DEF n, c
    <3> QED BY <1>1, <3>1, <3>2
  <2> QED BY <1>9, <2>2, <2>3
<1>10. CASE Op = "ffill"
  <2>1. Sequential!Expected = [i \in 1 .. n |-> Sequential!LastValid(1 .. i)]
    BY <1>1, <1>10 DEF Sequential!Expected, Sequential!Rows, Sequential!UpTo
  <2>2. ASSUME NEW k \in 1 .. n PROVE r[k] = Sequential!LastValid(1 .. k)
    <3> HIDE DEF c
    <3>1. k \in Nat \ {0} /\ \A i \in 1 .. k : i \in 1 .. n
      BY <1>1
    <3> HIDE DEF n
    <3>2. \A i \in 1 .. k : c[i] = call.column[i]
      BY <1>3, <1>4, <1>10, <3>1
    <3>3. r[k] = StretchFold(Op, c, 1, k)
      BY <1>3, <1>4, <1>10
    <3> DEFINE V == {j \in 1 .. k : call.column[j] # NaN}
    <3>4. Sequential!Valid(1 .. k) = V
      BY DEF Sequential!Valid
    <3>5. CASE (\A i \in 1 .. k : c[i] = NaN) /\ StretchFold(Op, c, 1, k) = NaN
      <4>1. V = {}
        BY <3>2, <3>5
      <4> QED BY <3>3, <3>4, <3>5, <4>1 DEF Sequential!LastValid
    <3>6. ASSUME NEW j \in 1 .. k, c[j] # NaN, StretchFold(Op, c, 1, k) = c[j],
                 \A i \in 1 .. k : c[i] # NaN => i <= j
          PROVE  r[k] = Sequential!LastValid(1 .. k)
      <4> DEFINE w == CHOOSE i \in V : \A m \in V : m <= i
      <4>1. j \in V /\ \A m \in V : m <= j
        BY <3>2, <3>6
      <4>2. w \in V /\ \A m \in V : m <= w
        BY <4>1
      <4> HIDE DEF w
      <4>3. w = j
        BY <4>1, <4>2
      <4>4. Sequential!LastValid(1 .. k) = call.column[w]
        BY <3>4, <4>1 DEF Sequential!LastValid, w
      <4> QED BY <3>2, <3>3, <3>6, <4>3, <4>4
    <3> HIDE DEF V
    <3>7. Op \in Filling
      BY <1>10 DEF Filling
    <3> QED BY <1>2, <3>1, <3>5, <3>6, <3>7, FillFolded
  <2> HIDE DEF n, c
  <2> QED BY <1>1, <2>1, <2>2
<1>11. CASE Op = "bfill"
  <2>1. Sequential!Expected = [i \in 1 .. n |-> Sequential!FirstValid({j \in 1 .. n : i <= j})]
    BY <1>1, <1>11 DEF Sequential!Expected, Sequential!Rows
  <2>2. ASSUME NEW p \in 1 .. n PROVE r[p] = Sequential!FirstValid({j \in 1 .. n : p <= j})
    <3> DEFINE k == n + 1 - p
               I == {j \in 1 .. n : p <= j}
    <3> SUFFICES r[p] = Sequential!FirstValid(I)
      OBVIOUS
    <3> HIDE DEF c
    <3>1. /\ k \in 1 .. n /\ k \in Nat \ {0} /\ n + 1 - k = p
          /\ \A i \in 1 .. k : i \in 1 .. n /\ n + 1 - i \in I
          /\ \A i \in I : n + 1 - i \in 1 .. k /\ n + 1 - (n + 1 - i) = i
      <4> HIDE DEF n
      <4> QED BY <1>1
    <3> HIDE DEF n, k
    <3>2. \A i \in 1 .. k : c[i] = call.column[n + 1 - i]
      BY <1>3, <1>5, <1>11, <3>1
    <3>3. r[p] = StretchFold(Op, c, 1, k)
      BY <1>3, <1>5, <1>11, <3>1
    <3> DEFINE V == {j \in I : call.column[j] # NaN}
    <3>4. Sequential!Valid(I) = V
      BY DEF Sequential!Valid
    <3>5. CASE (\A i \in 1 .. k : c[i] = NaN) /\ StretchFold(Op, c, 1, k) = NaN
      <4>1. ASSUME NEW i \in I PROVE call.column[i] = NaN
        <5>1. n + 1 - i \in 1 .. k /\ n + 1 - (n + 1 - i) = i
          BY <3>1
        <5>2. c[n + 1 - i] = call.column[n + 1 - (n + 1 - i)] /\ c[n + 1 - i] = NaN
          BY <3>2, <3>5, <5>1
        <5> QED BY <5>1, <5>2
      <4> HIDE DEF I
      <4>2. V = {}
        BY <4>1
      <4> HIDE DEF V
      <4> QED BY <3>3, <3>4, <3>5, <4>2 DEF Sequential!FirstValid
    <3>6. ASSUME NEW j \in 1 .. k, c[j] # NaN, StretchFold(Op, c, 1, k) = c[j],
                 \A i \in 1 .. k : c[i] # NaN => i <= j
          PROVE  r[p] = Sequential!FirstValid(I)
      <4> DEFINE w == CHOOSE i \in V : \A m \in V : i <= m
                 q == n + 1 - j
      <4>1. q \in V
        BY <3>1, <3>2, <3>6
      <4>2. ASSUME NEW m \in V PROVE q <= m
        <5>1. n + 1 - m \in 1 .. k /\ n + 1 - (n + 1 - m) = m /\ m \in Int
          BY <3>1
        <5>2. c[n + 1 - m] = call.column[n + 1 - (n + 1 - m)]
          BY <3>2, <5>1
        <5>3. n + 1 - m <= j
          BY <3>6, <5>1, <5>2
        <5> QED BY <1>1, <5>1, <5>3
      <4>3. w \in V /\ \A m \in V : w <= m
        BY <4>1, <4>2
      <4>4. q \in Int /\ w \in Int
        BY <4>1, <4>3
      <4> HIDE DEF w, q
      <4>5. w = q
        BY <4>1, <4>2, <4>3, <4>4
      <4>6. Sequential!FirstValid(I) = call.column[w]
        <5> HIDE DEF I
        <5> QED BY <3>4, <4>1 DEF Sequential!FirstValid, w
      <4> QED BY <3>2, <3>3, <3>6, <4>5, <4>6 DEF q
    <3> HIDE DEF V, I
    <3>7. Op \in Filling
      BY <1>11 DEF Filling
    <3> QED BY <1>2, <3>1, <3>5, <3>6, <3>7, FillFolded
  <2> HIDE DEF n, c
  <2> QED BY <1>1, <2>1, <2>2
<1> QED BY <1>1, <1>8, <1>9, <1>10, <1>11 DEF ScanOps

-----------------------------------------------------------------------------
(* The filter writes the rows that are kept *)

\* Counts of a mask rise by the rows that are kept.
LEMMA CountFacts ==
  ASSUME call \in Calls, call.op = "compact"
  PROVE  /\ call.column \in Seq({0, 1}) /\ Len(call.column) \in Nat
         /\ Sequential!SumTo(0) = 0
         /\ \A k \in 0 .. Len(call.column) : Sequential!SumTo(k) \in 0 .. k
         /\ \A k \in 1 .. Len(call.column) :
              Sequential!SumTo(k) = Sequential!SumTo(k - 1) + call.column[k]
         /\ \A i, j \in 0 .. Len(call.column) :
              i <= j => Sequential!SumTo(i) <= Sequential!SumTo(j)
<1> DEFINE n == Len(call.column)
           C(k) == Sequential!SumTo(k)
<1>1. call.column \in Seq({0, 1})
  BY ScanAssumption
<1>2. n \in Nat /\ call.column \in Seq(Nat) /\ \A k \in 1 .. n : call.column[k] \in {0, 1}
  BY <1>1
<1>3. /\ C(0) = 0
      /\ \A k \in 1 .. n : C(k - 1) \in Nat /\ C(k) \in Nat /\ C(k) = C(k - 1) + call.column[k]
  BY <1>2, SumToSteps
<1> HIDE DEF C, n
<1>4. \A k \in Nat : k <= n => C(k) \in 0 .. k
  <2> DEFINE S == {k \in Nat : k <= n => C(k) \in 0 .. k}
  <2>1. 0 \in S
    BY <1>3
  <2>2. ASSUME NEW k \in Nat, k \in S PROVE k + 1 \in S
    <3> SUFFICES ASSUME k + 1 <= n PROVE C(k + 1) \in 0 .. k + 1
      OBVIOUS
    <3>1. k + 1 \in 1 .. n /\ (k + 1) - 1 = k /\ C(k) \in 0 .. k
      BY <1>2, <2>2
    <3>2. C(k + 1) = C(k) + call.column[k + 1] /\ call.column[k + 1] \in {0, 1}
      BY <1>2, <1>3, <3>1
    <3> DEFINE x == C(k)
               y == call.column[k + 1]
    <3>3. x \in 0 .. k /\ y \in {0, 1} /\ C(k + 1) = x + y
      BY <3>1, <3>2
    <3> HIDE DEF x, y, S
    <3> QED BY <3>3
  <2> HIDE DEF S
  <2>3. \A k \in Nat : k \in S
    BY <2>1, <2>2, SetInduction
  <2> QED BY <2>3 DEF S
<1>5. \A k \in 0 .. n : C(k) \in 0 .. k
  <2> SUFFICES ASSUME NEW k \in 0 .. n PROVE C(k) \in 0 .. k
    OBVIOUS
  <2>1. k \in Nat /\ k <= n
    BY <1>2
  <2> QED BY <1>4, <2>1
<1>6. ASSUME NEW i \in 0 .. n, NEW j \in 0 .. n, i <= j PROVE C(i) <= C(j)
  <2> DEFINE S == {d \in Nat : i + d <= n => C(i) <= C(i + d)}
  <2>1. 0 \in S
    <3>1. i + 0 = i /\ C(i) \in Int
      BY <1>2, <1>5
    <3> QED BY <3>1
  <2>2. ASSUME NEW d \in Nat, d \in S PROVE d + 1 \in S
    <3> SUFFICES ASSUME i + (d + 1) <= n PROVE C(i) <= C(i + (d + 1))
      OBVIOUS
    <3> DEFINE m == i + (d + 1)
    <3>1. m \in 1 .. n /\ m - 1 = i + d /\ i + d <= n /\ m - 1 \in 0 .. n
      BY <1>2
    <3>2. C(i) <= C(m - 1)
      BY <2>2, <3>1
    <3> HIDE DEF m, S
    <3>3. C(m) = C(m - 1) + call.column[m] /\ call.column[m] \in {0, 1}
      BY <1>2, <1>3, <3>1
    <3>4. C(i) \in Int /\ C(m - 1) \in Int
      BY <1>2, <1>5, <3>1
    <3> DEFINE x == C(m - 1)
               y == call.column[m]
               z == C(i)
    <3>5. x \in Int /\ y \in {0, 1} /\ z \in Int /\ z <= x /\ C(m) = x + y
      BY <3>2, <3>3, <3>4
    <3> HIDE DEF x, y, z
    <3>6. z <= x + y
      BY <3>5
    <3> QED BY <3>5, <3>6 DEF z, m
  <2>3. \A d \in Nat : d \in S
    <3> HIDE DEF S
    <3> QED BY <2>1, <2>2, SetInduction
  <2>4. j - i \in Nat /\ i + (j - i) = j /\ j <= n
    <3> HIDE DEF S
    <3>1. i \in Int /\ j \in Int /\ n \in Int /\ i <= j /\ j <= n
      BY <1>2, <1>6
    <3> QED BY <3>1
  <2>5. j - i \in S
    <3> HIDE DEF S
    <3> QED BY <2>3, <2>4
  <2> QED BY <2>4, <2>5
<1> QED BY <1>1, <1>2, <1>3, <1>5, <1>6 DEF C, n

\* The scan of a mask has the count of every row.
LEMMA PlaceIsCount ==
  ASSUME call \in Calls, call.op = "compact", IsFolded(Op, call.column, scanned)
  PROVE  /\ Len(scanned) = Len(call.column)
         /\ \A k \in 1 .. Len(call.column) : scanned[k] = Sequential!SumTo(k)
<1> DEFINE n == Len(call.column)
<1>1. n \in Nat /\ n < Word /\ Word \in Nat \ {0} /\ Op = "sum"
  BY CountFacts, ScanAssumption DEF Op
<1>2. ASSUME NEW k \in 1 .. n PROVE scanned[k] = Sequential!SumTo(k)
  <2>1. StretchFold(Op, CellsOf(Op, call.column), 1, k) = Sequential!SumTo(k) % Word
    BY SumFolded
  <2>2. scanned[k] = StretchFold(Op, CellsOf(Op, call.column), 1, k)
    <3>1. IndexOf(Op, call.column, k) = k
      BY <1>1 DEF IndexOf
    <3> QED BY <3>1 DEF IsFolded
  <2>3. Sequential!SumTo(k) \in 0 .. k
    <3>1. k \in 0 .. n
      BY <1>1
    <3> QED BY <3>1, CountFacts
  <2> DEFINE x == Sequential!SumTo(k)
             w == Word
  <2> HIDE DEF n
  <2>4. x \in 0 .. w - 1 /\ w \in Nat \ {0}
    BY <1>1, <2>3
  <2> HIDE DEF x, w
  <2>5. x % w = x
    <3>1. x = w * 0 + x /\ x \in Int /\ 0 \in Int
      BY <2>4
    <3> QED BY <2>4, <3>1, ModUnique
  <2> QED BY <2>1, <2>2, <2>5 DEF x, w
<1> QED BY <1>2 DEF IsFolded

\* Kept rows have places of their own, inside the buffer.
LEMMA PlacesDiffer ==
  ASSUME call \in Calls, call.op = "compact",
         NEW i \in 1 .. Len(call.column), call.column[i] = 1
  PROVE  /\ Sequential!SumTo(i) \in 1 .. Sequential!SumTo(Len(call.column))
         /\ \A j \in 1 .. Len(call.column) :
              call.column[j] = 1 /\ Sequential!SumTo(j) = Sequential!SumTo(i) => j = i
<1> DEFINE n == Len(call.column)
           C(k) == Sequential!SumTo(k)
<1>1. /\ n \in Nat
      /\ \A k \in 0 .. n : C(k) \in 0 .. k
      /\ \A k \in 1 .. n : C(k) = C(k - 1) + call.column[k]
      /\ \A k, m \in 0 .. n : k <= m => C(k) <= C(m)
  BY CountFacts
<1> HIDE DEF C, n
<1>2. ASSUME NEW k \in 1 .. n, call.column[k] = 1
      PROVE  /\ C(k) = C(k - 1) + 1 /\ C(k) \in Int /\ C(k - 1) \in Nat
             /\ k \in 0 .. n /\ k - 1 \in 0 .. n
  <2>1. k \in 0 .. n /\ k - 1 \in 0 .. n
    BY <1>1
  <2>2. C(k) \in 0 .. k /\ C(k - 1) \in 0 .. (k - 1)
    BY <1>1, <2>1
  <2> QED BY <1>1, <1>2, <2>1, <2>2
<1>3. i \in 1 .. n
  BY DEF n
<1>4. C(i) \in 1 .. C(n)
  <2>1. n \in 0 .. n /\ i <= n
    BY <1>1, <1>3
  <2>2. C(i) <= C(n) /\ C(n) \in Int
    <3>1. C(n) \in 0 .. n
      BY <1>1, <2>1
    <3> QED BY <1>1, <1>2, <1>3, <2>1, <3>1
  <2> QED BY <1>2, <1>3, <2>2
<1>5. ASSUME NEW j \in 1 .. n, call.column[j] = 1, C(j) = C(i) PROVE j = i
  <2>1. CASE i < j
    <3>1. i <= j - 1 /\ j - 1 \in 0 .. n /\ i \in 0 .. n
      BY <1>1, <1>3, <2>1
    <3>2. C(i) <= C(j - 1)
      BY <1>1, <3>1
    <3> QED BY <1>2, <1>3, <1>5, <3>2
  <2>2. CASE j < i
    <3>1. j <= i - 1 /\ i - 1 \in 0 .. n /\ j \in 0 .. n
      BY <1>1, <1>3, <2>2
    <3>2. C(j) <= C(i - 1)
      BY <1>1, <3>1
    <3> QED BY <1>2, <1>3, <1>5, <3>2
  <2> QED BY <1>3, <2>1, <2>2
<1> QED BY <1>4, <1>5 DEF C, n

\* A buffer with every kept row in its place is what pandas keeps.
LEMMA KeptIsExpected ==
  ASSUME call \in Calls, call.op = "compact",
         NEW b \in [1 .. Sequential!SumTo(Len(call.column)) -> Nat],
         \A i \in 1 .. Len(call.column) :
           call.column[i] = 1 => b[Sequential!SumTo(i)] = i
  PROVE  b = Sequential!Expected
<1> DEFINE n == Len(call.column)
           C(k) == Sequential!SumTo(k)
           K(k) == Sequential!KeptTo(k)
<1>1. /\ n \in Nat /\ call.column \in Seq({0, 1})
      /\ C(0) = 0
      /\ \A k \in 0 .. n : C(k) \in 0 .. k
      /\ \A k \in 1 .. n : C(k) = C(k - 1) + call.column[k]
      /\ \A k, m \in 0 .. n : k <= m => C(k) <= C(m)
  BY CountFacts
<1>2. \A k \in 1 .. n : call.column[k] \in {0, 1}
  BY <1>1
<1>3. /\ K(0) = << >>
      /\ \A k \in 1 .. n :
           /\ K(k - 1) \in Seq(Nat)
           /\ K(k) = IF call.column[k] = 1 THEN Append(K(k - 1), k) ELSE K(k - 1)
  <2>1. call.column \in Seq(Nat)
    BY <1>1, <1>2
  <2> QED BY <2>1, KeptToSteps
<1>4. Sequential!Expected = K(n)
  BY DEF Sequential!Expected
<1>5. \A i \in 1 .. n : call.column[i] = 1 => b[C(i)] = i
  OBVIOUS
<1> HIDE DEF C, K, n
<1> DEFINE S == {k \in Nat : k <= n => K(k) = [c \in 1 .. C(k) |-> b[c]]}
<1>6. 0 \in S
  <2>1. [c \in 1 .. C(0) |-> b[c]] = << >>
    <3>1. 1 .. C(0) = {}
      BY <1>1
    <3> QED BY <3>1
  <2> QED BY <1>3, <2>1
<1>7. ASSUME NEW m \in Nat, m \in S PROVE m + 1 \in S
  <2> SUFFICES ASSUME m + 1 <= n PROVE K(m + 1) = [c \in 1 .. C(m + 1) |-> b[c]]
    OBVIOUS
  <2> DEFINE k == m + 1
             s == [c \in 1 .. C(m) |-> b[c]]
  <2>1. k \in 1 .. n /\ k - 1 = m /\ m <= n /\ m \in 0 .. n /\ k \in Nat
    BY <1>1
  <2>2. K(m) = s
    BY <1>7, <2>1
  <2>3. K(k) = IF call.column[k] = 1 THEN Append(s, k) ELSE s
    BY <1>3, <2>1, <2>2
  <2>4. C(k) = C(m) + call.column[k] /\ C(m) \in Nat
    <3>1. C(m) \in 0 .. m
      BY <1>1, <2>1
    <3> QED BY <1>1, <2>1, <3>1
  <2>5. s \in Seq(Nat)
    BY <1>3, <2>1, <2>2
  <2> HIDE DEF k
  <2>6. CASE call.column[k] = 1
    <3>1. C(k) = C(m) + 1 /\ b[C(k)] = k
      BY <1>5, <2>1, <2>4, <2>6
    <3> DEFINE d == C(m)
               e == C(k)
    <3>2. d \in Nat /\ e = d + 1 /\ b[e] = k /\ s = [c \in 1 .. d |-> b[c]] /\ k \in Nat
      BY <2>1, <2>4, <3>1
    <3> HIDE DEF d, e, s
    <3>3. Len(s) = d
      BY <2>5, <3>2
    <3>4. Append(s, k) = [c \in 1 .. e |-> b[c]]
      <4>1. Append(s, k) \in Seq(Nat) /\ Len(Append(s, k)) = d + 1
        BY <2>5, <3>2, <3>3
      <4>2. DOMAIN Append(s, k) = 1 .. e
        BY <3>2, <4>1
      <4>3. ASSUME NEW c \in 1 .. e PROVE Append(s, k)[c] = b[c]
        <5>1. CASE c = e
          BY <2>5, <3>2, <3>3, <5>1
        <5>2. CASE c # e
          <6>1. c \in 1 .. d
            BY <3>2, <5>2
          <6> QED BY <2>5, <3>2, <3>3, <6>1
        <5> QED BY <5>1, <5>2
      <4>4. Append(s, k) = [c \in DOMAIN Append(s, k) |-> Append(s, k)[c]]
        <5> DEFINE a == Append(s, k)
        <5>0. a \in Seq(Nat) /\ Len(a) = d + 1
          BY <4>1
        <5> HIDE DEF a
        <5>1. a \in [1 .. d + 1 -> Nat]
          BY <5>0
        <5>2. a = [c \in DOMAIN a |-> a[c]]
          BY <5>1
        <5> QED BY <5>2 DEF a
      <4> QED BY <4>2, <4>3, <4>4
    <3> QED BY <2>3, <2>6, <3>4 DEF e, k
  <2>7. CASE call.column[k] # 1
    <3>1. C(k) = C(m)
      BY <1>2, <2>1, <2>4, <2>7
    <3> QED BY <2>3, <2>7, <3>1 DEF k
  <2> QED BY <2>6, <2>7
<1>8. \A k \in Nat : k \in S
  <2> HIDE DEF S
  <2> QED BY <1>6, <1>7, SetInduction
<1>9. n \in S
  <2> HIDE DEF S
  <2> QED BY <1>1, <1>8
<1>10. K(n) = [c \in 1 .. C(n) |-> b[c]]
  BY <1>1, <1>9
<1>11. b = [c \in 1 .. C(n) |-> b[c]]
  BY DEF C, n
<1> QED BY <1>4, <1>10, <1>11

-----------------------------------------------------------------------------
(* The callers *)

\* Only a filter runs the second kernel.
OnlyFilters == stage = "compact" => call.op = "compact"

\* Where the call stands, and what it has written and answered.
AnswerInv ==
  /\ stage \in {"scan", "compact", "pandas", "answered"}
  /\ stage # "answered" => answer = NoAnswer
  /\ stage = "answered" => answer = <<Sequential!Expected>>
  /\ stage = "compact" =>
       /\ phase = "scanned" /\ call.column # << >>
       /\ writing \subseteq 1 .. Len(call.column)
       /\ kept \in [1 .. Sequential!SumTo(Len(call.column)) -> Nat]
       /\ \A i \in 1 .. Len(call.column) :
            call.column[i] = 1 /\ i \notin writing => kept[Sequential!SumTo(i)] = i

LEMMA OnlyFiltersInvariant ==
  Spec => []OnlyFilters
<1>1. Begin => OnlyFilters
  BY DEF Begin, OnlyFilters
<1>2. ASSUME OnlyFilters, [Next]_allVars PROVE OnlyFilters'
  <2>1. call' = call
    BY <1>2, CallStays
  <2>2. stage' = "compact" => stage = "compact" \/ call.op = "compact"
    BY <1>2 DEF Next, Scan, HandBack, StartCompact, CompactRow, FinishCompact,
                CompactError, RaiseScanError, FallBack, Returned, allVars
  <2> QED BY <1>2, <2>1, <2>2 DEF OnlyFilters
<1> QED BY <1>1, <1>2, PTL DEF Spec

\* What pandas answers depends on the call alone.
LEMMA SameExpected ==
  ASSUME UNCHANGED call
  PROVE  /\ Sequential!Expected' = Sequential!Expected
         /\ \A i : Sequential!SumTo(i)' = Sequential!SumTo(i)
<1>1. \A i : Sequential!SumTo(i)' = Sequential!SumTo(i)
  BY DEF Sequential!SumTo
<1>2. \A i : Sequential!KeptTo(i)' = Sequential!KeptTo(i)
  BY DEF Sequential!KeptTo
<1>4. \A I : /\ Sequential!LeastOf(I)' = Sequential!LeastOf(I)
             /\ Sequential!GreatestOf(I)' = Sequential!GreatestOf(I)
  BY DEF Sequential!LeastOf, Sequential!GreatestOf
<1>5. \A I : /\ Sequential!LastValid(I)' = Sequential!LastValid(I)
             /\ Sequential!FirstValid(I)' = Sequential!FirstValid(I)
  BY DEF Sequential!Valid, Sequential!LastValid, Sequential!FirstValid
<1>6. Sequential!Rows' = Sequential!Rows
  BY DEF Sequential!Rows
<1>7. Sequential!Expected' = Sequential!Expected
  BY <1>1, <1>2, <1>4, <1>5, <1>6 DEF Sequential!Expected
<1> QED BY <1>1, <1>7

\* A step of the caller that neither starts nor ends the second kernel.
LEMMA StageKeepsAnswer ==
  ASSUME AnswerInv, UNCHANGED <<call, writing, kept>>,
         stage' = "compact" => stage = "compact" /\ phase' = phase,
         stage' \in {"scan", "compact", "pandas", "answered"},
         stage' # "answered" => stage # "answered" /\ answer' = answer,
         stage' = "answered" => answer' = <<Sequential!Expected>> \/ (stage = "answered" /\ answer' = answer)
  PROVE  AnswerInv'
<1>1. Sequential!Expected' = Sequential!Expected
      /\ \A i : Sequential!SumTo(i)' = Sequential!SumTo(i)
  BY SameExpected
<1>2. (stage # "answered" => answer = NoAnswer)'
  BY DEF AnswerInv, NoAnswer
<1>3. (stage = "answered" => answer = <<Sequential!Expected>>)'
  BY <1>1 DEF AnswerInv
<1>4. stage' = "compact" =>
        /\ phase' = "scanned" /\ call'.column # << >>
        /\ writing' \subseteq 1 .. Len(call'.column)
        /\ kept' \in [1 .. Sequential!SumTo(Len(call.column))' -> Nat]
        /\ \A i \in 1 .. Len(call'.column) :
             call'.column[i] = 1 /\ i \notin writing' => kept'[Sequential!SumTo(i)'] = i
  BY <1>1 DEF AnswerInv
<1> QED BY <1>1, <1>2, <1>3, <1>4 DEF AnswerInv

LEMMA HandBackAnswers ==
  ASSUME IInv, FoldInv, SumsFit, AnswerInv, HandBack
  PROVE  AnswerInv'
<1>1. /\ stage = "scan" /\ phase = "scanned" /\ stage' = "answered"
      /\ call.op # "compact" \/ call.column = << >>
      /\ answer' = <<scanned>> /\ UNCHANGED <<call, writing, kept>>
  BY DEF HandBack, vars
<1>2. call \in Calls /\ scanned \in Seq(Values) /\ IsFolded(Op, call.column, scanned)
  BY <1>1 DEF IInv, ScanTypeOK, FoldInv
<1>3. CASE call.op # "compact"
  <2>1. scanned = Sequential!Expected
    BY <1>2, <1>3, FoldedIsExpected
  <2> QED BY <1>1, <2>1, StageKeepsAnswer
<1>4. CASE call.op = "compact" /\ call.column = << >>
  <2>1. Len(call.column) = 0 /\ Len(scanned) = 0
    BY <1>2, <1>4 DEF IsFolded
  <2>2. scanned = << >>
    BY <1>2, <2>1
  <2>3. Sequential!Expected = Sequential!KeptTo(0)
    BY <1>4, <2>1 DEF Sequential!Expected
  <2>4. Sequential!KeptTo(0) = << >>
    <3>1. call.column \in Seq(Nat)
      BY <1>4
    <3> QED BY <3>1, KeptToSteps
  <2> QED BY <1>1, <2>2, <2>3, <2>4, StageKeepsAnswer
<1> QED BY <1>1, <1>3, <1>4

LEMMA StartCompactAnswers ==
  ASSUME IInv, FoldInv, AnswerInv, StartCompact
  PROVE  AnswerInv'
<1> DEFINE n == Len(call.column)
<1>1. /\ stage = "scan" /\ phase = "scanned" /\ stage' = "compact"
      /\ call.op = "compact" /\ call.column # << >>
      /\ kept' = [i \in 1 .. scanned[Len(scanned)] |-> 0]
      /\ writing' = DOMAIN call.column
      /\ UNCHANGED <<call, phase, answer>>
  BY DEF StartCompact, vars
<1>2. call \in Calls /\ IsFolded(Op, call.column, scanned)
  BY <1>1 DEF IInv, ScanTypeOK, FoldInv
<1>3. Len(scanned) = n /\ n \in Nat /\ call.column \in Seq({0, 1})
      /\ \A k \in 1 .. n : scanned[k] = Sequential!SumTo(k)
  BY <1>1, <1>2, PlaceIsCount, CountFacts
<1>4. n \in 1 .. n /\ DOMAIN call.column = 1 .. n
  BY <1>1, <1>3
<1>5. kept' \in [1 .. Sequential!SumTo(n) -> Nat]
  <2>1. kept' = [i \in 1 .. Sequential!SumTo(n) |-> 0]
    BY <1>1, <1>3, <1>4
  <2> QED BY <2>1
<1>6. \A i : Sequential!SumTo(i)' = Sequential!SumTo(i)
  BY <1>1, SameExpected
<1>7. n' = n
  BY <1>1
<1> QED BY <1>1, <1>4, <1>5, <1>6, <1>7 DEF AnswerInv, NoAnswer

LEMMA CompactRowAnswers ==
  ASSUME IInv, FoldInv, AnswerInv, OnlyFilters, NEW i \in writing, CompactRow(i)
  PROVE  AnswerInv'
<1> DEFINE n == Len(call.column)
           C(k) == Sequential!SumTo(k)
<1>1. /\ stage = "compact" /\ stage' = stage /\ UNCHANGED <<call, phase, scanned, answer>>
      /\ kept' = [c \in DOMAIN kept |->
                    IF call.column[i] = 1 /\ c = Place(i) THEN i ELSE kept[c]]
      /\ writing' = writing \ {i}
  BY DEF CompactRow, vars
<1>2. /\ call.op = "compact" /\ phase = "scanned" /\ call.column # << >>
      /\ i \in 1 .. n /\ writing \subseteq 1 .. n
      /\ kept \in [1 .. C(n) -> Nat]
      /\ \A j \in 1 .. n : call.column[j] = 1 /\ j \notin writing => kept[C(j)] = j
  BY <1>1 DEF AnswerInv, OnlyFilters
<1>3. call \in Calls /\ IsFolded(Op, call.column, scanned)
  BY <1>2 DEF IInv, ScanTypeOK, FoldInv
<1>4. Place(i) = C(i) /\ n \in Nat
  BY <1>2, <1>3, PlaceIsCount, CountFacts DEF Place
<1>5. \A j \in 1 .. n : call.column[j] = 1 =>
        /\ C(j) \in 1 .. C(n)
        /\ \A k \in 1 .. n : call.column[k] = 1 /\ C(k) = C(j) => k = j
  BY <1>2, <1>3, PlacesDiffer
<1>6. \A k : C(k)' = C(k)
  BY <1>1, SameExpected
<1> HIDE DEF C
<1>7. kept' \in [1 .. C(n) -> Nat]
  <2>1. i \in Nat
    BY <1>2
  <2> QED BY <1>1, <1>2, <2>1
<1>8. ASSUME NEW j \in 1 .. n, call.column[j] = 1, j \notin writing'
      PROVE  kept'[C(j)] = j
  <2>1. C(j) \in DOMAIN kept
    BY <1>2, <1>5, <1>8
  <2>2. CASE j = i
    BY <1>1, <1>4, <1>8, <2>1, <2>2
  <2>3. CASE j # i
    <3>1. j \notin writing /\ kept[C(j)] = j
      BY <1>1, <1>2, <1>8, <2>3
    <3>2. ~(call.column[i] = 1 /\ C(j) = Place(i))
      BY <1>2, <1>4, <1>5, <1>8, <2>3
    <3> QED BY <1>1, <2>1, <3>1, <3>2
  <2> QED BY <2>2, <2>3
<1>9. writing' \subseteq 1 .. n
  BY <1>1, <1>2
<1> QED BY <1>1, <1>2, <1>6, <1>7, <1>8, <1>9 DEF AnswerInv, NoAnswer, C

LEMMA FinishCompactAnswers ==
  ASSUME IInv, FoldInv, AnswerInv, OnlyFilters, FinishCompact
  PROVE  AnswerInv'
<1>1. /\ stage = "compact" /\ writing = {} /\ stage' = "answered"
      /\ answer' = <<kept>> /\ UNCHANGED <<call, writing, kept>>
  BY DEF FinishCompact, vars
<1>2. /\ call.op = "compact" /\ call \in Calls
      /\ kept \in [1 .. Sequential!SumTo(Len(call.column)) -> Nat]
      /\ \A i \in 1 .. Len(call.column) :
           call.column[i] = 1 => kept[Sequential!SumTo(i)] = i
  BY <1>1 DEF AnswerInv, OnlyFilters, IInv, ScanTypeOK
<1>3. kept = Sequential!Expected
  BY <1>2, KeptIsExpected
<1> QED BY <1>1, <1>3, StageKeepsAnswer

LEMMA NextAnswers ==
  ASSUME IInv, FoldInv, SumsFit, AnswerInv, OnlyFilters, [Next]_allVars
  PROVE  AnswerInv'
<1>1. CASE Scan
  <2>1. call' = call
    BY CallStays
  <2> QED BY <1>1, <2>1, StageKeepsAnswer DEF Scan
<1>2. CASE HandBack
  BY <1>2, HandBackAnswers
<1>3. CASE StartCompact
  BY <1>3, StartCompactAnswers
<1>4. ASSUME NEW i \in writing, CompactRow(i) PROVE AnswerInv'
  BY <1>4, CompactRowAnswers
<1>5. CASE FinishCompact
  BY <1>5, FinishCompactAnswers
<1>6. CASE CompactError
  BY <1>6, StageKeepsAnswer DEF CompactError, vars
<1>7. CASE RaiseScanError
  BY <1>7, StageKeepsAnswer DEF RaiseScanError, vars
<1>8. CASE FallBack
  BY <1>8, StageKeepsAnswer DEF FallBack, vars
<1>9. CASE UNCHANGED allVars
  BY <1>9, StageKeepsAnswer DEF AnswerInv, allVars, vars
<1>10. CASE Returned
  BY <1>9, <1>10 DEF Returned
<1> QED BY <1>1, <1>2, <1>3, <1>4, <1>5, <1>6, <1>7, <1>8, <1>9, <1>10 DEF Next

\* The call is one that the device and pandas answer alike: no backward fill of
\* several threadgroups, and no sum of narrow integers that leaves their width.
Alike == Forward /\ SumsFit

LEMMA AlikeStays ==
  ASSUME [Next]_allVars
  PROVE  Alike' <=> Alike
<1>1. call' = call
  BY CallStays
<1>2. \A i : Sequential!SumTo(i)' = Sequential!SumTo(i)
  BY <1>1, SameExpected
<1>3. Forward' <=> Forward
  BY <1>1 DEF Forward, Op, GroupsFor, Size
<1>4. SumsFit' <=> SumsFit
  BY <1>1, <1>2 DEF SumsFit
<1> QED BY <1>3, <1>4 DEF Alike

LEMMA AnswersInvariant ==
  Spec => [](Alike => AnswerInv)
<1>1. Begin => AnswerInv
  BY DEF Begin, AnswerInv, NoAnswer
<1>2. ASSUME IInv, Forward => FoldInv, Alike => AnswerInv, OnlyFilters, [Next]_allVars
      PROVE  (Alike => AnswerInv)'
  <2>1. Alike' <=> Alike
    BY <1>2, AlikeStays
  <2> QED BY <1>2, <2>1, NextAnswers DEF Alike
<1> QED BY <1>1, <1>2, Invariance, FoldsInvariant, OnlyFiltersInvariant, PTL DEF Spec

\* The threads of the compact kernel write inside the buffer that the last prefix
\* has sized, and no two of them the same cell, for every mask and every order.
THEOREM PlacesAlwaysApart ==
  Spec => []PlacesApart
<1>1. ASSUME IInv, Forward => FoldInv, Alike => AnswerInv, OnlyFilters
      PROVE  PlacesApart
  <2> SUFFICES ASSUME stage = "compact" PROVE PlacesApart
    BY DEF PlacesApart
  <2> DEFINE n == Len(call.column)
             C(k) == Sequential!SumTo(k)
  <2>1. call \in Calls /\ call.op = "compact"
    BY <1>1 DEF OnlyFilters, IInv, ScanTypeOK
  <2>2. Forward /\ Alike
    BY <2>1 DEF Forward, Op, SumsFit, Alike
  <2>3. phase = "scanned" /\ kept \in [1 .. C(n) -> Nat]
    BY <1>1, <2>2 DEF AnswerInv
  <2>4. IsFolded(Op, call.column, scanned)
    BY <1>1, <2>2, <2>3 DEF FoldInv
  <2>5. DOMAIN call.column = 1 .. n
    BY <2>1, CountFacts
  <2>6. \A k \in 1 .. n : Place(k) = C(k)
    BY <2>1, <2>4, PlaceIsCount DEF Place
  <2>7. \A j \in 1 .. n : call.column[j] = 1 =>
          /\ C(j) \in 1 .. C(n)
          /\ \A k \in 1 .. n : call.column[k] = 1 /\ C(k) = C(j) => k = j
    BY <2>1, PlacesDiffer
  <2>8. DOMAIN kept = 1 .. C(n)
    BY <2>3
  <2> HIDE DEF C, n
  <2> QED BY <2>5, <2>6, <2>7, <2>8 DEF PlacesApart
<1>2. IInv /\ (Forward => FoldInv) /\ (Alike => AnswerInv) /\ OnlyFilters => PlacesApart
  BY <1>1
<1> QED BY <1>2, Invariance, FoldsInvariant, AnswersInvariant, OnlyFiltersInvariant, PTL

\* Every call is answered at most once, and with what pandas computes one cell
\* after the other: sums, minima, maxima, fills and the filter, for every column,
\* group width and interleaving, whether or not the device fails.  pandas adds
\* narrow integers up in 64 bits; the kernels add them in their own width, so
\* of those only sums that fit it are answered alike.  This is the safety part
\* of ScanIsCorrect.
THEOREM ScanImplementsSequential ==
  Spec /\ Alike => Sequential!Init /\ [][Sequential!Answer]_(Sequential!vars)
<1>1. Begin => Sequential!Init
  BY DEF Begin, Sequential!Init, NoAnswer, Sequential!NoAnswer
<1>2. ASSUME AnswerInv, AnswerInv', [Next]_allVars
      PROVE  [Sequential!Answer]_(Sequential!vars)
  <2>1. call' = call
    BY <1>2, CallStays
  <2>2. Sequential!Expected' = Sequential!Expected
    BY <2>1, SameExpected
  <2>3. CASE stage' = "answered" /\ stage # "answered"
    BY <1>2, <2>1, <2>2, <2>3
       DEF AnswerInv, Sequential!Answer, NoAnswer, Sequential!NoAnswer
  <2>4. CASE stage' # "answered" /\ stage # "answered"
    BY <1>2, <2>1, <2>4 DEF AnswerInv, Sequential!vars, NoAnswer
  <2>5. CASE stage = "answered"
    <3>1. UNCHANGED allVars
      BY <1>2, <2>5 DEF Next, Scan, HandBack, StartCompact, CompactRow, FinishCompact,
                        CompactError, RaiseScanError, FallBack, Returned, AnswerInv
    <3> QED BY <3>1 DEF allVars, vars, Sequential!vars
  <2> QED BY <2>3, <2>4, <2>5
<1>3. ASSUME Alike, [Next]_allVars PROVE Alike'
  BY <1>3, AlikeStays
<1> QED BY <1>1, <1>2, <1>3, AnswersInvariant, PTL DEF Spec
=============================================================================
