----------------------------- MODULE PrefixScan -----------------------------
(***************************************************************************)
(* cumulative_scan and fill_scan_dispatch: the two-pass inclusive scan on  *)
(* the device.  Pass 1 cuts the column into threadgroups; the threads of a *)
(* group scan its cells in threadgroup memory (Hillis-Steele, a barrier    *)
(* between any two intervals) and publish the group's total.  The totals   *)
(* are scanned by the same function, recursively, and pass 2 combines each *)
(* group's cells with what the groups before it came to.                   *)
(*                                                                         *)
(* The levels of the recursion are a stack, the innermost one on top.      *)
(* Threads interleave at every interval between two barriers; in such an   *)
(* interval a thread reads or writes threadgroup memory once.              *)
(***************************************************************************)
EXTENDS Integers, Sequences, FiniteSets

CONSTANTS
  Calls,        \* calls: [op, column, size, acc], size the width of a threadgroup,
                \* acc that of pandas' sums
  NaN,          \* the missing value, a number that is no value
  Word,         \* values are 0 .. Word - 1, and sums are taken modulo Word
  DeviceFails   \* TRUE: a command buffer may end in an error

VARIABLES
  call,     \* the call that runs
  phase,    \* "start", "scan", "propagate", "scanned" or "failed"
  levels,   \* the stack of [input, output, partials]
  at,       \* at[t]: intervals thread t has completed in the current kernel
  shared,   \* shared[t]: the cell of thread t in its threadgroup's memory
  reg,      \* reg[t]: its variable val
  scanned   \* what the innermost call that has returned gave back

vars == <<call, phase, levels, at, shared, reg, scanned>>

Values == (0 .. Word - 1) \cup {NaN}

Filling == {"ffill", "bfill"}

ASSUME ScanAssumption ==
  /\ Word \in Nat \ {0}
  /\ NaN \in Int /\ NaN \notin 0 .. Word - 1
  /\ \A c \in Calls :
       /\ c.op \in {"sum", "min", "max", "ffill", "bfill", "compact"}
       /\ c.column \in Seq(Values)
       /\ c.size \in Nat \ {0, 1}
       /\ c.acc \in Nat /\ Word <= c.acc
       \* _dispatch_cumulative leaves columns with NaN to pandas
       /\ c.op \notin Filling => c.column \in Seq(0 .. Word - 1)
       \* a mask is of booleans, and its kernels count its rows in a word
       /\ c.op = "compact" =>
            c.column \in Seq({0, 1}) /\ Len(c.column) < Word
  /\ DeviceFails \in BOOLEAN

-----------------------------------------------------------------------------
(* Operations *)

\* metal_compact scans its mask with the sum kernels.
Op == IF call.op = "compact" THEN "sum" ELSE call.op

\* Op::identity, and NAN for the two fills.
Identity ==
  CASE Op \in {"sum", "max"} -> 0
    [] Op = "min" -> Word - 1
    [] Op \in Filling -> NaN

\* Mutant: the sum does not wrap around.
PlusUnbounded(x, y) == x + y

Plus(x, y) == (x + y) % Word

\* Op::apply(x, y), x from the left of y.
Combine(x, y) ==
  CASE Op = "sum" -> Plus(x, y)
    [] Op = "min" -> IF x < y THEN x ELSE y
    [] Op = "max" -> IF x > y THEN x ELSE y
    [] Op \in Filling -> IF y = NaN THEN x ELSE y

-----------------------------------------------------------------------------
(* Threads *)

Top == levels[Len(levels)]

Size == call.size

GroupsFor(length) == (length + Size - 1) \div Size

NumGroups == GroupsFor(Len(Top.input))

\* A thread is <<group_id, tid>>.
ThreadsFor(length) == (0 .. GroupsFor(length) - 1) \X (0 .. Size - 1)

Threads == ThreadsFor(Len(Top.input))

\* The thread's cell, counted from 1; those of the last group may lie behind
\* the column.
Base(t) == t[1] * Size + t[2] + 1

InColumn(t) == Base(t) <= Len(Top.input)

\* The bfill kernels mirror every index.
Index(i) == IF Op = "bfill" THEN Len(Top.input) + 1 - i ELSE i

\* Rounds of for (offset = 1; offset < group_size; offset *= 2).
Rounds == Cardinality({r \in 0 .. Size - 1 : 2 ^ r < Size})

\* A thread loads, reads and writes once a round, and publishes.
Publishing == 2 * Rounds + 1

Offset(t) == 2 ^ ((at[t] - 1) \div 2)

\* Mutant: the barrier between reading and writing is left out.
BarrierBeforeReadsOnly(t) ==
  at[t] % 2 = 1 => \A i \in 0 .. Size - 1 : at[t] <= at[<<t[1], i>>]

\* threadgroup_barrier: a thread goes on when its group has come as far.
Barrier(t) == \A i \in 0 .. Size - 1 : at[t] <= at[<<t[1], i>>]

Advance(t) == at' = [at EXCEPT ![t] = @ + 1]

-----------------------------------------------------------------------------
(* Pass 1 *)

Init ==
  /\ call \in Calls
  /\ phase = "start"
  /\ levels = << >>
  /\ at = << >> /\ shared = << >> /\ reg = << >>
  /\ scanned = << >>

\* The call allocates its buffers and dispatches pass 1.
Launch(input) ==
  /\ phase' = "scan"
  /\ levels' = Append(levels,
       [input |-> input,
        output |-> [i \in DOMAIN input |-> 0],
        partials |-> [g \in 1 .. GroupsFor(Len(input)) |-> 0]])
  /\ at' = [t \in ThreadsFor(Len(input)) |-> 0]
  /\ shared' = [t \in ThreadsFor(Len(input)) |-> 0]
  /\ reg' = [t \in ThreadsFor(Len(input)) |-> 0]

Start ==
  /\ phase = "start"
  /\ call.column # << >>
  /\ Launch(call.column)
  /\ UNCHANGED <<call, scanned>>

\* An empty column is answered without the device.
NothingToScan ==
  /\ phase = "start"
  /\ call.column = << >>
  /\ phase' = "scanned"
  /\ UNCHANGED <<call, levels, at, shared, reg, scanned>>

LoadCell(t) ==
  /\ phase = "scan" /\ at[t] = 0
  /\ shared' = [shared EXCEPT ![t] =
                  IF InColumn(t) THEN Top.input[Index(Base(t))] ELSE Identity]
  /\ Advance(t)
  /\ UNCHANGED <<call, phase, levels, reg, scanned>>

\* val = Op::apply(shared[tid - offset], shared[tid])
ReadCells(t) ==
  /\ phase = "scan" /\ at[t] < Publishing /\ at[t] % 2 = 1
  /\ Barrier(t)
  /\ reg' = [reg EXCEPT ![t] =
               IF t[2] >= Offset(t)
                 THEN Combine(shared[<<t[1], t[2] - Offset(t)>>], shared[t])
                 ELSE shared[t]]
  /\ Advance(t)
  /\ UNCHANGED <<call, phase, levels, shared, scanned>>

WriteCell(t) ==
  /\ phase = "scan" /\ 0 < at[t] /\ at[t] % 2 = 0 /\ at[t] < Publishing
  /\ Barrier(t)
  /\ shared' = [shared EXCEPT ![t] = reg[t]]
  /\ Advance(t)
  /\ UNCHANGED <<call, phase, levels, reg, scanned>>

\* The thread stores its cell, and the last one of a group its total.
Publish(t) ==
  /\ phase = "scan" /\ at[t] = Publishing
  /\ Barrier(t)
  /\ levels' = [levels EXCEPT ![Len(levels)] =
       [input |-> Top.input,
        output |-> [i \in DOMAIN Top.input |->
                      IF InColumn(t) /\ i = Index(Base(t)) THEN shared[t]
                      ELSE Top.output[i]],
        partials |-> [g \in DOMAIN Top.partials |->
                        IF g = t[1] + 1 /\ t[2] = Size - 1 THEN shared[t]
                        ELSE Top.partials[g]]]]
  /\ Advance(t)
  /\ UNCHANGED <<call, phase, shared, reg, scanned>>

-----------------------------------------------------------------------------
(* Pass 2, and the host between the passes *)

Pass1Done == phase = "scan" /\ \A t \in Threads : at[t] = Publishing + 1

\* The partials are scanned by a call of its own.
Recurse ==
  /\ Pass1Done
  /\ NumGroups > 1
  /\ Launch(Top.partials)
  /\ UNCHANGED <<call, scanned>>

\* Mutant: pass 2 takes the prefix that ends with the group itself.
OwnGroup(t) == t[1] + 1

\* partials[group_id - 1], counted from 1.
Predecessor(t) == t[1]

\* Group 0 has no predecessor, and its threads return at once.
MayPropagate(t) == t[1] > 0 /\ InColumn(t)

Propagate(t) ==
  /\ phase = "propagate" /\ at[t] = 0
  /\ MayPropagate(t)
  /\ levels' = [levels EXCEPT ![Len(levels)] =
       [input |-> Top.input,
        output |-> [i \in DOMAIN Top.input |->
                      IF i = Index(Base(t))
                        THEN Combine(scanned[Predecessor(t)], Top.output[i])
                        ELSE Top.output[i]],
        partials |-> Top.partials]]
  /\ Advance(t)
  /\ UNCHANGED <<call, phase, shared, reg, scanned>>

Pass2Done ==
  phase = "propagate" /\ \A t \in Threads : MayPropagate(t) => at[t] = 1

Result == Top.output

\* The current call returns: to the one that scans the next larger buffer,
\* which then dispatches pass 2, or to the caller.
Return ==
  /\ (Pass1Done /\ NumGroups = 1) \/ Pass2Done
  /\ scanned' = Result
  /\ levels' = SubSeq(levels, 1, Len(levels) - 1)
  /\ IF Len(levels) = 1
       THEN phase' = "scanned" /\ UNCHANGED at
       ELSE /\ phase' = "propagate"
            /\ at' = [t \in ThreadsFor(Len(levels[Len(levels) - 1].input)) |-> 0]
  /\ UNCHANGED <<call, shared, reg>>

\* A command buffer reports an error: all calls raise.
ScanError ==
  /\ DeviceFails
  /\ phase \in {"scan", "propagate"}
  /\ phase' = "failed"
  /\ UNCHANGED <<call, levels, at, shared, reg, scanned>>

ScanStep ==
  \/ Start \/ NothingToScan \/ Recurse \/ Return
  \/ /\ phase \in {"scan", "propagate"}
     /\ \E t \in Threads :
          LoadCell(t) \/ ReadCells(t) \/ WriteCell(t) \/ Publish(t) \/ Propagate(t)

ScanNext == ScanStep \/ ScanError

ScanSpec == Init /\ [][ScanNext]_vars

-----------------------------------------------------------------------------
(* Properties *)

Level == [input : Seq(Values), output : Seq(Values), partials : Seq(Values)]

\* Types of the stack, of the threads' states and of threadgroup memory.
ScanTypeOK ==
  /\ call \in Calls
  /\ phase \in {"start", "scan", "propagate", "scanned", "failed"}
  /\ levels \in Seq(Level)
  /\ scanned \in Seq(Values)
  /\ phase \in {"scan", "propagate"} =>
       /\ levels # << >>
       /\ at \in [Threads -> 0 .. Publishing + 1]
  /\ phase = "scan" =>
       shared \in [Threads -> Values] /\ reg \in [Threads -> Values]

\* No thread of a group is more than one interval ahead of another.  So when
\* one writes its cell, no slower thread still has to read it in the interval
\* before: two barriers a round suffice, for every width of a group.
Lockstep ==
  phase = "scan" =>
    \A t, u \in Threads : t[1] = u[1] => at[t] <= at[u] + 1

\* Pass 2 finds a prefix for every group: the recursion gave back as many as
\* there are groups.
OnePrefixPerGroup ==
  phase = "propagate" => Len(scanned) = NumGroups

\* The cells i .. j of the current input, combined from left to right.
Folded(i, j) ==
  LET cell(k) == IF k <= Len(Top.input) THEN Top.input[Index(k)] ELSE Identity
      f[n \in Nat] == IF n = 0 THEN cell(i) ELSE Combine(f[n - 1], cell(i + n))
  IN  f[j - i]

\* When pass 2 is dispatched, the g-th prefix it hands out is the combination
\* of everything in groups 1 .. g, whatever the depth of the recursion.
PrefixesFolded ==
  phase = "propagate" =>
    \A g \in 1 .. Len(scanned) - 1 : scanned[g] = Folded(1, g * Size)
=============================================================================
