------------------------ MODULE TreeReduction_proofs ------------------------
(***************************************************************************)
(* The cache of pipelines keeps to the mode that is on; and the grid of    *)
(* every pass fits the kernels it runs, for every length of a column and   *)
(* every tuning, on a machine whose precompiled kernels, if there are any, *)
(* were compiled for GPUs like its own.  The buffers between the passes,   *)
(* and the threads between the rounds, then keep the total of the column,  *)
(* and every answer is the one of pandas.                                  *)
(***************************************************************************)
EXTENDS TreeReduction, CommonLemmas

\* The machines on which a binary has the tuning the host computes with.
MatchingBinaries ==
  \A m \in Machines : m.metallib = "loads" => m.family \notin NewerFamilies

\* Buffers have cells 0, 1 and so on.
Indexed(buffer) == \E n \in Nat : DOMAIN buffer = 0 .. n - 1

KernelsMatch ==
  /\ machine \in Machines
  /\ \A k \in DOMAIN pipelines : pipelines[k].reads = GpuTuning.reads

PassMatches ==
  stage \in {"pass", "rounds"} =>
    builds.first.reads = GpuTuning.reads /\ builds.later.reads = GpuTuning.reads

BuffersIndexed ==
  /\ stage = "begin" => call \in Requests
  /\ stage = "pass" => Indexed(src)
  /\ stage = "rounds" => Indexed(totals)

IInv == KernelsMatch /\ PassMatches /\ BuffersIndexed

-----------------------------------------------------------------------------
(* The grid and the kernel *)

\* What the tuning of a GPU is made of.
LEMMA TuningType ==
  /\ GpuTuning.threads \in Nat \ {0} /\ GpuTuning.reads \in Nat \ {0}
  /\ elements_per_reduce_group \in Nat \ {0}
<1>1. GpuTuning \in {AppleTuning, OlderTuning}
  BY DEF GpuTuning
<1>2. GpuTuning.threads \in Nat \ {0} /\ GpuTuning.reads \in Nat \ {0}
  BY <1>1, TuningAssumption
<1>3. GpuTuning.threads * GpuTuning.reads \in Nat \ {0}
  BY <1>2
<1> QED BY <1>2, <1>3 DEF elements_per_reduce_group

\* The length of an indexed buffer.
LEMMA LengthOfIndexed ==
  ASSUME NEW n \in Nat, NEW buffer, DOMAIN buffer = 0 .. n - 1
  PROVE  Length(buffer) = n
<1>1. Cardinality(0 .. n - 1) = IF 0 > n - 1 THEN 0 ELSE n - 1 - 0 + 1
  BY FS_Interval
<1> QED BY <1>1 DEF Length

\* In a pass whose kernel reads as many elements as the host counts with, every
\* element has its slot.
LEMMA SlotOfElement ==
  ASSUME Build.reads = GpuTuning.reads, NEW n \in Nat, NEW e \in 0 .. n - 1
  PROVE  \E s \in Slots(n) : \A r \in Slots(n) : Element(r[1], r[2], r[3]) = e <=> r = s
<1> DEFINE T == GpuTuning.threads
           R == GpuTuning.reads
           E == T * R
           g == e \div E
           b == e % E
           i == b \div T
           t == b % T
           m == num_threadgroups(n)
<1>1. T \in Nat \ {0} /\ R \in Nat \ {0}
  BY TuningType
<1>2. /\ E \in Nat \ {0}
      /\ \A u \in 0 .. T - 1, j \in 0 .. R - 1 : j * T + u \in 0 .. E - 1
      /\ \A c \in 0 .. E - 1 : c \div T \in 0 .. R - 1
  <2> HIDE DEF T, R
  <2> QED BY <1>1, BlockIndex
<1>3. g \in Nat /\ b \in 0 .. E - 1 /\ e = g * E + b
  <2> HIDE DEF E
  <2>1. e \in Nat
    OBVIOUS
  <2> QED BY <2>1, <1>2, DivMod
<1>4. i \in 0 .. R - 1 /\ t \in 0 .. T - 1 /\ b = i * T + t
  <2> HIDE DEF T, E, b
  <2>1. b \in Nat
    BY <1>2, <1>3
  <2>2. i \in 0 .. R - 1
    BY <1>2, <1>3
  <2> QED BY <2>1, <2>2, <1>1, DivMod
<1>5. g \in 0 .. m - 1
  <2>1. m = (n + E - 1) \div E
    BY DEF num_threadgroups, elements_per_reduce_group
  <2> HIDE DEF E, m
  <2> QED BY <2>1, <1>2, CeilingCovers
<1>6. Slots(n) = (0 .. m - 1) \X (0 .. T - 1) \X (0 .. R - 1)
  BY DEF Slots, Threads
<1>7. <<g, t, i>> \in Slots(n)
  <2> HIDE DEF g, t, i, m, T, R
  <2> QED BY <1>4, <1>5, <1>6
<1>8. ASSUME NEW h \in Nat, NEW u \in 0 .. T - 1, NEW j \in 0 .. R - 1
      PROVE  Element(h, u, j) = h * E + (j * T + u)
  <2>1. Element(h, u, j) = h * T * R + u + j * T
    BY DEF Element
  <2> DEFINE x == h * T * R
             y == j * T
  <2>2. x = h * E
    <3> HIDE DEF T, R
    <3> QED BY <1>1
  <2>3. x \in Nat /\ y \in Nat /\ u \in Nat
    <3> HIDE DEF T, R
    <3> QED BY <1>1
  <2>4. Element(h, u, j) = x + u + y
    BY <2>1
  <2> HIDE DEF x, y
  <2>5. x + u + y = x + (y + u)
    BY <2>3
  <2> QED BY <2>4, <2>5, <2>2 DEF y
<1>9. ASSUME NEW h \in 0 .. m - 1, NEW u \in 0 .. T - 1, NEW j \in 0 .. R - 1
      PROVE  Element(h, u, j) = e <=> (h = g /\ u = t /\ j = i)
  <2>1. h \in Nat
    <3> HIDE DEF m
    <3> QED OBVIOUS
  <2>2. Element(h, u, j) = h * E + (j * T + u)
    BY <2>1, <1>8
  <2>3. j * T + u \in 0 .. E - 1
    BY <1>2
  <2>4. ASSUME h * E + (j * T + u) = g * E + b
        PROVE  h = g /\ u = t /\ j = i
    <3> DEFINE c == j * T + u
    <3>1. h = g /\ c = b
      <4>1. h * E + c = g * E + b /\ c \in 0 .. E - 1
        BY <2>4, <2>3
      <4> HIDE DEF E, g, b, c
      <4> QED BY <4>1, <2>1, <1>2, <1>3, DivUnique
    <3>2. j * T + u = i * T + t
      <4> HIDE DEF b, i, t, g, E, T
      <4> QED BY <3>1, <1>4 DEF c
    <3>3. j = i /\ u = t
      <4>1. j \in Nat /\ i \in Nat
        <5> HIDE DEF R, i
        <5> QED BY <1>1, <1>4
      <4> HIDE DEF T, i, t
      <4> QED BY <3>2, <4>1, <1>1, <1>4, DivUnique
    <3> QED BY <3>1, <3>3
  <2>5. ASSUME h = g, u = t, j = i
        PROVE  h * E + (j * T + u) = e
    <3> HIDE DEF E, T, g, b, i, t
    <3> QED BY <2>5, <1>3, <1>4
  <2> HIDE DEF E, T, R, g, b, i, t, m
  <2> QED BY <2>2, <2>4, <2>5, <1>3
<1>10. ASSUME NEW r \in Slots(n)
       PROVE  Element(r[1], r[2], r[3]) = e <=> r = <<g, t, i>>
  <2> HIDE DEF E, T, R, g, b, i, t, m
  <2>1. /\ r[1] \in 0 .. m - 1 /\ r[2] \in 0 .. T - 1 /\ r[3] \in 0 .. R - 1
        /\ r = <<r[1], r[2], r[3]>>
    BY <1>6
  <2>2. Element(r[1], r[2], r[3]) = e <=> (r[1] = g /\ r[2] = t /\ r[3] = i)
    BY <2>1, <1>9
  <2> QED BY <2>1, <2>2
<1> HIDE DEF g, t, i
<1> QED BY <1>7, <1>10

-----------------------------------------------------------------------------
(* The cache of pipelines *)

ModeInv == debug \in BOOLEAN /\ PipelinesFollowDebug

\* Turning debug mode on and off, in any order with calls, leaves no pipeline of
\* the other mode in the cache.
THEOREM PipelinesOfTheMode ==
  Spec => []PipelinesFollowDebug
<1>1. Init => ModeInv
  <2>1. Init => debug = FALSE /\ pipelines = << >>
    BY DEF Init, InitLibrary
  <2>2. DOMAIN << >> = {}
    OBVIOUS
  <2>3. pipelines = << >> => PipelinesFollowDebug
    BY <2>2 DEF PipelinesFollowDebug
  <2> QED BY <2>1, <2>3 DEF ModeInv
<1>2. ModeInv /\ [Next]_vars => ModeInv'
  <2> SUFFICES ASSUME ModeInv, [Next]_vars
               PROVE  ModeInv'
    OBVIOUS
  <2>1. CASE UNCHANGED libraryVars
    BY <2>1 DEF libraryVars, ModeInv, PipelinesFollowDebug
  <2>2. CASE SetDebug
    BY <2>2 DEF SetDebug, set_debug_enabled, ClearPipelines, ModeInv, PipelinesFollowDebug
  <2>3. CASE SetUp
    <3>1. UNCHANGED debug
      BY <2>3 DEF SetUp
    <3>2. pipelines' = [k \in DOMAIN pipelines \cup {FirstKernel(call), LaterKernel(call)}
                          |-> BuildOf(k)]
      BY <2>3 DEF SetUp, GetPipelines
    <3>3. ASSUME NEW k PROVE BuildOf(k).debug = debug
      <4>1. CASE k \in DOMAIN pipelines
        BY <4>1 DEF BuildOf, ModeInv, PipelinesFollowDebug
      <4>2. CASE k \notin DOMAIN pipelines
        BY <4>2 DEF BuildOf, LoadedBuild, Precompiled, ModeInv
      <4> QED BY <4>1, <4>2
    <3> QED BY <3>1, <3>2, <3>3 DEF ModeInv, PipelinesFollowDebug
  <2>4. CASE UNCHANGED vars
    BY <2>1, <2>4 DEF vars, libraryVars
  <2>5. CASE (\E c \in Requests : Ask(c)) \/ (Reduce /\ ~SetUp)
    <3>1. UNCHANGED libraryVars
      BY <2>5 DEF Ask, Reduce, Refuse, AnswerAllNull, CompileFails, LaunchPass, TreeRound,
           SimdRound, EndPass, CommandBufferError, ReadScalar, ReadUnwritten, AskPandas,
           Return
    <3> QED BY <3>1, <2>1
  <2> QED BY <2>2, <2>3, <2>4, <2>5 DEF Next
<1>3. ModeInv => PipelinesFollowDebug
  BY DEF ModeInv
<1> QED BY <1>1, <1>2, <1>3, PTL DEF Spec

-----------------------------------------------------------------------------
(* The passes *)

\* A kernel built now reads what the host counts with.
LEMMA LoadedReads ==
  ASSUME MatchingBinaries, KernelsMatch, NEW k
  PROVE  BuildOf(k).reads = GpuTuning.reads
<1>1. CASE k \in DOMAIN pipelines
  BY <1>1 DEF BuildOf, KernelsMatch
<1>2. CASE k \notin DOMAIN pipelines /\ Precompiled
  <2>1. machine.family \notin NewerFamilies
    BY <1>2 DEF Precompiled, MatchingBinaries, KernelsMatch
  <2> QED BY <1>2, <2>1 DEF BuildOf, LoadedBuild, DefaultTuning, GpuTuning
<1>3. CASE k \notin DOMAIN pipelines /\ ~Precompiled
  BY <1>3 DEF BuildOf, LoadedBuild
<1> QED BY <1>1, <1>2, <1>3

\* Groups are numbered from zero.
LEMMA GroupsIndexed ==
  ASSUME Indexed(src)
  PROVE  \E n \in Nat : Groups = 0 .. n - 1
<1>1. PICK n \in Nat : DOMAIN src = 0 .. n - 1
  BY DEF Indexed
<1>2. Length(src) = n
  BY <1>1, LengthOfIndexed
<1> DEFINE E == elements_per_reduce_group
           m == (n + E - 1) \div E
<1>3. m \in Nat
  <2>1. E \in Nat \ {0} /\ n + E - 1 \in Nat
    <3>1. E \in Nat \ {0}
      BY TuningType
    <3> HIDE DEF E
    <3> QED BY <3>1
  <2> HIDE DEF E
  <2> QED BY <2>1, DivMod
<1>4. Groups = 0 .. m - 1
  BY <1>2 DEF Groups, num_threadgroups
<1> QED BY <1>3, <1>4

LEMMA InitMatches == Init => IInv
BY DEF Init, InitLibrary, IInv, KernelsMatch, PassMatches, BuffersIndexed

\* No step changes the machine.
LEMMA StepMatches ==
  ASSUME MatchingBinaries, IInv, [Next]_vars
  PROVE  IInv'
<1>1. CASE \E c \in Requests : Ask(c)
  <2>1. stage' = "begin" /\ call' \in Requests /\ UNCHANGED libraryVars
    BY <1>1 DEF Ask
  <2> QED BY <2>1 DEF IInv, KernelsMatch, GpuTuning, PassMatches, BuffersIndexed, libraryVars
<1>2. CASE SetDebug
  <2>1. stage' = "idle" /\ machine' = machine /\ pipelines' = << >>
    BY <1>2 DEF SetDebug, set_debug_enabled, ClearPipelines
  <2> QED BY <2>1 DEF IInv, KernelsMatch, PassMatches, BuffersIndexed
<1>3. CASE SetUp
  <2>1. /\ machine' = machine /\ stage = "begin" /\ stage' = "pass" /\ src' = call.values
        /\ builds' = [first |-> BuildOf(FirstKernel(call)),
                      later |-> BuildOf(LaterKernel(call))]
        /\ pipelines' = [k \in DOMAIN pipelines \cup {FirstKernel(call), LaterKernel(call)}
                           |-> BuildOf(k)]
    BY <1>3 DEF SetUp, GetPipelines, Accepted
  <2>2. \A k : BuildOf(k).reads = GpuTuning.reads
    BY LoadedReads DEF IInv
  <2>3. GpuTuning' = GpuTuning
    BY <2>1 DEF GpuTuning
  <2>4. KernelsMatch'
    BY <2>1, <2>2, <2>3 DEF IInv, KernelsMatch
  <2>5. PassMatches'
    BY <2>1, <2>2, <2>3 DEF PassMatches
  <2>6. \E n \in Nat : DOMAIN call.values = 0 .. n - 1
    <3>1. call \in Requests
      BY <2>1 DEF IInv, BuffersIndexed
    <3>2. /\ Cardinality(DOMAIN call.values) \in Nat
          /\ DOMAIN call.values = 0 .. Cardinality(DOMAIN call.values) - 1
      BY <3>1, RequestAssumption, FS_CardinalityType
    <3> QED BY <3>2
  <2>7. BuffersIndexed'
    BY <2>1, <2>6 DEF BuffersIndexed, Indexed
  <2> QED BY <2>4, <2>5, <2>7 DEF IInv
<1>4. CASE LaunchPass
  <2>1. /\ stage = "pass" /\ stage' = "rounds" /\ DOMAIN totals' = Groups
        /\ UNCHANGED <<libraryVars, builds>>
    BY <1>4 DEF LaunchPass
  <2>2. \E n \in Nat : Groups = 0 .. n - 1
    BY <2>1, GroupsIndexed DEF IInv, BuffersIndexed
  <2>3. BuffersIndexed'
    BY <2>1, <2>2 DEF BuffersIndexed, Indexed
  <2>4. KernelsMatch' /\ PassMatches'
    BY <2>1 DEF IInv, KernelsMatch, PassMatches, libraryVars, GpuTuning
  <2> QED BY <2>3, <2>4 DEF IInv
<1>5. CASE TreeRound \/ SimdRound
  <2>1. /\ stage = "rounds" /\ stage' = "rounds" /\ DOMAIN totals' = DOMAIN totals
        /\ UNCHANGED <<libraryVars, builds>>
    BY <1>5 DEF TreeRound, SimdRound
  <2>2. BuffersIndexed'
    BY <2>1 DEF IInv, BuffersIndexed, Indexed
  <2>3. KernelsMatch' /\ PassMatches'
    BY <2>1 DEF IInv, KernelsMatch, PassMatches, libraryVars, GpuTuning
  <2> QED BY <2>2, <2>3 DEF IInv
<1>6. CASE EndPass
  <2>1. /\ stage = "rounds" /\ stage' \in {"pass", "reduced"} /\ DOMAIN src' = DOMAIN totals
        /\ UNCHANGED <<libraryVars, builds>>
    BY <1>6 DEF EndPass, StorePartials
  <2>2. BuffersIndexed'
    BY <2>1 DEF IInv, BuffersIndexed, Indexed
  <2>3. KernelsMatch' /\ PassMatches'
    BY <2>1 DEF IInv, KernelsMatch, PassMatches, libraryVars, GpuTuning
  <2> QED BY <2>2, <2>3 DEF IInv
<1>7. CASE Refuse \/ CompileFails \/ CommandBufferError \/ AnswerAllNull \/ ReadScalar
             \/ ReadUnwritten \/ AskPandas
  <2>1. stage' \in {"idle", "pandas"} /\ UNCHANGED libraryVars
    BY <1>7 DEF Refuse, CompileFails, CommandBufferError, AnswerAllNull, ReadScalar,
         ReadUnwritten, AskPandas, Return
  <2> QED BY <2>1 DEF IInv, KernelsMatch, PassMatches, BuffersIndexed, libraryVars, GpuTuning
<1>8. CASE UNCHANGED vars
  BY <1>8 DEF vars, libraryVars, IInv, KernelsMatch, PassMatches, BuffersIndexed, Indexed,
       GpuTuning
<1> QED BY <1>1, <1>2, <1>3, <1>4, <1>5, <1>6, <1>7, <1>8 DEF Next, Reduce

LEMMA MatchingSlots ==
  ASSUME IInv
  PROVE  EachElementReadOnce
<1> SUFFICES ASSUME stage = "pass", NEW e \in DOMAIN src
             PROVE  \E s \in Slots(Length(src)) : \A r \in Slots(Length(src)) :
                      Element(r[1], r[2], r[3]) = e <=> r = s
  BY DEF EachElementReadOnce
<1>1. PICK n \in Nat : DOMAIN src = 0 .. n - 1
  BY DEF IInv, BuffersIndexed, Indexed
<1>2. Length(src) = n
  BY <1>1, LengthOfIndexed
<1>3. Build.reads = GpuTuning.reads
  BY DEF IInv, PassMatches, Build
<1> QED BY <1>1, <1>2, <1>3, SlotOfElement

\* Where a precompiled binary has the tuning of the GPU, every pass of every
\* reduction reads each element once, whatever the length of the column, the
\* number of passes and the widths.  bug_metallib shows what the other binaries do.
THEOREM PassesReadOnce ==
  MatchingBinaries => (Spec => []EachElementReadOnce)
<1> SUFFICES ASSUME MatchingBinaries
             PROVE  Spec => []EachElementReadOnce
  OBVIOUS
<1>1. Init => IInv
  BY InitMatches
<1>2. IInv /\ [Next]_vars => IInv'
  BY StepMatches
<1>3. IInv => EachElementReadOnce
  BY MatchingSlots
<1> QED BY <1>1, <1>2, <1>3, PTL DEF Spec
-----------------------------------------------------------------------------
(* Reductions as folds, in any order and in any groups *)

\* The values a reduction can meet, of which its identity is one.
ValuesOf(c) ==
  IF KernelOp(c) = "sum" THEN IF c.dtype = "uint32" THEN 0 .. WordSize - 1 ELSE Int
  ELSE IF KernelOp(c) = "min" THEN {x \in Int : x <= MaxValue}
  ELSE {x \in Int : x >= MinValue}

Zero(c) == Identity(KernelOp(c))

Combining(c) == [p \in ValuesOf(c) \X ValuesOf(c) |-> Apply(c, p[1], p[2])]

Folded(c, f, S) == FoldOf(Combining(c), ValuesOf(c), Zero(c), f, S)

\* Limits<T> bound the values of every type, and uint32 has values of its own.
SoundLimits == MinValue \in Int /\ MaxValue \in Int /\ WordSize \in Nat \ {0}

SoundRequests ==
  \A c \in Requests :
    /\ c.op \in {"sum", "min", "max", "mean"}
    /\ c.valid \subseteq DOMAIN c.values
    /\ c.values \in [DOMAIN c.values -> MinValue .. MaxValue]
    /\ c.dtype = "uint32" => c.values \in [DOMAIN c.values -> 0 .. WordSize - 1]

Reduces(c) == KernelOp(c) \in {"sum", "min", "max"}

LEMMA ThreeOperations ==
  ASSUME NEW c, Reduces(c)
  PROVE  \/ KernelOp(c) = "sum" /\ c.dtype = "uint32"
         \/ KernelOp(c) = "sum" /\ c.dtype # "uint32"
         \/ KernelOp(c) = "min"
         \/ KernelOp(c) = "max"
BY DEF Reduces

\* Sums, also those that wrap, minima and maxima do not depend on the order.
LEMMA ReductionMonoid ==
  ASSUME SoundLimits, NEW c, Reduces(c)
  PROVE  Monoid(Combining(c), ValuesOf(c), Zero(c))
<1> DEFINE V == ValuesOf(c)
           m == Combining(c)
<1>1. \A a, b \in V : m[<<a, b>>] = Apply(c, a, b)
  <2> HIDE DEF V
  <2> QED BY DEF Combining, V
<1>2. CASE KernelOp(c) = "sum" /\ c.dtype # "uint32"
  <2>1. V = Int /\ Zero(c) = 0 /\ \A a, b : Apply(c, a, b) = a + b
    BY <1>2 DEF ValuesOf, Zero, Identity, Apply
  <2> HIDE DEF V
  <2>2. m \in [V \X V -> V]
    BY <2>1 DEF Combining, V
  <2> HIDE DEF m
  <2> QED BY <1>1, <2>1, <2>2 DEF Monoid, V, m
<1>3. CASE KernelOp(c) = "min"
  <2>1. /\ V = {x \in Int : x <= MaxValue} /\ Zero(c) = MaxValue
        /\ \A a, b : Apply(c, a, b) = IF a < b THEN a ELSE b
    BY <1>3 DEF ValuesOf, Zero, Identity, Apply
  <2> HIDE DEF V
  <2>2. m \in [V \X V -> V]
    BY <2>1 DEF Combining, V
  <2> HIDE DEF m
  <2> QED BY <1>1, <2>1, <2>2 DEF Monoid, V, m, SoundLimits
<1>4. CASE KernelOp(c) = "max"
  <2>1. /\ V = {x \in Int : x >= MinValue} /\ Zero(c) = MinValue
        /\ \A a, b : Apply(c, a, b) = IF a > b THEN a ELSE b
    BY <1>4 DEF ValuesOf, Zero, Identity, Apply
  <2> HIDE DEF V
  <2>2. m \in [V \X V -> V]
    BY <2>1 DEF Combining, V
  <2> HIDE DEF m
  <2> QED BY <1>1, <2>1, <2>2 DEF Monoid, V, m, SoundLimits
<1>5. CASE KernelOp(c) = "sum" /\ c.dtype = "uint32"
  <2>1. /\ V = 0 .. WordSize - 1 /\ Zero(c) = 0
        /\ \A a, b : Apply(c, a, b) = (a + b) % WordSize
    BY <1>5 DEF ValuesOf, Zero, Identity, Apply
  <2>2. WordSize \in Nat \ {0}
    BY DEF SoundLimits
  <2> HIDE DEF V
  <2>3. \A a, b \in V : (a + b) % WordSize \in V
    BY <2>1, <2>2
  <2>4. m \in [V \X V -> V]
    BY <2>1, <2>3 DEF Combining, V
  <2> HIDE DEF m
  <2>5. Zero(c) \in V
    BY <2>1, <2>2
  <2>6. \A a, b \in V : m[<<a, b>>] = (a + b) % WordSize
    <3> SUFFICES ASSUME NEW a \in V, NEW b \in V PROVE m[<<a, b>>] = (a + b) % WordSize
      OBVIOUS
    <3>1. m[<<a, b>>] = Apply(c, a, b)
      BY <1>1 DEF V, m
    <3> QED BY <2>1, <3>1
  <2>7. \A a, b \in V : m[<<a, b>>] = m[<<b, a>>]
    <3> SUFFICES ASSUME NEW a \in V, NEW b \in V PROVE m[<<a, b>>] = m[<<b, a>>]
      OBVIOUS
    <3>1. m[<<a, b>>] = (a + b) % WordSize /\ m[<<b, a>>] = (b + a) % WordSize
      BY <2>6
    <3>2. a + b = b + a
      BY <2>1
    <3> QED BY <3>1, <3>2
  <2>8. ASSUME NEW a \in V, NEW b \in V, NEW d \in V
        PROVE  m[<<a, m[<<b, d>>]>>] = m[<<m[<<a, b>>], d>>]
    <3>1. /\ m[<<a, m[<<b, d>>]>>] = (a + ((b + d) % WordSize)) % WordSize
          /\ m[<<m[<<a, b>>], d>>] = (((a + b) % WordSize) + d) % WordSize
      <4>1. (b + d) % WordSize \in V /\ (a + b) % WordSize \in V
        BY <2>3
      <4>2. m[<<b, d>>] = (b + d) % WordSize /\ m[<<a, b>>] = (a + b) % WordSize
        BY <2>6
      <4> QED BY <2>6, <4>1, <4>2
    <3>2. a \in Int /\ b \in Int /\ d \in Int /\ b + d \in Int /\ a + b \in Int
      BY <2>1
    <3>3. (a + ((b + d) % WordSize)) % WordSize = ((b + d) + a) % WordSize
      BY <2>2, <3>2, ModPlus
    <3>4. (((a + b) % WordSize) + d) % WordSize = ((a + b) + d) % WordSize
      BY <2>2, <3>2, ModPlus
    <3>5. (b + d) + a = (a + b) + d
      BY <3>2
    <3> QED BY <3>1, <3>3, <3>4, <3>5
  <2>9. ASSUME NEW a \in V PROVE m[<<a, Zero(c)>>] = a
    <3>1. m[<<a, Zero(c)>>] = (a + 0) % WordSize
      BY <1>1, <2>1, <2>5
    <3>2. a \in 0 .. WordSize - 1
      BY <2>1
    <3>3. (a + 0) % WordSize = a
      BY <2>2, <3>2
    <3> QED BY <3>1, <3>3
  <2> QED BY <2>4, <2>5, <2>7, <2>8, <2>9 DEF Monoid, V, m
<1> QED BY <1>2, <1>3, <1>4, <1>5, ThreeOperations

\* What the model computes by recursion is the fold.
LEMMA ReducedIsFolded ==
  ASSUME SoundLimits, NEW c, Reduces(c), NEW I, NEW f \in [I -> ValuesOf(c)],
         NEW S \in SUBSET I, IsFiniteSet(S)
  PROVE  Reduced(c, f, S) = Folded(c, f, S)
<1> DEFINE V == ValuesOf(c)
           a == Zero(c)
           m == Combining(c)
           step == Adding(m, V, f)
           Next1(u, s) == LET x == CHOOSE x \in s : TRUE IN Apply(c, f[x], u[s \ {x}])
           r[s \in SUBSET S] == IF s = {} THEN a ELSE Next1(r, s)
<1>1. Reduced(c, f, S) = r[S]
  BY DEF Reduced, FoldFunctionOnSet, MapThenFoldSet, Zero
<1>2. a \in V /\ m \in [V \X V -> V]
  BY ReductionMonoid DEF Monoid
<1>3. step \in FoldSteps(I, V)
  <2> HIDE DEF V, m
  <2> QED BY <1>2 DEF Adding, FoldSteps, V
<1>4. \A i \in I, x \in V : step[<<i, x>>] = Apply(c, f[i], x)
  <2> SUFFICES ASSUME NEW i \in I, NEW x \in V PROVE step[<<i, x>>] = Apply(c, f[i], x)
    OBVIOUS
  <2>1. f[i] \in V
    OBVIOUS
  <2> HIDE DEF V
  <2>2. step[<<i, x>>] = m[<<f[i], x>>]
    BY DEF Adding, V
  <2>3. m[<<f[i], x>>] = Apply(c, f[i], x)
    BY <2>1 DEF Combining, V
  <2> QED BY <2>2, <2>3
<1> HIDE DEF V, a, m, step
<1>5. PICK g : FoldsOn(g, S, a, step)
  BY <1>2, <1>3, FoldExists
<1>6. \A s \in SUBSET S : SetFold(s, a, step) = g[s] /\ g[s] \in V
  BY <1>2, <1>3, <1>5, FoldOfFunction
<1>7. g = [s \in SUBSET S |-> IF s = {} THEN a ELSE Next1(g, s)]
  <2>1. ASSUME NEW s \in SUBSET S
        PROVE  NextFold(g, a, step, s) = IF s = {} THEN a ELSE Next1(g, s)
    <3>1. CASE s = {}
      BY <3>1 DEF NextFold
    <3>2. CASE s # {}
      <4>1. OneOf(s) \in s /\ OneOf(s) = CHOOSE x \in s : TRUE
        BY <3>2, OneOfMember DEF OneOf
      <4>2. g[s \ {OneOf(s)}] \in V /\ OneOf(s) \in I
        BY <1>6, <4>1
      <4>3. step[<<OneOf(s), g[s \ {OneOf(s)}]>>] = Apply(c, f[OneOf(s)], g[s \ {OneOf(s)}])
        BY <1>4, <4>2
      <4>4. Next1(g, s) = Apply(c, f[OneOf(s)], g[s \ {OneOf(s)}])
        BY <4>1
      <4> HIDE DEF Next1
      <4> QED BY <3>2, <4>3, <4>4 DEF NextFold
    <3> HIDE DEF Next1
    <3> QED BY <3>1, <3>2
  <2>2. g = [s \in SUBSET S |-> NextFold(g, a, step, s)]
    BY <1>5 DEF FoldsOn
  <2> HIDE DEF Next1
  <2> QED BY <2>1, <2>2
<1>8. r = [s \in SUBSET S |-> IF s = {} THEN a ELSE Next1(r, s)]
  <2>1. \E u : u = [s \in SUBSET S |-> IF s = {} THEN a ELSE Next1(u, s)]
    BY <1>7
  <2> QED BY <2>1
<1> HIDE DEF r
<1>9. r = [s \in SUBSET S |-> r[s]] /\ r[{}] = a
  <2> HIDE DEF Next1
  <2> QED BY <1>8
<1>10. StepsAlong(r, S, V, step)
  <2> SUFFICES ASSUME NEW s \in SUBSET S, s # {}, r[s \ {OneOf(s)}] \in V
               PROVE  r[s] = step[<<OneOf(s), r[s \ {OneOf(s)}]>>]
    BY DEF StepsAlong
  <2>1. OneOf(s) \in I /\ OneOf(s) = CHOOSE x \in s : TRUE
    BY OneOfMember DEF OneOf
  <2>2. r[s] = Next1(r, s)
    <3> HIDE DEF Next1
    <3> QED BY <1>8
  <2>3. Next1(r, s) = Apply(c, f[OneOf(s)], r[s \ {OneOf(s)}])
    BY <2>1
  <2> HIDE DEF Next1
  <2> QED BY <1>4, <2>1, <2>2, <2>3
<1>11. FoldsOn(r, S, a, step)
  <2>1. r = [s \in SUBSET S |-> r[s]]
    BY <1>9
  <2>2. r[{}] = a
    BY <1>9
  <2> QED BY <1>2, <1>3, <1>10, <2>1, <2>2, FoldFollows
<1>12. SetFold(S, a, step) = r[S]
  BY <1>2, <1>3, <1>11, FoldOfFunction
<1> QED BY <1>1, <1>12 DEF Folded, FoldOf, step, m, V, a

\* One round in which every thread of the lower half takes what one of the upper
\* half holds.
Halved(c, f, s) == [t \in 0 .. s - 1 |-> Apply(c, f[t], f[t + s])]

LEMMA HalvesFolded ==
  ASSUME SoundLimits, NEW c, Reduces(c), NEW s \in Nat \ {0}, NEW h, h = 2 * s,
         NEW f \in [0 .. h - 1 -> ValuesOf(c)]
  PROVE  /\ Halved(c, f, s) \in [0 .. s - 1 -> ValuesOf(c)]
         /\ Folded(c, Halved(c, f, s), 0 .. s - 1) = Folded(c, f, 0 .. h - 1)
<1> DEFINE V == ValuesOf(c)
           m == Combining(c)
           e == Zero(c)
           I == 0 .. h - 1
           K == 0 .. s - 1
           half == Halved(c, f, s)
           number == [t \in I |-> IF t < s THEN t ELSE t - s]
<1>1. Monoid(m, V, e)
  BY ReductionMonoid
<1>2. m \in [V \X V -> V]
  BY <1>1 DEF Monoid
<1>3. \A t \in K : t \in I /\ t + s \in I \ {t}
  OBVIOUS
<1>4. \A a, b \in V : m[<<a, b>>] = Apply(c, a, b)
  <2> HIDE DEF V
  <2> QED BY DEF Combining, V
<1>5. \A t \in K : half[t] = m[<<f[t], f[t + s]>>] /\ half[t] \in V
  <2> SUFFICES ASSUME NEW t \in K PROVE half[t] = m[<<f[t], f[t + s]>>] /\ half[t] \in V
    OBVIOUS
  <2>1. f[t] \in V /\ f[t + s] \in V
    BY <1>3
  <2>2. half[t] = Apply(c, f[t], f[t + s])
    BY DEF Halved
  <2> HIDE DEF V, m, half
  <2> QED BY <1>2, <1>4, <2>1, <2>2
<1>6. half \in [K -> V]
  BY <1>5 DEF Halved
<1>7. number \in [I -> K]
  OBVIOUS
<1>8. \A k \in K : PartOf(I, number, k) = {k, k + s}
  BY DEF PartOf
<1>9. IsFiniteSet(I) /\ IsFiniteSet(K)
  BY FS_Interval
<1>10. f \in [I -> V]
  OBVIOUS
<1> HIDE DEF V, m, e, I, K, half, number
<1>11. \A k \in K : half[k] = FoldOf(m, V, e, f, PartOf(I, number, k))
  <2> SUFFICES ASSUME NEW k \in K PROVE half[k] = FoldOf(m, V, e, f, PartOf(I, number, k))
    OBVIOUS
  <2>1. k \in I /\ k + s \in I \ {k}
    BY <1>3
  <2>2. FoldOf(m, V, e, f, {k, k + s}) = m[<<f[k], f[k + s]>>]
    <3> DEFINE j == k + s
    <3>1. j \in I /\ k # j
      BY <2>1
    <3> HIDE DEF j
    <3>2. FoldOf(m, V, e, f, {k, j}) = m[<<f[k], f[j]>>]
      BY <1>1, <1>10, <2>1, <3>1, FoldOfTwo
    <3> QED BY <3>2 DEF j
  <2> QED BY <1>5, <1>8, <2>2
<1>12. FoldOf(m, V, e, f, I) = FoldOf(m, V, e, half, K)
  BY <1>1, <1>6, <1>7, <1>9, <1>10, <1>11, FoldParts
<1> QED BY <1>6, <1>12 DEF Folded, V, m, e, I, K, half

\* One round in which a thread folds what the members of a part hold.
LEMMA LanesFolded ==
  ASSUME SoundLimits, NEW c, Reduces(c), NEW I, IsFiniteSet(I), NEW f \in [I -> ValuesOf(c)],
         NEW K, IsFiniteSet(K), NEW number \in [I -> K]
  PROVE  LET part == [k \in K |-> Reduced(c, f, PartOf(I, number, k))]
         IN  /\ part \in [K -> ValuesOf(c)]
             /\ Folded(c, part, K) = Folded(c, f, I)
<1> DEFINE V == ValuesOf(c)
           m == Combining(c)
           e == Zero(c)
           part == [k \in K |-> Reduced(c, f, PartOf(I, number, k))]
<1>1. Monoid(m, V, e)
  BY ReductionMonoid
<1>2. \A k : PartOf(I, number, k) \in SUBSET I /\ IsFiniteSet(PartOf(I, number, k))
  BY FS_Subset DEF PartOf
<1>3. \A k \in K : part[k] = FoldOf(m, V, e, f, PartOf(I, number, k))
  <2> SUFFICES ASSUME NEW k \in K PROVE part[k] = FoldOf(m, V, e, f, PartOf(I, number, k))
    OBVIOUS
  <2>1. Reduced(c, f, PartOf(I, number, k)) = Folded(c, f, PartOf(I, number, k))
    BY <1>2, ReducedIsFolded
  <2> QED BY <2>1 DEF Folded
<1>4. f \in [I -> V]
  OBVIOUS
<1>5. part = [k \in K |-> part[k]]
  OBVIOUS
<1> HIDE DEF V, m, e, part
<1>6. \A S \in SUBSET I : IsFiniteSet(S) => FoldOf(m, V, e, f, S) \in V
  BY <1>1, <1>4, FoldOfFacts
<1>7. part \in [K -> V]
  BY <1>2, <1>3, <1>5, <1>6
<1>8. FoldOf(m, V, e, f, I) = FoldOf(m, V, e, part, K)
  BY <1>1, <1>3, <1>4, <1>7, FoldParts
<1> QED BY <1>7, <1>8 DEF Folded, V, m, e, part

\* A single value.
LEMMA OneFolded ==
  ASSUME SoundLimits, NEW c, Reduces(c), NEW f \in [0 .. 0 -> ValuesOf(c)]
  PROVE  Folded(c, f, 0 .. 0) = f[0] /\ f[0] \in ValuesOf(c)
<1> DEFINE V == ValuesOf(c)
           m == Combining(c)
           e == Zero(c)
<1>1. Monoid(m, V, e)
  BY ReductionMonoid
<1>2. 0 .. 0 = {0} /\ f \in [{0} -> V]
  OBVIOUS
<1> HIDE DEF V, m, e
<1>3. FoldOf(m, V, e, f, {0}) = f[0]
  <2>1. 0 \in {0}
    OBVIOUS
  <2> QED BY <1>1, <1>2, <2>1, FoldOfOne
<1> QED BY <1>2, <1>3 DEF Folded, V, m, e

-----------------------------------------------------------------------------
(* What is held anywhere folds to the result *)

\* The elements of a buffer that a pass looks at.
Counted(c, buffer, one) == IF one THEN c.valid ELSE DOMAIN buffer

\* A buffer of n elements that folds to the result of the call.
BufferKept(c, buffer, one) ==
  \E n \in Nat :
    /\ buffer \in [0 .. n - 1 -> ValuesOf(c)]
    /\ Counted(c, buffer, one) \subseteq 0 .. n - 1
    /\ Folded(c, buffer, Counted(c, buffer, one)) = Folded(c, c.values, c.valid)

\* What n groups of h threads hold.
HeldBy(c, t, n, h) ==
  /\ t \in [0 .. n - 1 -> [0 .. h - 1 -> ValuesOf(c)]]
  /\ Folded(c, [g \in 0 .. n - 1 |-> Folded(c, t[g], 0 .. h - 1)], 0 .. n - 1)
       = Folded(c, c.values, c.valid)

\* In every round the threads can be halved, or divided into SIMD-groups.
Divisible(fast, threads, h) ==
  IF fast THEN h = threads \/ h <= SimdWidth
          ELSE \E k \in Nat : h = 2 ^ k

GroupsKept(c, t, fast, threads) ==
  \E n \in Nat \ {0}, h \in Nat \ {0} : HeldBy(c, t, n, h) /\ Divisible(fast, threads, h)

Busy == {"pass", "rounds", "reduced"}

TotalsInv ==
  /\ stage \in {"begin"} \cup Busy => call \in Requests /\ Reduces(call)
  /\ stage = "pass" /\ first => src = call.values
  /\ stage \in {"pass", "reduced"} => BufferKept(call, src, first)
  /\ stage = "reduced" => ~first /\ DOMAIN src = 0 .. 0
  /\ stage = "pass" /\ ~first => DOMAIN src # {}
  /\ stage \in Busy /\ call.valid = {} => call.op = "sum"
  /\ stage = "rounds" => GroupsKept(call, totals, simd, GpuTuning.threads)

\* Threads of a group: a power of two, and no more SIMD-groups than one of them
\* has lanes.
SoundTuning ==
  /\ SimdWidth \in Nat \ {0}
  /\ \A t \in {AppleTuning, OlderTuning} :
       /\ \E k \in Nat : t.threads = 2 ^ k
       /\ \E d \in 1 .. SimdWidth : t.threads = d * SimdWidth

-----------------------------------------------------------------------------
(* The first half of a launch: what the threads read *)

LEMMA SlotsFinite ==
  ASSUME NEW n \in Nat, Build.reads = GpuTuning.reads
  PROVE  /\ \E m \in Nat : num_threadgroups(n) = m
         /\ IsFiniteSet(Slots(n))
<1> DEFINE E == elements_per_reduce_group
           m == (n + E - 1) \div E
           T == GpuTuning.threads
           R == GpuTuning.reads
           A == 0 .. m - 1
           B == 0 .. T - 1
           C == 0 .. R - 1
           U == (A \X B) \X C
           W == A \X B \X C
           f == [p \in U |-> <<p[1][1], p[1][2], p[2]>>]
<1>1. T \in Nat /\ R \in Nat /\ m \in Nat /\ num_threadgroups(n) = m
  <2>1. T \in Nat \ {0} /\ R \in Nat \ {0} /\ E \in Nat \ {0}
    BY TuningType
  <2>2. num_threadgroups(n) = m
    BY DEF num_threadgroups
  <2> HIDE DEF T, R, E
  <2>3. n + E - 1 \in Nat
    BY <2>1
  <2>4. m \in Nat
    BY <2>1, <2>3, DivMod
  <2> QED BY <2>1, <2>2, <2>4
<1>2. Slots(n) = W
  BY <1>1 DEF Slots, Threads
<1> HIDE DEF m, T, R
<1>3. IsFiniteSet(A) /\ IsFiniteSet(B) /\ IsFiniteSet(C)
  BY <1>1, FS_Interval
<1> HIDE DEF A, B, C
<1>4. IsFiniteSet(A \X B)
  BY <1>3, FS_Product
<1>5. IsFiniteSet(U)
  BY <1>3, <1>4, FS_Product
<1>6. f \in Surjection(U, W)
  <2>1. f \in [U -> W]
    OBVIOUS
  <2>2. ASSUME NEW w \in W PROVE \E p \in U : f[p] = w
    <3>1. <<<<w[1], w[2]>>, w[3]>> \in U
      OBVIOUS
    <3>2. f[<<<<w[1], w[2]>>, w[3]>>] = w
      BY <3>1
    <3> QED BY <3>1, <3>2
  <2> QED BY <2>1, <2>2 DEF Surjection
<1> HIDE DEF U, W, f
<1>7. IsFiniteSet(W)
  BY <1>5, <1>6, FS_Surjection DEF ExistsSurjection
<1> QED BY <1>1, <1>2, <1>7

\* Where every element has its slot, the slots fold to the same as the elements
\* that count: what lies beyond the buffer, and what is null, adds nothing.
LEMMA SlotsFolded ==
  ASSUME SoundLimits, Reduces(call), Build.reads = GpuTuning.reads,
         NEW n \in Nat, src \in [0 .. n - 1 -> ValuesOf(call)],
         Counted(call, src, first) \subseteq 0 .. n - 1
  PROVE  LET read == [s \in Slots(n) |-> Input(Element(s[1], s[2], s[3]))]
         IN  /\ read \in [Slots(n) -> ValuesOf(call)]
             /\ Folded(call, read, Slots(n)) = Folded(call, src, Counted(call, src, first))
<1> DEFINE V == ValuesOf(call)
           m == Combining(call)
           e == Zero(call)
           D == Counted(call, src, first)
           S == Slots(n)
           J == 0 .. n - 1
           at(s) == Element(s[1], s[2], s[3])
           read == [s \in S |-> Input(at(s))]
           W == {s \in S : at(s) \in D}
           b == [s \in W |-> at(s)]
<1>1. Monoid(m, V, e) /\ e \in V
  <2>1. Monoid(m, V, e)
    BY ReductionMonoid
  <2> QED BY <2>1 DEF Monoid
<1>2. IsFiniteSet(S)
  BY SlotsFinite
<1>3. DOMAIN src = J /\ D \in SUBSET J /\ \A x \in J : src[x] \in V
  OBVIOUS
<1>4. \A x : Input(x) = IF x \in D THEN src[x] ELSE e
  <2>1. CASE first
    <3>1. D = call.valid
      BY <2>1 DEF Counted
    <3> HIDE DEF D
    <3> QED BY <1>3, <2>1, <3>1 DEF Input, Zero
  <2>2. CASE ~first
    <3>1. D = DOMAIN src
      BY <2>2 DEF Counted
    <3> HIDE DEF D
    <3> QED BY <1>3, <2>2, <3>1 DEF Input, Zero
  <2> QED BY <2>1, <2>2
<1>5. \A x \in J : \E s \in S : \A r \in S : at(r) = x <=> r = s
  <2> SUFFICES ASSUME NEW x \in 0 .. n - 1
               PROVE  \E s \in Slots(n) : \A r \in Slots(n) :
                        Element(r[1], r[2], r[3]) = x <=> r = s
    OBVIOUS
  <2> QED BY SlotOfElement
<1>6. src \in [J -> V]
  OBVIOUS
<1> HIDE DEF V, m, e, D, S, J, at
<1>7. read \in [S -> V]
  BY <1>1, <1>3, <1>4
<1>8. \A s \in S \ W : read[s] = e
  BY <1>4
<1>9. W \in SUBSET S /\ IsFiniteSet(W)
  <2>1. W \in SUBSET S
    OBVIOUS
  <2> HIDE DEF W
  <2> QED BY <1>2, <2>1, FS_Subset
<1>10. Renames(b, W, D, read, src)
  <2>1. b \in [W -> D]
    OBVIOUS
  <2>2. \A x, y \in W : b[x] = b[y] => x = y
    <3> SUFFICES ASSUME NEW x \in W, NEW y \in W, b[x] = b[y] PROVE x = y
      OBVIOUS
    <3>1. x \in S /\ y \in S /\ at(x) \in J /\ at(y) = at(x)
      BY <1>3
    <3> QED BY <1>5, <3>1
  <2>3. \A y \in D : \E x \in W : b[x] = y
    <3> SUFFICES ASSUME NEW y \in D PROVE \E x \in W : b[x] = y
      OBVIOUS
    <3>1. PICK s \in S : \A r \in S : at(r) = y <=> r = s
      BY <1>3, <1>5
    <3>2. at(s) = y /\ s \in W
      BY <3>1
    <3> QED BY <3>2
  <2>4. \A x \in W : src[b[x]] = read[x]
    BY <1>4
  <2> QED BY <2>1, <2>2, <2>3, <2>4 DEF Renames
<1> HIDE DEF W, b, read
<1>11. FoldOf(m, V, e, read, S) = FoldOf(m, V, e, read, W)
  <2>1. S \in SUBSET S
    OBVIOUS
  <2> QED BY <1>1, <1>2, <1>7, <1>8, <1>9, <2>1, FoldNeutral
<1>12. FoldOf(m, V, e, read, W) = FoldOf(m, V, e, src, D)
  <2>1. D \in SUBSET J
    BY <1>3
  <2>2. Monoid(m, V, e)
    BY <1>1
  <2>3. W \in SUBSET S /\ IsFiniteSet(W)
    BY <1>9
  <2> DEFINE u == src
  <2>4. u \in [J -> V] /\ Renames(b, W, D, read, u)
    BY <1>6, <1>10
  <2> HIDE DEF u
  <2>5. FoldOf(m, V, e, read, W) = FoldOf(m, V, e, u, D)
    BY <1>7, <2>1, <2>2, <2>3, <2>4, FoldMapped
  <2> QED BY <2>5 DEF u
<1> QED BY <1>7, <1>11, <1>12 DEF Folded, V, m, e, S, D, read, at

-----------------------------------------------------------------------------
(* The second half: what the threads of all groups hold *)

\* Values that are numbered by groups, threads and reads.
ByRead(read, g, t, R) == [i \in R |-> read[<<g, t, i>>]]

Cube(G, T, R) == G \X T \X R

ByThread(m, V, e, read, g, T, R) == [t \in T |-> FoldOf(m, V, e, ByRead(read, g, t, R), R)]

ByGroup(m, V, e, read, G, T, R) == [g \in G |-> ByThread(m, V, e, read, g, T, R)]

GroupTotals(m, V, e, held, G, T) == [g \in G |-> FoldOf(m, V, e, held[g], T)]

LEMMA ThreadFolded ==
  ASSUME NEW V, NEW e, NEW m, Monoid(m, V, e), NEW G, NEW T, NEW R, IsFiniteSet(R),
         NEW read \in [G \X T \X R -> V], NEW g \in G, NEW t \in T
  PROVE  LET P == {g} \X {t} \X R
         IN  /\ FoldOf(m, V, e, ByRead(read, g, t, R), R) = FoldOf(m, V, e, read, P)
             /\ FoldOf(m, V, e, read, P) \in V
<1> DEFINE I == G \X T \X R
           P == {g} \X {t} \X R
           f == ByRead(read, g, t, R)
           b == [i \in R |-> <<g, t, i>>]
<1>1. \A i \in R : <<g, t, i>> \in I
  OBVIOUS
<1>2. P \in SUBSET I
  OBVIOUS
<1>3. f \in [R -> V]
  BY <1>1 DEF ByRead
<1>4. Renames(b, R, P, f, read)
  <2>1. b \in [R -> P]
    OBVIOUS
  <2>2. \A x, y \in R : b[x] = b[y] => x = y
    OBVIOUS
  <2>3. \A y \in P : \E x \in R : b[x] = y
    <3> SUFFICES ASSUME NEW y \in P PROVE \E x \in R : b[x] = y
      OBVIOUS
    <3>1. y[3] \in R /\ b[y[3]] = y
      OBVIOUS
    <3> QED BY <3>1
  <2>4. \A x \in R : read[b[x]] = f[x]
    BY DEF ByRead
  <2> QED BY <2>1, <2>2, <2>3, <2>4 DEF Renames
<1>5. R \in SUBSET R
  OBVIOUS
<1>6. read \in [I -> V]
  OBVIOUS
<1> HIDE DEF I, P, f, b
<1>7. FoldOf(m, V, e, f, R) = FoldOf(m, V, e, read, P)
  BY <1>2, <1>3, <1>4, <1>5, <1>6, FoldMapped
<1>8. FoldOf(m, V, e, f, R) \in V
  <2>1. \A S \in SUBSET R : IsFiniteSet(S) => FoldOf(m, V, e, f, S) \in V
    BY <1>3, FoldOfFacts
  <2> QED BY <1>5, <2>1
<1> QED BY <1>7, <1>8 DEF P, f

LEMMA GroupFolded ==
  ASSUME NEW V, NEW e, NEW m, Monoid(m, V, e), NEW G, NEW T, NEW R,
         IsFiniteSet(T), IsFiniteSet(R), IsFiniteSet(G \X T \X R),
         NEW read \in [G \X T \X R -> V], NEW g \in G
  PROVE  LET held == ByThread(m, V, e, read, g, T, R)
         IN  /\ held \in [T -> V]
             /\ FoldOf(m, V, e, held, T) = FoldOf(m, V, e, read, {g} \X T \X R)
             /\ FoldOf(m, V, e, held, T) \in V
<1> DEFINE I == G \X T \X R
           S == {g} \X T \X R
           held == ByThread(m, V, e, read, g, T, R)
           number == [s \in S |-> s[2]]
<1>1. \A t \in T : held[t] = FoldOf(m, V, e, read, {g} \X {t} \X R) /\ held[t] \in V
  <2> SUFFICES ASSUME NEW t \in T
               PROVE  held[t] = FoldOf(m, V, e, read, {g} \X {t} \X R) /\ held[t] \in V
    OBVIOUS
  <2>1. /\ FoldOf(m, V, e, ByRead(read, g, t, R), R) = FoldOf(m, V, e, read, {g} \X {t} \X R)
        /\ FoldOf(m, V, e, read, {g} \X {t} \X R) \in V
    BY ThreadFolded
  <2>2. held[t] = FoldOf(m, V, e, ByRead(read, g, t, R), R)
    BY DEF ByThread
  <2> QED BY <2>1, <2>2
<1>2. held = [t \in T |-> held[t]]
  BY DEF ByThread
<1>3. S \in SUBSET I
  OBVIOUS
<1>4. number \in [S -> T]
  OBVIOUS
<1>5. \A t \in T : PartOf(S, number, t) = {g} \X {t} \X R
  BY DEF PartOf
<1>6. read \in [I -> V] /\ IsFiniteSet(I)
  OBVIOUS
<1> HIDE DEF I, S, held, number
<1>7. held \in [T -> V]
  BY <1>1, <1>2
<1>8. IsFiniteSet(S)
  BY <1>3, <1>6, FS_Subset
<1>9. \A t \in T : held[t] = FoldOf(m, V, e, read, PartOf(S, number, t))
  BY <1>1, <1>5
<1>10. FoldOf(m, V, e, read, S) = FoldOf(m, V, e, held, T)
  <2> DEFINE u == read
  <2>1. u \in [I -> V]
    BY <1>6
  <2>2. \A t \in T : held[t] = FoldOf(m, V, e, u, PartOf(S, number, t))
    BY <1>9
  <2> HIDE DEF u
  <2>3. FoldOf(m, V, e, u, S) = FoldOf(m, V, e, held, T)
    BY <1>3, <1>4, <1>7, <1>8, <2>1, <2>2, FoldParts
  <2> QED BY <2>3 DEF u
<1>11. FoldOf(m, V, e, held, T) \in V
  <2>1. \A U \in SUBSET T : IsFiniteSet(U) => FoldOf(m, V, e, held, U) \in V
    BY <1>7, FoldOfFacts
  <2> QED BY <2>1
<1> QED BY <1>7, <1>10, <1>11 DEF S, held

LEMMA GroupsFolded ==
  ASSUME NEW V, NEW e, NEW m, Monoid(m, V, e), NEW G, NEW T, NEW R,
         IsFiniteSet(G), IsFiniteSet(T), IsFiniteSet(R), IsFiniteSet(Cube(G, T, R)),
         NEW read \in [Cube(G, T, R) -> V]
  PROVE  LET held == ByGroup(m, V, e, read, G, T, R)
         IN  /\ held \in [G -> [T -> V]]
             /\ FoldOf(m, V, e, GroupTotals(m, V, e, held, G, T), G)
                  = FoldOf(m, V, e, read, Cube(G, T, R))
<1> DEFINE I == Cube(G, T, R)
           one(g) == ByThread(m, V, e, read, g, T, R)
           held == ByGroup(m, V, e, read, G, T, R)
           h == GroupTotals(m, V, e, held, G, T)
           number == [s \in I |-> s[1]]
<1>1. \A g \in G : /\ one(g) \in [T -> V]
                   /\ FoldOf(m, V, e, one(g), T) = FoldOf(m, V, e, read, {g} \X T \X R)
                   /\ FoldOf(m, V, e, one(g), T) \in V
  BY GroupFolded DEF Cube
<1>2. number \in [I -> G]
  BY DEF Cube
<1>3. \A g \in G : PartOf(I, number, g) = {g} \X T \X R
  BY DEF PartOf, Cube
<1>4. read \in [I -> V] /\ IsFiniteSet(I) /\ I \in SUBSET I
  OBVIOUS
<1>5. held = [g \in G |-> one(g)] /\ h = [g \in G |-> FoldOf(m, V, e, held[g], T)]
  BY DEF ByGroup, GroupTotals
<1> HIDE DEF I, one, number, held, h
<1>6. held \in [G -> [T -> V]]
  BY <1>1, <1>5
<1>7. \A g \in G : h[g] = FoldOf(m, V, e, read, PartOf(I, number, g)) /\ h[g] \in V
  BY <1>1, <1>3, <1>5
<1>8. h \in [G -> V]
  BY <1>5, <1>7
<1>9. FoldOf(m, V, e, read, I) = FoldOf(m, V, e, h, G)
  <2> DEFINE u == read
  <2>1. u \in [I -> V]
    BY <1>4
  <2>2. I \in SUBSET I /\ IsFiniteSet(I)
    BY <1>4
  <2>3. \A g \in G : h[g] = FoldOf(m, V, e, u, PartOf(I, number, g))
    BY <1>7
  <2> HIDE DEF u
  <2>4. FoldOf(m, V, e, u, I) = FoldOf(m, V, e, h, G)
    BY <1>2, <1>8, <2>1, <2>2, <2>3, FoldParts
  <2> QED BY <2>4 DEF u
<1> QED BY <1>6, <1>9 DEF I, h, held

\* What a launch leaves in the threads folds to what the slots read.
LEMMA LaunchFolded ==
  ASSUME SoundLimits, Reduces(call), Build.reads = GpuTuning.reads,
         NEW n \in Nat, src \in [0 .. n - 1 -> ValuesOf(call)],
         Counted(call, src, first) \subseteq 0 .. n - 1,
         NEW k \in Nat, num_threadgroups(n) = k
  PROVE  LET held == [g \in 0 .. k - 1 |-> [t \in Threads |-> ThreadTotal(g, t)]]
         IN  /\ held \in [0 .. k - 1 -> [Threads -> ValuesOf(call)]]
             /\ Folded(call, [g \in 0 .. k - 1 |-> Folded(call, held[g], Threads)], 0 .. k - 1)
                  = Folded(call, src, Counted(call, src, first))
<1> DEFINE V == ValuesOf(call)
           m == Combining(call)
           e == Zero(call)
           G == 0 .. k - 1
           T == Threads
           R == 0 .. Build.reads - 1
           read == [s \in G \X T \X R |-> Input(Element(s[1], s[2], s[3]))]
           one(g, t) == FoldOf(m, V, e, ByRead(read, g, t, R), R)
           held == [g \in G |-> [t \in T |-> ThreadTotal(g, t)]]
<1>1. Slots(n) = G \X T \X R
  BY DEF Slots
<1>2. read \in [G \X T \X R -> V] /\ IsFiniteSet(G \X T \X R)
      /\ Folded(call, read, G \X T \X R) = Folded(call, src, Counted(call, src, first))
  <2>1. IsFiniteSet(Slots(n))
    BY SlotsFinite
  <2>2. LET all == [s \in Slots(n) |-> Input(Element(s[1], s[2], s[3]))]
        IN  /\ all \in [Slots(n) -> ValuesOf(call)]
            /\ Folded(call, all, Slots(n)) = Folded(call, src, Counted(call, src, first))
    BY SlotsFolded
  <2> QED BY <1>1, <2>1, <2>2
<1>3. GpuTuning.threads \in Nat /\ Build.reads \in Nat
  BY TuningType
<1>4. IsFiniteSet(G) /\ IsFiniteSet(T) /\ IsFiniteSet(R)
  <2>1. \A x \in Nat : IsFiniteSet(0 .. x - 1)
    BY FS_Interval
  <2> QED BY <1>3, <2>1 DEF Threads
<1>5. Monoid(m, V, e)
  BY ReductionMonoid
<1>6. ASSUME NEW g \in G, NEW t \in T
      PROVE  ThreadTotal(g, t) = one(g, t)
  <2> DEFINE f == [i \in R |-> Input(Element(g, t, i))]
  <2>1. f = ByRead(read, g, t, R)
    BY DEF ByRead
  <2>2. \A i \in R : read[<<g, t, i>>] \in V
    <3> HIDE DEF read
    <3> QED BY <1>2
  <2>3. f \in [R -> ValuesOf(call)]
    BY <2>1, <2>2 DEF ByRead
  <2>4. Reduced(call, f, R) = Folded(call, f, R)
    <3>1. R \in SUBSET R
      OBVIOUS
    <3> HIDE DEF f, R
    <3> QED BY <1>4, <2>3, <3>1, ReducedIsFolded
  <2>5. ThreadTotal(g, t) = Reduced(call, f, R)
    BY DEF ThreadTotal
  <2> QED BY <2>1, <2>4, <2>5 DEF Folded
<1>7. held = ByGroup(m, V, e, read, G, T, R)
  <2>1. held = [g \in G |-> [t \in T |-> one(g, t)]]
    <3> HIDE DEF one, G, T
    <3> QED BY <1>6
  <2> QED BY <2>1 DEF ByGroup, ByThread
<1>8. /\ held \in [G -> [T -> V]]
      /\ FoldOf(m, V, e, GroupTotals(m, V, e, held, G, T), G)
           = FoldOf(m, V, e, read, G \X T \X R)
  <2>1. read \in [Cube(G, T, R) -> V]
    BY <1>2 DEF Cube
  <2>2. IsFiniteSet(Cube(G, T, R))
    BY <1>2 DEF Cube
  <2> HIDE DEF G, T, R, V, m, e, read, held
  <2>3. /\ ByGroup(m, V, e, read, G, T, R) \in [G -> [T -> V]]
        /\ FoldOf(m, V, e, GroupTotals(m, V, e, ByGroup(m, V, e, read, G, T, R), G, T), G)
             = FoldOf(m, V, e, read, Cube(G, T, R))
    BY <1>4, <1>5, <2>1, <2>2, GroupsFolded
  <2> QED BY <1>7, <2>3 DEF Cube
<1>9. GroupTotals(m, V, e, held, G, T) = [g \in G |-> Folded(call, held[g], T)]
  BY DEF GroupTotals, Folded
<1> HIDE DEF read
<1> QED BY <1>2, <1>8, <1>9 DEF Folded

-----------------------------------------------------------------------------
(* The steps of a reduction *)

\* What is asked for is among the values a reduction can meet.
LEMMA RequestValues ==
  ASSUME SoundLimits, SoundRequests, NEW c \in Requests
  PROVE  /\ Reduces(c) /\ c.valid \subseteq DOMAIN c.values
         /\ c.values \in [DOMAIN c.values -> ValuesOf(c)]
         /\ IsFiniteSet(DOMAIN c.values)
         /\ \E n \in Nat : DOMAIN c.values = 0 .. n - 1
<1>1. /\ c.op \in {"sum", "min", "max", "mean"}
      /\ c.valid \subseteq DOMAIN c.values
      /\ c.values \in [DOMAIN c.values -> MinValue .. MaxValue]
      /\ c.dtype = "uint32" => c.values \in [DOMAIN c.values -> 0 .. WordSize - 1]
  BY DEF SoundRequests
<1>2. Reduces(c)
  BY <1>1 DEF Reduces, KernelOp
<1>3. c.values = [i \in DOMAIN c.values |-> c.values[i]]
  BY <1>1
<1>4. ASSUME NEW i \in DOMAIN c.values PROVE c.values[i] \in ValuesOf(c)
  <2>1. c.values[i] \in MinValue .. MaxValue
    BY <1>1
  <2>2. c.dtype = "uint32" => c.values[i] \in 0 .. WordSize - 1
    BY <1>1
  <2> QED BY <1>2, <2>1, <2>2 DEF ValuesOf, SoundLimits
<1>5. c.values \in [DOMAIN c.values -> ValuesOf(c)]
  BY <1>3, <1>4
<1>6. IsFiniteSet(DOMAIN c.values) /\ \E n \in Nat : DOMAIN c.values = 0 .. n - 1
  <2>1. /\ IsFiniteSet(DOMAIN c.values)
        /\ DOMAIN c.values = 0 .. Cardinality(DOMAIN c.values) - 1
    BY RequestAssumption
  <2> QED BY <2>1, FS_CardinalityType
<1> QED BY <1>1, <1>2, <1>5, <1>6

\* A column, before its first pass.
LEMMA ColumnKept ==
  ASSUME SoundLimits, SoundRequests, NEW c \in Requests
  PROVE  BufferKept(c, c.values, TRUE)
<1>1. /\ c.valid \subseteq DOMAIN c.values
      /\ c.values \in [DOMAIN c.values -> ValuesOf(c)]
  BY RequestValues
<1>2. PICK n \in Nat : DOMAIN c.values = 0 .. n - 1
  BY RequestValues
<1>3. Counted(c, c.values, TRUE) = c.valid
  BY DEF Counted
<1> QED BY <1>1, <1>2, <1>3 DEF BufferKept

\* The first element of a buffer has its group.
LEMMA SomeGroup ==
  ASSUME NEW n \in Nat \ {0}, Build.reads = GpuTuning.reads
  PROVE  \E k \in Nat \ {0} : num_threadgroups(n) = k
<1>1. PICK k \in Nat : num_threadgroups(n) = k
  BY SlotsFinite
<1> DEFINE E == elements_per_reduce_group
           m == (n + E - 1) \div E
<1>2. k = m /\ E \in Nat \ {0}
  BY <1>1, TuningType DEF num_threadgroups
<1>3. 0 \div E \in 0 .. m - 1
  <2>1. 0 \in 0 .. n - 1
    OBVIOUS
  <2> HIDE DEF E
  <2> QED BY <1>2, <2>1, CeilingCovers
<1>4. k # 0
  <2> HIDE DEF m
  <2> QED BY <1>2, <1>3
<1> QED BY <1>1, <1>4

\* The threads of a launch hold what the buffer held.
LEMMA LaunchKeeps ==
  ASSUME SoundLimits, SoundTuning, Reduces(call), Build.reads = GpuTuning.reads,
         BufferKept(call, src, first), LaunchPass
  PROVE  GroupsKept(call, totals', simd', GpuTuning.threads)
<1>1. /\ totals' = [g \in Groups |-> [t \in Threads |-> ThreadTotal(g, t)]]
      /\ DOMAIN src # {}
  BY DEF LaunchPass
<1>2. PICK n \in Nat : /\ src \in [0 .. n - 1 -> ValuesOf(call)]
                       /\ Counted(call, src, first) \subseteq 0 .. n - 1
                       /\ Folded(call, src, Counted(call, src, first))
                            = Folded(call, call.values, call.valid)
  BY DEF BufferKept
<1>3. n \in Nat \ {0} /\ Length(src) = n
  BY <1>1, <1>2, LengthOfIndexed
<1>4. PICK k \in Nat \ {0} : num_threadgroups(n) = k
  BY <1>3, SomeGroup
<1> DEFINE T == GpuTuning.threads
<1>5. T \in Nat \ {0} /\ Threads = 0 .. T - 1 /\ Groups = 0 .. k - 1
  BY <1>3, <1>4, TuningType DEF Threads, Groups
<1> DEFINE held == [g \in 0 .. k - 1 |-> [t \in Threads |-> ThreadTotal(g, t)]]
<1>6. /\ held \in [0 .. k - 1 -> [Threads -> ValuesOf(call)]]
      /\ Folded(call, [g \in 0 .. k - 1 |-> Folded(call, held[g], Threads)], 0 .. k - 1)
           = Folded(call, src, Counted(call, src, first))
  BY <1>2, <1>4, LaunchFolded
<1>7. totals' = held
  BY <1>1, <1>5
<1> HIDE DEF held
<1>8. HeldBy(call, totals', k, T)
  <2> HIDE DEF T
  <2> QED BY <1>2, <1>5, <1>6, <1>7 DEF HeldBy
<1>9. Divisible(simd', T, T)
  <2>1. GpuTuning \in {AppleTuning, OlderTuning}
    BY DEF GpuTuning
  <2>2. \E j \in Nat : T = 2 ^ j
    BY <2>1 DEF SoundTuning
  <2> HIDE DEF T
  <2> QED BY <2>2 DEF Divisible
<1> HIDE DEF T
<1>10. k \in Nat \ {0} /\ T \in Nat \ {0}
  BY <1>5
<1>11. GroupsKept(call, totals', simd', T)
  BY <1>8, <1>9, <1>10 DEF GroupsKept
<1> QED BY <1>11 DEF T

\* The k values of each group of u fold to what the h values of that group of t do.
Refolds(c, n, t, h, u, k) ==
  /\ DOMAIN u = 0 .. n - 1 /\ u = [g \in DOMAIN u |-> u[g]]
  /\ \A g \in 0 .. n - 1 : /\ u[g] \in [0 .. k - 1 -> ValuesOf(c)]
                           /\ Folded(c, u[g], 0 .. k - 1) = Folded(c, t[g], 0 .. h - 1)

\* A round in which no group loses anything.
LEMMA RoundKeeps ==
  ASSUME NEW c, NEW n \in Nat \ {0}, NEW t, NEW h, HeldBy(c, t, n, h), NEW u, NEW k,
         Refolds(c, n, t, h, u, k)
  PROVE  HeldBy(c, u, n, k)
<1> DEFINE G == 0 .. n - 1
           H == 0 .. h - 1
           K == 0 .. k - 1
           before(g) == Folded(c, t[g], H)
           after(g) == Folded(c, u[g], K)
<1>1. \A g \in G : after(g) = before(g)
  BY DEF Refolds
<1>2. u \in [G -> [K -> ValuesOf(c)]]
  <2> DEFINE W == [K -> ValuesOf(c)]
  <2>1. \A g \in G : u[g] \in W
    BY DEF Refolds
  <2>2. u = [g \in G |-> u[g]]
    BY DEF Refolds
  <2> HIDE DEF W, G
  <2>3. u \in [G -> W]
    BY <2>1, <2>2
  <2> QED BY <2>3 DEF W
<1>3. Folded(c, [g \in G |-> before(g)], G) = Folded(c, c.values, c.valid)
  BY DEF HeldBy
<1> HIDE DEF before, after
<1>4. [g \in G |-> before(g)] = [g \in G |-> after(g)]
  BY <1>1
<1>5. Folded(c, [g \in G |-> after(g)], G) = Folded(c, c.values, c.valid)
  BY <1>3, <1>4
<1> QED BY <1>2, <1>5 DEF HeldBy, after

\* The number of values a group holds.
LEMMA HeldLength ==
  ASSUME NEW c, NEW n \in Nat \ {0}, NEW h \in Nat, HeldBy(c, totals, n, h)
  PROVE  /\ Held = h /\ DOMAIN totals = 0 .. n - 1 /\ Length(totals) = n
         /\ \A g \in 0 .. n - 1 : totals[g] \in [0 .. h - 1 -> ValuesOf(c)]
<1>1. totals \in [0 .. n - 1 -> [0 .. h - 1 -> ValuesOf(c)]]
  BY DEF HeldBy
<1>2. DOMAIN totals = 0 .. n - 1 /\ DOMAIN totals[0] = 0 .. h - 1
  BY <1>1
<1>3. Length(totals) = n /\ Length(totals[0]) = h
  <2>1. n \in Nat
    OBVIOUS
  <2> QED BY <1>2, <2>1, LengthOfIndexed
<1>4. \A g \in 0 .. n - 1 : totals[g] \in [0 .. h - 1 -> ValuesOf(c)]
  BY <1>1
<1> QED BY <1>2, <1>3, <1>4 DEF Held

\* The tree of a group.
LEMMA TreeRoundKeeps ==
  ASSUME SoundLimits, Reduces(call), NEW threads,
         GroupsKept(call, totals, simd, threads), TreeRound
  PROVE  GroupsKept(call, totals', simd', threads)
<1>1. PICK n \in Nat \ {0}, h \in Nat \ {0} :
        HeldBy(call, totals, n, h) /\ Divisible(simd, threads, h)
  BY DEF GroupsKept
<1>2. /\ ~simd /\ simd' = simd /\ Held > 1
      /\ totals' = [g \in DOMAIN totals |->
                      [t \in 0 .. Stride - 1 |->
                         Apply(call, totals[g][t], totals[g][t + Stride])]]
  BY DEF TreeRound
<1>3. /\ Held = h /\ DOMAIN totals = 0 .. n - 1
      /\ \A g \in 0 .. n - 1 : totals[g] \in [0 .. h - 1 -> ValuesOf(call)]
  BY <1>1, HeldLength
<1>4. PICK k \in Nat : h = 2 ^ k
  BY <1>1, <1>2 DEF Divisible
<1>5. k # 0
  <2> SUFFICES ASSUME k = 0 PROVE FALSE
    OBVIOUS
  <2>1. h = 2 ^ 0
    BY <1>4
  <2>2. h = 1
    BY <2>1, ZerothPower
  <2> QED BY <1>2, <1>3, <2>2
<1> DEFINE s == 2 ^ (k - 1)
<1>6. s \in Nat \ {0} /\ h = 2 * s /\ k - 1 \in Nat
  <2>1. k - 1 \in Nat /\ (k - 1) + 1 = k
    BY <1>5
  <2> QED BY <1>4, <2>1, PowerOfTwo
<1>7. Stride = s
  <2> HIDE DEF s
  <2> QED BY <1>3, <1>6 DEF Stride
<1>8. Divisible(simd', threads, s)
  BY <1>2, <1>6 DEF Divisible
<1> HIDE DEF s
<1> DEFINE u == totals'
<1>9. ASSUME NEW g \in 0 .. n - 1
      PROVE  /\ u[g] \in [0 .. s - 1 -> ValuesOf(call)]
             /\ Folded(call, u[g], 0 .. s - 1) = Folded(call, totals[g], 0 .. h - 1)
  <2> DEFINE f == totals[g]
             half == Halved(call, f, s)
  <2>1. u[g] = half
    BY <1>2, <1>3, <1>7 DEF Halved
  <2>2. f \in [0 .. h - 1 -> ValuesOf(call)]
    BY <1>3
  <2> HIDE DEF f, u
  <2>3. /\ half \in [0 .. s - 1 -> ValuesOf(call)]
        /\ Folded(call, half, 0 .. s - 1) = Folded(call, f, 0 .. h - 1)
    BY <1>6, <2>2, HalvesFolded
  <2> HIDE DEF half
  <2> QED BY <2>1, <2>3 DEF f
<1>10. DOMAIN u = 0 .. n - 1 /\ u = [g \in DOMAIN u |-> u[g]]
  BY <1>2, <1>3
<1> HIDE DEF u
<1>11. HeldBy(call, u, n, s)
  <2>1. Refolds(call, n, totals, h, u, s)
    BY <1>9, <1>10 DEF Refolds
  <2> QED BY <1>1, <2>1, RoundKeeps
<1> QED BY <1>6, <1>8, <1>11 DEF u, GroupsKept

\* The SIMD-groups of a group, and then what they hold.
LEMMA SimdRoundKeeps ==
  ASSUME SoundLimits, SoundTuning, Reduces(call),
         GroupsKept(call, totals, simd, GpuTuning.threads), SimdRound
  PROVE  GroupsKept(call, totals', simd', GpuTuning.threads)
<1> DEFINE T == GpuTuning.threads
           k == SimdGroups
<1>1. PICK n \in Nat \ {0}, h \in Nat \ {0} :
        HeldBy(call, totals, n, h) /\ Divisible(simd, T, h)
  BY DEF GroupsKept
<1>2. /\ simd /\ simd' = simd
      /\ totals' = [g \in DOMAIN totals |->
                      [s \in 0 .. SimdGroups - 1 |-> Reduced(call, totals[g], Lanes(s))]]
  BY DEF SimdRound
<1>3. /\ Held = h /\ DOMAIN totals = 0 .. n - 1
      /\ \A g \in 0 .. n - 1 : totals[g] \in [0 .. h - 1 -> ValuesOf(call)]
  BY <1>1, HeldLength
<1>4. SimdWidth \in Nat \ {0} /\ \E d \in 1 .. SimdWidth : T = d * SimdWidth
  <2>1. GpuTuning \in {AppleTuning, OlderTuning}
    BY DEF GpuTuning
  <2> QED BY <2>1 DEF SoundTuning
<1>5. /\ k \in 1 .. SimdWidth
      /\ \A t \in 0 .. h - 1 : t \div SimdWidth \in 0 .. k - 1
  <2>1. PICK d \in 1 .. SimdWidth : T = d * SimdWidth
    BY <1>4
  <2>2. CASE h = T /\ h > SimdWidth
    <3>1. k = h \div SimdWidth
      BY <1>3, <2>2 DEF SimdGroups
    <3>2. k = d
      <4>1. h = d * SimdWidth + 0 /\ d \in Nat /\ 0 \in 0 .. SimdWidth - 1
        BY <1>4, <2>1, <2>2
      <4> DEFINE q == h \div SimdWidth
                 r == h % SimdWidth
      <4>2. q \in Nat /\ r \in 0 .. SimdWidth - 1 /\ h = q * SimdWidth + r
        BY <1>4, DivMod
      <4> HIDE DEF q, r, T, k
      <4>3. q * SimdWidth + r = d * SimdWidth + 0
        BY <4>1, <4>2
      <4>4. q = d
        BY <1>4, <4>1, <4>2, <4>3, DivUnique
      <4> QED BY <3>1, <4>4 DEF q
    <3>3. ASSUME NEW t \in 0 .. h - 1 PROVE t \div SimdWidth \in 0 .. d - 1
      <4>1. h = SimdWidth * d /\ d \in Nat \ {0}
        BY <1>4, <2>1, <2>2
      <4>2. t \in 0 .. SimdWidth * d - 1
        BY <4>1
      <4>3. \A b \in 0 .. SimdWidth * d - 1 : b \div SimdWidth \in 0 .. d - 1
        <5>1. SimdWidth \in Nat \ {0} /\ d \in Nat \ {0}
          BY <1>4, <4>1
        <5> QED BY <5>1, BlockIndex
      <4> QED BY <4>2, <4>3
    <3> HIDE DEF k
    <3> QED BY <3>2, <3>3
  <2>3. CASE ~(h = T /\ h > SimdWidth)
    <3>1. k = 1
      BY <1>3, <2>3 DEF SimdGroups
    <3>2. h <= SimdWidth
      <4>1. h = T \/ h <= SimdWidth
        BY <1>1, <1>2 DEF Divisible
      <4> HIDE DEF T
      <4> QED BY <1>4, <2>3, <4>1
    <3> HIDE DEF k
    <3>3. ASSUME NEW t \in 0 .. h - 1 PROVE t \div SimdWidth \in 0 .. 0
      <4>1. h <= SimdWidth * 1
        BY <1>4, <3>2
      <4>2. t \in 0 .. SimdWidth * 1 - 1
        BY <1>4, <4>1
      <4>3. \A b \in 0 .. SimdWidth * 1 - 1 : b \div SimdWidth \in 0 .. 1 - 1
        <5>1. SimdWidth \in Nat \ {0} /\ 1 \in Nat \ {0}
          BY <1>4
        <5> QED BY <5>1, BlockIndex
      <4> QED BY <4>2, <4>3
    <3> QED BY <1>4, <3>1, <3>3
  <2> QED BY <2>2, <2>3
<1> DEFINE I == 0 .. h - 1
           K == 0 .. k - 1
           number == [t \in I |-> t \div SimdWidth]
           u == totals'
<1>6. \A s : Lanes(s) = PartOf(I, number, s)
  BY <1>3 DEF Lanes, PartOf
<1>7. number \in [I -> K]
  <2> HIDE DEF k
  <2> QED BY <1>5
<1>8. IsFiniteSet(I) /\ IsFiniteSet(K) /\ k \in Nat \ {0} /\ k <= SimdWidth
  <2> HIDE DEF k
  <2>1. k \in Nat \ {0} /\ k <= SimdWidth
    BY <1>4, <1>5
  <2>2. \A x \in Nat : IsFiniteSet(0 .. x - 1)
    BY FS_Interval
  <2> QED BY <2>1, <2>2
<1>9. u = [g \in 0 .. n - 1 |-> [s \in K |-> Reduced(call, totals[g], PartOf(I, number, s))]]
  <2> HIDE DEF I, number
  <2> QED BY <1>2, <1>3, <1>6
<1>10. Divisible(simd', T, k)
  BY <1>2, <1>8 DEF Divisible
<1> HIDE DEF T, k, number
<1>11. ASSUME NEW g \in 0 .. n - 1
       PROVE  /\ u[g] \in [K -> ValuesOf(call)]
              /\ Folded(call, u[g], K) = Folded(call, totals[g], I)
  <2> DEFINE f == totals[g]
             part == [s \in K |-> Reduced(call, f, PartOf(I, number, s))]
  <2>1. u[g] = part
    BY <1>9
  <2>2. f \in [I -> ValuesOf(call)]
    BY <1>3
  <2> HIDE DEF f, u, I, K
  <2>3. part \in [K -> ValuesOf(call)] /\ Folded(call, part, K) = Folded(call, f, I)
    BY <1>7, <1>8, <2>2, LanesFolded
  <2> HIDE DEF part
  <2> QED BY <2>1, <2>3 DEF f
<1>12. DOMAIN u = 0 .. n - 1 /\ u = [g \in DOMAIN u |-> u[g]]
  BY <1>9
<1> HIDE DEF u
<1>13. HeldBy(call, u, n, k)
  <2>1. Refolds(call, n, totals, h, u, k)
    BY <1>11, <1>12 DEF Refolds
  <2>2. HeldBy(call, totals, n, h)
    BY <1>1
  <2> HIDE DEF I, K
  <2> QED BY <2>1, <2>2, RoundKeeps
<1>14. GroupsKept(call, u, simd', T)
  BY <1>8, <1>10, <1>13 DEF GroupsKept
<1> QED BY <1>14 DEF u, T

\* What the groups store.
LEMMA EndKeeps ==
  ASSUME SoundLimits, Reduces(call), NEW threads,
         GroupsKept(call, totals, simd, threads), EndPass
  PROVE  /\ BufferKept(call, src', FALSE)
         /\ DOMAIN src' # {} /\ (stage' = "reduced" => DOMAIN src' = 0 .. 0)
<1>1. PICK n \in Nat \ {0}, h \in Nat \ {0} : HeldBy(call, totals, n, h)
  BY DEF GroupsKept
<1>2. /\ Held = 1 /\ src' = [g \in DOMAIN totals |-> totals[g][0]]
      /\ stage' = "reduced" => ~(Length(totals) > 1)
  BY DEF EndPass, StorePartials
<1>3. /\ Held = h /\ DOMAIN totals = 0 .. n - 1 /\ Length(totals) = n
      /\ \A g \in 0 .. n - 1 : totals[g] \in [0 .. h - 1 -> ValuesOf(call)]
  BY <1>1, HeldLength
<1>4. h = 1
  BY <1>2, <1>3
<1> DEFINE G == 0 .. n - 1
           V == ValuesOf(call)
<1>5. \A g \in G : Folded(call, totals[g], 0 .. h - 1) = totals[g][0] /\ totals[g][0] \in V
  <2> SUFFICES ASSUME NEW g \in G
               PROVE  Folded(call, totals[g], 0 .. h - 1) = totals[g][0] /\ totals[g][0] \in V
    OBVIOUS
  <2> DEFINE f == totals[g]
  <2>1. f \in [0 .. 0 -> V] /\ 0 .. h - 1 = 0 .. 0
    BY <1>3, <1>4
  <2> HIDE DEF f
  <2>2. Folded(call, f, 0 .. 0) = f[0] /\ f[0] \in V
    BY <2>1, OneFolded
  <2> QED BY <2>1, <2>2 DEF f
<1>6. src' = [g \in G |-> Folded(call, totals[g], 0 .. h - 1)]
  <2> HIDE DEF G
  <2>1. src' = [g \in G |-> totals[g][0]]
    BY <1>2, <1>3 DEF G
  <2> QED BY <1>5, <2>1
<1>7. src' \in [G -> V]
  <2>1. src' = [g \in G |-> totals[g][0]]
    BY <1>2, <1>3
  <2> HIDE DEF G, V
  <2> QED BY <1>5, <2>1
<1>8. Folded(call, src', G) = Folded(call, call.values, call.valid)
  BY <1>1, <1>6 DEF HeldBy
<1>9. Counted(call, src', FALSE) = G
  <2> HIDE DEF G, V
  <2> QED BY <1>7 DEF Counted
<1>10. BufferKept(call, src', FALSE)
  BY <1>7, <1>8, <1>9 DEF BufferKept
<1>11. DOMAIN src' = 0 .. n - 1
  BY <1>2, <1>3
<1>12. stage' = "reduced" => n = 1
  BY <1>2, <1>3
<1>13. DOMAIN src' # {} /\ (stage' = "reduced" => DOMAIN src' = 0 .. 0)
  <2>1. 0 \in 0 .. n - 1 /\ (n = 1 => 0 .. n - 1 = 0 .. 0)
    OBVIOUS
  <2> QED BY <1>11, <1>12, <2>1
<1> QED BY <1>10, <1>13

-----------------------------------------------------------------------------
(* The totals are kept *)

SoundReductions == SoundLimits /\ SoundRequests /\ SoundTuning /\ MatchingBinaries

LEMMA InitTotals == Init => TotalsInv
BY DEF Init, TotalsInv, Busy

LEMMA StepTotals ==
  ASSUME SoundReductions, IInv, TotalsInv, [Next]_vars
  PROVE  TotalsInv'
<1>0. SoundLimits /\ SoundRequests /\ SoundTuning
  BY DEF SoundReductions
<1>1. CASE \E c \in Requests : Ask(c)
  <2>1. PICK c \in Requests : Ask(c)
    BY <1>1
  <2>2. stage' = "begin" /\ call' = c
    BY <2>1 DEF Ask
  <2>3. Reduces(c)
    BY <1>0, RequestValues
  <2> QED BY <2>2, <2>3 DEF TotalsInv, Busy
<1>2. CASE SetDebug
  <2>1. stage' = "idle"
    BY <1>2 DEF SetDebug
  <2> QED BY <2>1 DEF TotalsInv, Busy
<1>3. CASE SetUp
  <2>1. /\ stage = "begin" /\ stage' = "pass" /\ src' = call.values /\ first' = TRUE
        /\ call' = call
    BY <1>3 DEF SetUp, Accepted
  <2>2. call \in Requests /\ Reduces(call)
    BY <2>1 DEF TotalsInv
  <2>3. BufferKept(call, call.values, TRUE)
    BY <1>0, <2>2, ColumnKept
  <2>4. call.valid = {} => call.op = "sum"
    BY <1>3 DEF SetUp, Accepted, AllNull, Masked, RaisesOnEmpty
  <2> QED BY <2>1, <2>2, <2>3, <2>4 DEF TotalsInv
<1>4. CASE LaunchPass
  <2>1. stage = "pass" /\ stage' = "rounds" /\ call' = call /\ UNCHANGED libraryVars
    BY <1>4 DEF LaunchPass
  <2>2. call \in Requests /\ Reduces(call) /\ BufferKept(call, src, first)
    BY <2>1 DEF TotalsInv, Busy
  <2>3. Build.reads = GpuTuning.reads
    BY <2>1 DEF IInv, PassMatches, Build
  <2>4. GroupsKept(call, totals', simd', GpuTuning.threads)
    BY <1>0, <1>4, <2>2, <2>3, LaunchKeeps
  <2>5. GpuTuning' = GpuTuning
    BY <2>1 DEF libraryVars, GpuTuning
  <2>6. call.valid = {} => call.op = "sum"
    BY <2>1 DEF TotalsInv, Busy
  <2> QED BY <2>1, <2>2, <2>4, <2>5, <2>6 DEF TotalsInv
<1>5. CASE TreeRound \/ SimdRound
  <2>1. stage = "rounds" /\ stage' = "rounds" /\ call' = call /\ UNCHANGED libraryVars
    BY <1>5 DEF TreeRound, SimdRound
  <2>2. /\ call \in Requests /\ Reduces(call)
        /\ GroupsKept(call, totals, simd, GpuTuning.threads)
    BY <2>1 DEF TotalsInv, Busy
  <2>3. TreeRound => GroupsKept(call, totals', simd', GpuTuning.threads)
    BY <1>0, <2>2, TreeRoundKeeps
  <2>4. SimdRound => GroupsKept(call, totals', simd', GpuTuning.threads)
    BY <1>0, <2>2, SimdRoundKeeps
  <2>5. GpuTuning' = GpuTuning
    BY <2>1 DEF libraryVars, GpuTuning
  <2>6. call.valid = {} => call.op = "sum"
    BY <2>1 DEF TotalsInv, Busy
  <2> QED BY <1>5, <2>1, <2>2, <2>3, <2>4, <2>5, <2>6 DEF TotalsInv
<1>6. CASE EndPass
  <2>1. /\ stage = "rounds" /\ stage' \in {"pass", "reduced"} /\ call' = call
        /\ first' = FALSE
    BY <1>6 DEF EndPass, StorePartials
  <2>2. /\ call \in Requests /\ Reduces(call)
        /\ GroupsKept(call, totals, simd, GpuTuning.threads)
    BY <2>1 DEF TotalsInv, Busy
  <2>3. /\ BufferKept(call, src', FALSE)
        /\ DOMAIN src' # {} /\ (stage' = "reduced" => DOMAIN src' = 0 .. 0)
    BY <1>0, <1>6, <2>2, EndKeeps
  <2>4. call.valid = {} => call.op = "sum"
    BY <2>1 DEF TotalsInv, Busy
  <2> QED BY <2>1, <2>2, <2>3, <2>4 DEF TotalsInv
<1>7. CASE Refuse \/ CompileFails \/ CommandBufferError \/ AnswerAllNull \/ ReadScalar
             \/ ReadUnwritten \/ AskPandas
  <2>1. stage' \in {"idle", "pandas"}
    BY <1>7 DEF Refuse, CompileFails, CommandBufferError, AnswerAllNull, ReadScalar,
         ReadUnwritten, AskPandas, Return
  <2> QED BY <2>1 DEF TotalsInv, Busy
<1>8. CASE UNCHANGED vars
  <2>1. /\ call' = call /\ stage' = stage /\ src' = src /\ first' = first /\ simd' = simd
        /\ totals' = totals /\ GpuTuning' = GpuTuning
    BY <1>8 DEF vars, GpuTuning
  <2> QED BY <2>1 DEF TotalsInv
<1> QED BY <1>1, <1>2, <1>3, <1>4, <1>5, <1>6, <1>7, <1>8 DEF Next, Reduce

\* A recursion over the domain of an indexed buffer.
LEMMA ReducedBuffer ==
  ASSUME SoundLimits, NEW c, Reduces(c), NEW n \in Nat,
         NEW f \in [0 .. n - 1 -> ValuesOf(c)]
  PROVE  Reduced(c, f, DOMAIN f) = Folded(c, f, 0 .. n - 1)
<1> DEFINE I == 0 .. n - 1
<1>1. IsFiniteSet(I) /\ I \in SUBSET I
  BY FS_Interval
<1>2. DOMAIN f = I /\ f \in [I -> ValuesOf(c)]
  OBVIOUS
<1> HIDE DEF I
<1>3. Reduced(c, f, I) = Folded(c, f, I)
  BY <1>1, <1>2, ReducedIsFolded
<1> QED BY <1>2, <1>3 DEF I

LEMMA WantedIsFolded ==
  ASSUME SoundLimits, SoundRequests, call \in Requests
  PROVE  WantedTotal = Folded(call, call.values, call.valid)
<1> DEFINE I == DOMAIN call.values
           f == call.values
           S == call.valid
<1>1. Reduces(call) /\ S \in SUBSET I /\ f \in [I -> ValuesOf(call)] /\ IsFiniteSet(I)
  BY RequestValues
<1> HIDE DEF I, f, S
<1>2. IsFiniteSet(S)
  BY <1>1, FS_Subset
<1>3. Reduced(call, f, S) = Folded(call, f, S)
  BY <1>1, <1>2, ReducedIsFolded
<1> QED BY <1>3 DEF WantedTotal, f, S

LEMMA KeptTotals ==
  ASSUME SoundLimits, SoundRequests, TotalsInv
  PROVE  TotalsKept
<1>1. ASSUME stage \in {"pass", "reduced"}, ~first
      PROVE  Reduced(call, src, DOMAIN src) = WantedTotal
  <2>1. call \in Requests /\ Reduces(call) /\ BufferKept(call, src, first)
    BY <1>1 DEF TotalsInv, Busy
  <2>2. Counted(call, src, first) = DOMAIN src
    BY <1>1 DEF Counted
  <2>3. PICK n \in Nat : /\ src \in [0 .. n - 1 -> ValuesOf(call)]
                         /\ Folded(call, src, DOMAIN src) = Folded(call, call.values, call.valid)
    BY <2>1, <2>2 DEF BufferKept
  <2>4. Reduced(call, src, DOMAIN src) = Folded(call, src, 0 .. n - 1)
    BY <2>1, <2>3, ReducedBuffer
  <2>5. DOMAIN src = 0 .. n - 1
    BY <2>3
  <2>6. WantedTotal = Folded(call, call.values, call.valid)
    BY <2>1, WantedIsFolded
  <2> QED BY <2>3, <2>4, <2>5, <2>6
<1>2. ASSUME stage = "rounds"
      PROVE  Reduced(call, [g \in DOMAIN totals |->
                       Reduced(call, totals[g], DOMAIN totals[g])], DOMAIN totals) = WantedTotal
  <2>1. call \in Requests /\ Reduces(call) /\ GroupsKept(call, totals, simd, GpuTuning.threads)
    BY <1>2 DEF TotalsInv, Busy
  <2>2. PICK n \in Nat \ {0}, h \in Nat \ {0} : HeldBy(call, totals, n, h)
    BY <2>1 DEF GroupsKept
  <2>3. DOMAIN totals = 0 .. n - 1
        /\ \A g \in 0 .. n - 1 : totals[g] \in [0 .. h - 1 -> ValuesOf(call)]
    BY <2>2, HeldLength
  <2> DEFINE G == 0 .. n - 1
             F(g) == Reduced(call, totals[g], DOMAIN totals[g])
             E(g) == Folded(call, totals[g], 0 .. h - 1)
             sums == [g \in G |-> E(g)]
  <2>4. ASSUME NEW g \in G PROVE F(g) = E(g) /\ E(g) \in ValuesOf(call)
    <3> DEFINE f == totals[g]
               I == 0 .. h - 1
    <3>1. f \in [0 .. h - 1 -> ValuesOf(call)] /\ h \in Nat
      BY <2>3
    <3>2. IsFiniteSet(I) /\ I \in SUBSET I
      BY FS_Interval
    <3> HIDE DEF f
    <3>3. Reduced(call, f, DOMAIN f) = Folded(call, f, 0 .. h - 1)
      BY <2>1, <3>1, ReducedBuffer
    <3>4. Folded(call, f, I) \in ValuesOf(call)
      <4> DEFINE V == ValuesOf(call)
                 m == Combining(call)
                 e == Zero(call)
      <4>1. Monoid(m, V, e)
        BY <2>1, ReductionMonoid
      <4>2. f \in [I -> V]
        BY <3>1
      <4> HIDE DEF I, V, m, e
      <4>3. \A S \in SUBSET I : IsFiniteSet(S) => FoldOf(m, V, e, f, S) \in V
        BY <4>1, <4>2, FoldOfFacts
      <4> QED BY <3>2, <4>3 DEF Folded, V, m, e
    <3> QED BY <3>3, <3>4 DEF f
  <2> HIDE DEF F, E
  <2>5. [g \in G |-> F(g)] = sums /\ sums \in [G -> ValuesOf(call)]
    BY <2>4
  <2>6. Folded(call, sums, G) = Folded(call, call.values, call.valid)
    BY <2>2 DEF HeldBy, E
  <2>7. DOMAIN sums = G
    OBVIOUS
  <2> HIDE DEF sums
  <2>8. Reduced(call, sums, DOMAIN sums) = Folded(call, sums, G)
    <3>1. sums \in [0 .. n - 1 -> ValuesOf(call)] /\ n \in Nat
      BY <2>5
    <3> HIDE DEF G
    <3>2. Reduced(call, sums, DOMAIN sums) = Folded(call, sums, 0 .. n - 1)
      BY <2>1, <3>1, ReducedBuffer
    <3> QED BY <3>2 DEF G
  <2>9. WantedTotal = Folded(call, call.values, call.valid)
    BY <2>1, WantedIsFolded
  <2>10. Reduced(call, [g \in DOMAIN totals |-> F(g)], DOMAIN totals) = WantedTotal
    BY <2>3, <2>5, <2>6, <2>7, <2>8, <2>9
  <2> QED BY <2>10 DEF F
<1> QED BY <1>1, <1>2 DEF TotalsKept

\* Whatever the pass and the round of whatever call, what is held anywhere folds
\* to the result: no element, partial or lane is left out or counted twice, by
\* reductions of every length over groups of every width that is a power of two
\* and that its SIMD-groups divide.
THEOREM TotalsAlwaysKept ==
  SoundReductions => (Spec => []TotalsKept)
<1> SUFFICES ASSUME SoundReductions
             PROVE  Spec => []TotalsKept
  OBVIOUS
<1>1. Init => IInv /\ TotalsInv
  BY InitMatches, InitTotals
<1>2. IInv /\ TotalsInv /\ [Next]_vars => (IInv /\ TotalsInv)'
  BY StepMatches, StepTotals DEF SoundReductions
<1>3. IInv /\ TotalsInv => TotalsKept
  BY KeptTotals DEF SoundReductions
<1> QED BY <1>1, <1>2, <1>3, PTL DEF Spec

\* A call ends with what pandas returns.
AnswersPandas ==
  stage # "idle" /\ stage' = "idle" /\ (call.valid # {} \/ call.op # "sum") =>
    answer' = PandasReduction(call)

LEMMA ScalarIsTotal ==
  ASSUME SoundLimits, SoundRequests, TotalsInv, stage = "reduced"
  PROVE  src[0] = WantedTotal
<1>1. /\ call \in Requests /\ Reduces(call) /\ BufferKept(call, src, first)
      /\ ~first /\ DOMAIN src = 0 .. 0
  BY DEF TotalsInv, Busy
<1>2. Counted(call, src, first) = 0 .. 0
  BY <1>1 DEF Counted
<1>3. PICK n \in Nat : /\ src \in [0 .. n - 1 -> ValuesOf(call)]
                       /\ Folded(call, src, 0 .. 0) = Folded(call, call.values, call.valid)
  BY <1>1, <1>2 DEF BufferKept
<1> DEFINE f == src
<1>4. f \in [0 .. 0 -> ValuesOf(call)]
  <2>1. 0 .. n - 1 = 0 .. 0
    BY <1>1, <1>3
  <2> QED BY <1>3, <2>1
<1> HIDE DEF f
<1>5. Folded(call, f, 0 .. 0) = f[0]
  BY <1>1, <1>4, OneFolded
<1>6. WantedTotal = Folded(call, call.values, call.valid)
  BY <1>1, WantedIsFolded
<1> QED BY <1>3, <1>5, <1>6 DEF f

\* A reduction that is answered at all returns what pandas returns, whichever path
\* it took: a scalar read after the last pass, NaN without a kernel, or pandas
\* itself after a refusal or a failure.  Sums of columns without any value are the
\* exception: pandas answers 0, the code NaN, or what an unwritten buffer holds.
THEOREM ReductionsAnswerPandas ==
  SoundReductions => (Spec => [][AnswersPandas]_vars)
<1> SUFFICES ASSUME SoundReductions
             PROVE  Spec => [][AnswersPandas]_vars
  OBVIOUS
<1>0. SoundLimits /\ SoundRequests
  BY DEF SoundReductions
<1>1. Init => IInv /\ TotalsInv
  BY InitMatches, InitTotals
<1>2. IInv /\ TotalsInv /\ [Next]_vars => (IInv /\ TotalsInv)'
  BY StepMatches, StepTotals DEF SoundReductions
<1>3. ASSUME TotalsInv, Next PROVE AnswersPandas
  <2> SUFFICES ASSUME stage # "idle", stage' = "idle",
                      call.valid # {} \/ call.op # "sum"
               PROVE  answer' = PandasReduction(call)
    BY DEF AnswersPandas
  <2>1. CASE AnswerAllNull
    <3>1. answer' = NaN /\ call.valid = {}
      BY <2>1 DEF AnswerAllNull, AllNull, Return
    <3> QED BY <3>1 DEF PandasReduction
  <2>2. CASE AskPandas
    BY <2>2 DEF AskPandas, Return
  <2>3. CASE ReadScalar
    <3>1. /\ stage = "reduced"
          /\ answer' = IF call.op = "mean" THEN <<src[0], MeanCount(call)>> ELSE src[0]
      BY <2>3 DEF ReadScalar, Return
    <3>2. src[0] = WantedTotal
      BY <1>0, <1>3, <3>1, ScalarIsTotal
    <3>3. call.valid # {}
      BY <1>3, <3>1 DEF TotalsInv, Busy
    <3> QED BY <3>1, <3>2, <3>3 DEF PandasReduction, WantedTotal, MeanCount
  <2>4. CASE ReadUnwritten
    <3>1. stage = "pass" /\ DOMAIN src = {}
      BY <2>4 DEF ReadUnwritten
    <3>2. first /\ src = call.values /\ call \in Requests
      BY <1>3, <3>1 DEF TotalsInv, Busy
    <3>3. call.valid = {}
      BY <1>0, <3>1, <3>2, RequestValues
    <3> QED BY <1>3, <3>1, <3>3 DEF TotalsInv, Busy
  <2>5. CASE \E c \in Requests : Ask(c)
    BY <2>5 DEF Ask
  <2>6. CASE SetDebug \/ SetUp \/ Refuse \/ CompileFails
    BY <2>6 DEF SetDebug, SetUp, Refuse, CompileFails
  <2>7. CASE LaunchPass \/ TreeRound \/ SimdRound \/ CommandBufferError
    BY <2>7 DEF LaunchPass, TreeRound, SimdRound, CommandBufferError
  <2>8. CASE EndPass
    BY <2>8 DEF EndPass, StorePartials
  <2> QED BY <1>3, <2>1, <2>2, <2>3, <2>4, <2>5, <2>6, <2>7, <2>8 DEF Next, Reduce
<1>4. IInv /\ TotalsInv /\ [Next]_vars => [AnswersPandas]_vars
  BY <1>3
<1> QED BY <1>1, <1>2, <1>4, PTL DEF Spec
=============================================================================
