--------------------------- MODULE TreeReduction ---------------------------
(***************************************************************************)
(* sum, min, max and mean of a column: passes over ever shorter buffers,   *)
(* in which every thread folds the elements it reads and every threadgroup *)
(* what its threads hold, until one value is left.  Only the first pass    *)
(* looks at the null mask, and the first one of a sum of narrow integers   *)
(* widens them.  A call that fails in Rust is answered by pandas.          *)
(***************************************************************************)
EXTENDS KernelLibrary, FiniteSets, Functions

CONSTANTS
  Requests,     \* calls: [op, dtype, values on 0 .. n - 1, valid]
  MaxCalls,     \* bound on the calls of a run
  SimdWidth,    \* threads of a SIMD-group
  MinValue, MaxValue,  \* Limits<T> of the types in the instance
  WordSize,     \* 2^32 of uint32
  DeviceFails,  \* whether compilers and command buffers may fail
  NaN, NoAnswer

VARIABLES
  calls,    \* number of calls so far
  call,     \* what is to be reduced
  stage,    \* "idle", "begin", "pass", "rounds", "reduced" or "pandas"
  src,      \* the buffer the next pass reads
  first,    \* whether that is the first pass
  simd,     \* whether the running kernel folds by SIMD-groups
  builds,   \* how the pipelines of the first and of later passes were built
  totals,   \* what the threads of each group hold, fewer in every round
  answer    \* what the call returns

vars == <<machine, debug, pipelines, calls, call, stage, src, first, simd, builds,
          totals, answer>>

Narrow == {"int8", "int16", "int32", "uint8", "uint16"}
Supported == Narrow \cup {"float32", "uint32", "int64", "uint64", "datetime", "timedelta"}

\* Types with a fast path in the SIMD-group.
SimdTypes == {"float32", "int32", "uint32"}

KernelOp(c) == IF c.op = "mean" THEN "sum" ELSE c.op
Widens(c) == c.dtype \in Narrow /\ KernelOp(c) = "sum"
Masked(c) == c.valid # DOMAIN c.values

-----------------------------------------------------------------------------
\* SumOp, MinOp and MaxOp.
Identity(op) ==
  CASE op = "sum" -> 0 [] op = "min" -> MaxValue [] op = "max" -> MinValue

Apply(c, a, b) ==
  CASE KernelOp(c) = "sum" -> IF c.dtype = "uint32" THEN (a + b) % WordSize ELSE a + b
    [] KernelOp(c) = "min" -> IF a < b THEN a ELSE b
    [] KernelOp(c) = "max" -> IF a > b THEN a ELSE b

Reduced(c, f, S) ==
  FoldFunctionOnSet(LAMBDA a, b : Apply(c, a, b), Identity(KernelOp(c)), f, S)

\* What pandas answers, skipping nulls; a mean is a sum and a count.
PandasReduction(c) ==
  IF c.valid = {} /\ c.op # "sum" THEN NaN
  ELSE IF c.op = "mean" THEN <<Reduced(c, c.values, c.valid), Cardinality(c.valid)>>
  ELSE Reduced(c, c.values, c.valid)

-----------------------------------------------------------------------------
Threads == 0 .. GpuTuning.threads - 1

\* Mutant: a group more where the last one is full.
OneGroupMore(len) == len \div elements_per_reduce_group + 1

num_threadgroups(len) ==
  (len + elements_per_reduce_group - 1) \div elements_per_reduce_group

Length(buffer) == Cardinality(DOMAIN buffer)

Groups == 0 .. num_threadgroups(Length(src)) - 1

Build == IF first THEN builds.first ELSE builds.later

\* Mutant: neighbouring elements for one thread, with the stride of the group.
Clustered(g, t, i) == g * GpuTuning.threads * Build.reads + t * Build.reads + 2 * i

\* base + i * group_size, base = group_id * group_size * N_READS + tid.
Element(g, t, i) ==
  g * GpuTuning.threads * Build.reads + t + i * GpuTuning.threads

\* Mutant: later passes apply the mask of the column to the partials.
InputInEveryPass(e) ==
  IF e \in DOMAIN src /\ e \in call.valid THEN src[e] ELSE Identity(KernelOp(call))

\* idx < len, and is_valid(mask, idx) in the masked kernels.
Input(e) ==
  IF e \in DOMAIN src /\ (first => e \in call.valid)
  THEN src[e] ELSE Identity(KernelOp(call))

ThreadTotal(g, t) ==
  Reduced(call, [i \in 0 .. Build.reads - 1 |-> Input(Element(g, t, i))],
          0 .. Build.reads - 1)

-----------------------------------------------------------------------------
Init ==
  /\ InitLibrary
  /\ calls = 0 /\ call = NoAnswer /\ stage = "idle"
  /\ src = << >> /\ first = TRUE /\ simd = FALSE /\ builds = NoAnswer /\ totals = << >>
  /\ answer = NoAnswer

Ask(c) ==
  /\ stage = "idle" /\ calls < MaxCalls
  /\ calls' = calls + 1
  /\ call' = c
  /\ stage' = "begin"
  /\ answer' = NoAnswer
  /\ UNCHANGED <<libraryVars, src, first, simd, builds, totals>>

SetDebug ==
  /\ stage = "idle" /\ calls < MaxCalls
  /\ \E on \in BOOLEAN : set_debug_enabled(on)
  /\ UNCHANGED <<calls, call, stage, src, first, simd, builds, totals, answer>>

\* _dispatch_reduction refuses other types, and sums of datetimes.
Refused(c) == c.dtype \notin Supported \/ (c.dtype = "datetime" /\ c.op = "sum")

\* A sum of narrow integers does not look at the length.
RaisesOnEmpty(c) == DOMAIN c.values = {} /\ ~(Widens(c) /\ c.op = "sum")

Refuse ==
  /\ stage = "begin"
  /\ Refused(call) \/ RaisesOnEmpty(call)
  /\ stage' = "pandas"
  /\ UNCHANGED <<libraryVars, calls, call, src, first, simd, builds, totals, answer>>

Accepted == stage = "begin" /\ ~Refused(call) /\ ~RaisesOnEmpty(call)

\* The buffers of a call go out of scope.
Released ==
  src' = << >> /\ totals' = << >> /\ first' = TRUE /\ simd' = FALSE /\ builds' = NoAnswer

Return(v) ==
  /\ answer' = v
  /\ stage' = "idle" /\ call' = NoAnswer
  /\ Released
  /\ UNCHANGED <<libraryVars, calls>>

AllNull == Masked(call) /\ call.valid = {}

AnswerAllNull ==
  /\ Accepted /\ AllNull
  /\ Return(NaN)

\* The kernel of the first pass and that of later ones.
FirstKernel(c) ==
  IF Widens(c) THEN <<"reduce_widen_sum", c.dtype>>
  ELSE <<"reduce", c.dtype, KernelOp(c), IF Masked(c) THEN "masked" ELSE "plain">>

LaterKernel(c) ==
  IF Widens(c) THEN <<"reduce", "int64", "sum", "plain">>
               ELSE <<"reduce", c.dtype, KernelOp(c), "plain">>

SetUp ==
  /\ Accepted /\ ~AllNull
  /\ GetPipelines({FirstKernel(call), LaterKernel(call)})
  /\ builds' = [first |-> BuildOf(FirstKernel(call)), later |-> BuildOf(LaterKernel(call))]
  /\ src' = call.values
  /\ first' = TRUE
  /\ stage' = "pass"
  /\ UNCHANGED <<machine, debug, calls, call, simd, totals, answer>>

\* A library whose source does not compile; a precompiled one needs none.
CompileFails ==
  /\ DeviceFails
  /\ Accepted /\ ~AllNull
  /\ ~Precompiled
  /\ stage' = "pandas"
  /\ UNCHANGED <<libraryVars, calls, call, src, first, simd, builds, totals, answer>>

UsesSimd == call.dtype \in SimdTypes /\ ~Widens(call)

\* The loop over reads of every thread.
LaunchPass ==
  /\ stage = "pass"
  /\ DOMAIN src # {}
  /\ totals' = [g \in Groups |-> [t \in Threads |-> ThreadTotal(g, t)]]
  /\ simd' = UsesSimd
  /\ stage' = "rounds"
  /\ UNCHANGED <<libraryVars, calls, call, src, first, builds, answer>>

Held == Length(totals[0])

Stride == Held \div 2

\* One turn of the loop over strides, between two barriers.
TreeRound ==
  /\ stage = "rounds" /\ ~simd /\ Held > 1
  /\ totals' = [g \in DOMAIN totals |->
                  [t \in 0 .. Stride - 1 |-> Apply(call, totals[g][t], totals[g][t + Stride])]]
  /\ UNCHANGED <<libraryVars, calls, call, stage, src, first, simd, builds, answer>>

Lanes(s) == {t \in 0 .. Held - 1 : t \div SimdWidth = s}

\* After the first round one value per SIMD-group is left, after the second one.
SimdGroups == IF Held = GpuTuning.threads /\ Held > SimdWidth THEN Held \div SimdWidth ELSE 1

SimdRound ==
  /\ stage = "rounds" /\ simd /\ Held > 1
  /\ totals' = [g \in DOMAIN totals |->
                  [s \in 0 .. SimdGroups - 1 |-> Reduced(call, totals[g], Lanes(s))]]
  /\ UNCHANGED <<libraryVars, calls, call, stage, src, first, simd, builds, answer>>

\* output[group_id], and the loop while current_len > 1.
StorePartials ==
  /\ stage = "rounds" /\ Held = 1
  /\ src' = [g \in DOMAIN totals |-> totals[g][0]]
  /\ totals' = << >>
  /\ first' = FALSE
  /\ stage' = IF Length(totals) > 1 THEN "pass" ELSE "reduced"
  /\ UNCHANGED <<calls, call, simd, answer>>

EndPass == StorePartials /\ UNCHANGED <<libraryVars, builds>>

CommandBufferError ==
  /\ DeviceFails /\ stage = "rounds"
  /\ totals' = << >>
  /\ stage' = "pandas"
  /\ UNCHANGED <<libraryVars, calls, call, src, first, simd, builds, answer>>

MeanCount(c) == Cardinality(c.valid)

ReadScalar ==
  /\ stage = "reduced"
  /\ Return(IF call.op = "mean" THEN <<src[0], MeanCount(call)>> ELSE src[0])

\* No kernel runs on an empty column, and what the buffer holds is returned.
ReadUnwritten ==
  /\ stage = "pass" /\ DOMAIN src = {}
  /\ \E v \in MinValue .. MaxValue : Return(v)

AskPandas ==
  /\ stage = "pandas"
  /\ Return(PandasReduction(call))

Reduce ==
  \/ Refuse \/ AnswerAllNull \/ SetUp \/ CompileFails
  \/ LaunchPass \/ TreeRound \/ SimdRound \/ EndPass \/ CommandBufferError
  \/ ReadScalar \/ ReadUnwritten \/ AskPandas

Next == (\E c \in Requests : Ask(c)) \/ SetDebug \/ Reduce

Spec == Init /\ [][Next]_vars /\ WF_vars(Reduce)

-----------------------------------------------------------------------------
Slots(len) == (0 .. num_threadgroups(len) - 1) \X Threads \X (0 .. Build.reads - 1)

\* Between the grid the host launches and the indices the kernel computes from
\* the constant compiled into it, every element of a pass is read, by one thread
\* in one of its reads: nothing is left out and nothing counted twice.
EachElementReadOnce ==
  stage = "pass" =>
    \A e \in DOMAIN src :
      \E s \in Slots(Length(src)) :
        \A r \in Slots(Length(src)) : Element(r[1], r[2], r[3]) = e <=> r = s

WantedTotal == Reduced(call, call.values, call.valid)

\* Whatever the pass and the round, what is held anywhere still folds to the
\* result: of the column while it is read, of partials, and of what the threads
\* of all groups hold.
TotalsKept ==
  /\ (stage \in {"pass", "reduced"} /\ ~first) =>
       Reduced(call, src, DOMAIN src) = WantedTotal
  /\ stage = "rounds" =>
       Reduced(call, [g \in DOMAIN totals |->
                 Reduced(call, totals[g], DOMAIN totals[g])], DOMAIN totals) = WantedTotal

\* Columns of finite length, numbered from zero.
ASSUME RequestAssumption ==
  \A c \in Requests :
    IsFiniteSet(DOMAIN c.values) /\ DOMAIN c.values = 0 .. Cardinality(DOMAIN c.values) - 1
=============================================================================
