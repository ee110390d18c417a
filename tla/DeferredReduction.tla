------------------------- MODULE DeferredReduction -------------------------
(***************************************************************************)
(* Deferred series, next to plain reductions: reading the values of an     *)
(* expression, with a kernel generated for it or else the interpreter, and *)
(* sum, min, max and mean of one, by a kernel that evaluates and reduces   *)
(* at once and whose partials go through the passes of plain reductions,   *)
(* or, where that does not apply or fails, by pandas over the values.      *)
(***************************************************************************)
EXTENDS TreeReduction, Expressions

CONSTANTS
  Jobs,           \* [op, tree, columns, size], op may also be "values"
  FusedThreads,   \* THREADGROUP_SIZE of expression.rs
  MaxColumns,     \* column slots of the kernels
  OldUnary, NewUnary,  \* unary operators of both interpreters, of one alone
  Raised          \* the answer of a call that raises

VARIABLES
  job,       \* NoAnswer in a plain reduction
  compiled   \* CODEGEN_CACHE: programs with a kernel

jobVars == <<job, compiled>>
allVars == <<vars, job, compiled>>

Rows(j) == 0 .. j.size - 1

\* What is computed from a call alone, before and by the kernels.
Series == [j \in Jobs |-> collect_columns(j.tree)]
Program == [j \in Jobs |-> compile_bytecode(j.tree, Series[j])]
Buffers(j) == [i \in DOMAIN Series[j] |-> j.columns[Series[j][i]]]

TreeColumn == [j \in Jobs |-> [r \in Rows(j) |-> TreeValue(j.tree, j.columns, r)]]
Generated == [j \in Jobs |-> [r \in Rows(j) |-> RunGenerated(Program[j], Buffers(j), r)]]
Interpreted(known) ==
  [j \in Jobs |-> [r \in Rows(j) |-> eval_program(Program[j], Buffers(j), r, known)]]

\* The interpreter of the fused kernel lacks the operators added last.
FusedColumn == Interpreted(OldUnary)
InterpreterColumn == Interpreted(OldUnary \cup NewUnary)

\* A column as pandas reduces it: NaN is null.
Reduction(op, values) ==
  [op |-> op, dtype |-> "float32", values |-> values,
   valid |-> {r \in DOMAIN values : values[r] # NaN}]

\* _fused_reduce: an expression, and no NaN in its columns.
Fusable(j) ==
  /\ j.op # "values" /\ j.tree.kind # "column"
  /\ \A s \in Range(Series[j]) : \A r \in Rows(j) : j.columns[s][r] # NaN

\* A call is over, and so is its job; CODEGEN_CACHE stays.
EndJob == job' = NoAnswer /\ UNCHANGED compiled

Begin == Init /\ job = NoAnswer /\ compiled = {}

Defer(j) ==
  /\ stage = "idle" /\ calls < MaxCalls
  /\ calls' = calls + 1
  /\ job' = j
  /\ call' = Reduction(j.op, TreeColumn[j])
  /\ stage' = IF Fusable(j) THEN "fused" ELSE "codegen"
  /\ answer' = NoAnswer
  /\ UNCHANGED <<libraryVars, src, first, simd, builds, totals, compiled>>

\* Sizes and columns the kernels have no room for.
Unsuitable == job.size = 0 \/ Len(Series[job]) = 0 \/ Len(Series[job]) > MaxColumns

GoTo(next) ==
  /\ stage' = next
  /\ Released
  /\ UNCHANGED <<calls, call, answer, job>>

FusedRaises ==
  /\ stage = "fused"
  /\ Unsuitable \/ (DeviceFails /\ ~Precompiled)
  /\ GoTo("codegen")
  /\ UNCHANGED <<libraryVars, compiled>>

FusedKernel == <<"eval_reduce", KernelOp(call)>>

FusedGroups == (job.size + FusedThreads - 1) \div FusedThreads

FusedValue(g, t) ==
  IF g * FusedThreads + t < job.size THEN FusedColumn[job][g * FusedThreads + t]
  ELSE Identity(KernelOp(call))

LaunchFused ==
  /\ stage = "fused" /\ ~Unsuitable
  /\ GetPipelines({FusedKernel})
  /\ totals' = [g \in 0 .. FusedGroups - 1 |->
                  [t \in 0 .. FusedThreads - 1 |-> FusedValue(g, t)]]
  /\ first' = TRUE /\ simd' = FALSE
  /\ stage' = "rounds"
  /\ UNCHANGED <<machine, debug, calls, call, src, builds, answer, jobVars>>

\* The pipelines of the passes over partials are looked up after pass 1.
EndFused ==
  /\ job # NoAnswer /\ first
  /\ StorePartials
  /\ GetPipelines({LaterKernel(call)})
  /\ builds' = [first |-> BuildOf(LaterKernel(call)), later |-> BuildOf(LaterKernel(call))]
  /\ UNCHANGED <<machine, debug, jobVars>>

FusedFailed ==
  /\ job # NoAnswer /\ stage = "pandas"
  /\ GoTo("codegen")
  /\ UNCHANGED <<libraryVars, compiled>>

-----------------------------------------------------------------------------
\* pandas over the values the device hands back.
Materialized(column) ==
  IF job.op = "values" THEN column ELSE PandasReduction(Reduction(job.op, column))

Key == <<Program[job], Len(Series[job])>>

\* A kernel that fails to compile, now or earlier, is not in the cache.
RunCodegen ==
  /\ stage = "codegen" /\ ~Unsuitable
  /\ compiled' = compiled \cup {Key}
  /\ job' = NoAnswer
  /\ Return(Materialized(Generated[job]))

CodegenFails ==
  /\ stage = "codegen"
  /\ Unsuitable \/ DeviceFails
  /\ \/ UNCHANGED compiled
     \/ ~Unsuitable /\ compiled' = compiled \cup {Key}
  /\ GoTo("interpreter")
  /\ UNCHANGED libraryVars

\* eval_expression, as the way out of codegen and once more from Python.
RunInterpreter ==
  /\ stage \in {"interpreter", "retry"} /\ ~Unsuitable
  /\ GetPipelines({<<"eval_expression">>})
  /\ answer' = Materialized(InterpreterColumn[job])
  /\ stage' = "idle" /\ call' = NoAnswer
  /\ EndJob
  /\ Released
  /\ UNCHANGED <<machine, debug, calls>>

InterpreterFails ==
  /\ stage = "interpreter"
  /\ Unsuitable \/ DeviceFails
  /\ GoTo("retry")
  /\ UNCHANGED <<libraryVars, compiled>>

Raise ==
  /\ stage = "retry"
  /\ Unsuitable \/ DeviceFails
  /\ Return(Raised)
  /\ EndJob

-----------------------------------------------------------------------------
PlainCall(c) == Ask(c) /\ job' = NoAnswer /\ UNCHANGED compiled

PlainReduce ==
  /\ job = NoAnswer
  /\ Reduce
  /\ UNCHANGED jobVars

FusedPasses ==
  /\ job # NoAnswer
  /\ LaunchPass \/ TreeRound \/ SimdRound \/ CommandBufferError \/ (~first /\ EndPass)
  /\ UNCHANGED jobVars

AnswerFused == job # NoAnswer /\ ReadScalar /\ EndJob

Serve ==
  \/ PlainReduce \/ FusedPasses \/ AnswerFused
  \/ FusedRaises \/ LaunchFused \/ EndFused \/ FusedFailed
  \/ RunCodegen \/ CodegenFails \/ RunInterpreter \/ InterpreterFails \/ Raise

DeferredNext ==
  \/ \E c \in Requests : PlainCall(c)
  \/ \E j \in Jobs : Defer(j)
  \/ SetDebug /\ UNCHANGED jobVars
  \/ Serve

DeferredSpec == Begin /\ [][DeferredNext]_allVars /\ WF_allVars(Serve)

-----------------------------------------------------------------------------
\* Calls no kernel can serve, and calls during which kernels kept failing.
MayRaise == job # NoAnswer /\ (Unsuitable \/ DeviceFails)

\* The sum of an empty column of narrow integers, which no thread writes.
NothingWritten == stage = "pass" /\ DOMAIN src = {}

Expected == IF call.op = "values" THEN call.values ELSE PandasReduction(call)

\* Whichever way a value is found (plain reduction, fused kernel, generated kernel,
\* interpreter, pandas over what these return) it is the value pandas computes
\* eagerly; a call that raises found no way left.  One sum reads what nobody wrote.
AnswersAgree ==
  [][(stage # "idle" /\ stage' = "idle") =>
       \/ answer' = Expected
       \/ answer' = Raised /\ MayRaise
       \/ NothingWritten]_allVars

\* Every call comes to an answer: passes get shorter, and fallbacks do not return
\* to a way that was tried.
CallsAnswered == (stage # "idle") ~> (stage = "idle")
=============================================================================
