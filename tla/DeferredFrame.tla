--------------------------- MODULE DeferredFrame ---------------------------
(***************************************************************************)
(* ProxyDataFrame and its queue of deferred column assignments.            *)
(*                                                                         *)
(* df[k] = <DeferredSeries> only queues (k, expression).  A read flushes   *)
(* the queue: one fused kernel for all queued expressions, or, when that   *)
(* fails for any reason, one kernel per expression.  A proxy that wraps    *)
(* an existing DataFrame keeps two copies of the data, the one it inherits *)
(* (own) and the one it was given (obj); one that was constructed          *)
(* directly has own = obj.                                                 *)
(*                                                                         *)
(* Every method runs under the GIL without giving it up, so a call is one  *)
(* action; ret holds what the call that just finished returned or raised.  *)
(***************************************************************************)
EXTENDS FrameData

CONSTANTS
  Seed,         \* Seed[f]: the operands of f's first operation, by position;
                \* the same twice when it has one Series only
  MaxCols,      \* input buffers one kernel takes (8 in the code)
  MaxSeries,    \* bound: Series objects the user ever holds
  Scalars,      \* values of df[k] = v
  InitFrames,   \* frames a behaviour may start from
  InitHeap,     \* Series the user constructed directly, before any call
  KernelsFail,  \* TRUE: a single-expression kernel may fail on the device
  OtherCalls    \* calls that bypass the queue, of those the user makes

VARIABLES
  own,       \* the data inherited from pd.DataFrame
  obj,       \* the data of _pandas_obj
  wrapped,   \* _pandas_obj is an object of its own
  pending,   \* _pending_assigns, a sequence of [key, expr]
  heap,      \* Series objects the user holds, by order of creation
  ret        \* outcome of the call that just finished

vars == <<own, obj, wrapped, pending, heap, ret>>

ASSUME QueueAssumption ==
  /\ Seed \in [Fns -> [1 .. 2 -> 1 .. MaxLoads]]
  /\ MaxCols \in Nat \ {0}
  /\ MaxSeries \in Nat
  /\ Scalars \subseteq Vals
  /\ InitFrames \subseteq Frames
  /\ InitHeap \in Seq([val : Seq(Vals), idx : Seq(Int)])
  /\ \A o \in DOMAIN InitHeap : Len(InitHeap[o].val) = Len(InitHeap[o].idx)
  /\ KernelsFail \in BOOLEAN
  /\ OtherCalls \subseteq {"inherited read", "list key", "series change"}

-----------------------------------------------------------------------------
(* DeferredSeries *)

LoadSeqs == UNION {[1 .. n -> 1 .. Len(heap)] : n \in 1 .. MaxLoads}

\* A first operation over two Series is deferred when their indexes are equal.
\* Once it is deferred it takes further operands, before it or after it,
\* unchecked: _indexes_align passes every pair with a DeferredSeries in it.
CanDefer(f, ins) ==
  /\ {Seed[f][1], Seed[f][2]} \subseteq DOMAIN ins
  /\ heap[ins[Seed[f][1]]].idx = heap[ins[Seed[f][2]]].idx

\* The size is the length the first operation found.
Deferred(f, ins) ==
  [fn |-> f, ins |-> ins, size |-> Len(heap[ins[Seed[f][1]]].val)]

\* The distinct Series objects an expression loads.
Columns(d) == {d.ins[j] : j \in DOMAIN d.ins}

\* The result of a kernel over n threads: it has no index of its own.
Materialized(d, n) ==
  [val |-> Evaluate(d.fn, [j \in DOMAIN d.ins |-> heap[d.ins[j]]], n),
   idx |-> RangeIndex(n)]

\* A single expression has a kernel when it has rows and not too many inputs.
HasKernel(d) == d.size > 0 /\ Cardinality(Columns(d)) <= MaxCols

-----------------------------------------------------------------------------
(* The queue *)

PendingKeys == {pending[i].key : i \in DOMAIN pending}

\* Mutant: an earlier entry for the key stays in the queue.
WithoutNothing(q, k) == q

\* pending[:] = [(k, v) for k, v in pending if k != key]; a key is queued at
\* most once, so at most one entry goes.
Without(q, k) ==
  IF \E i \in DOMAIN q : q[i].key = k
    THEN LET p == CHOOSE i \in DOMAIN q : q[i].key = k
         IN  [j \in 1 .. Len(q) - 1 |-> IF j < p THEN q[j] ELSE q[j + 1]]
    ELSE q

\* Frame f after the i-th value was assigned to the i-th key of queue q, for
\* every i, in order.
Stored(f, q, values) ==
  [c \in Cols |->
     IF \E i \in DOMAIN values : q[i].key = c
       THEN values[CHOOSE i \in DOMAIN values :
                     /\ q[i].key = c
                     /\ \A j \in DOMAIN values : q[j].key = c => j <= i]
       ELSE f[c]]

\* The columns the fused kernel returns: it runs as many threads as the first
\* queued expression has rows, and with none it returns no column at all.
FusedValues(q) ==
  IF q[1].expr.size = 0
    THEN << >>
    ELSE [i \in 1 .. Len(q) |-> Reindex(Materialized(q[i].expr, q[1].expr.size))]

\* Mutant: the fallback takes the size of the last queued expression less one.
SinglesShort(q, n) ==
  [i \in 1 .. n |-> Reindex(Materialized(q[i].expr, q[i].expr.size - 1))]

\* The columns the first n queued expressions give one by one.
SingleValues(q, n) ==
  [i \in 1 .. n |-> Reindex(Materialized(q[i].expr, q[i].expr.size))]

\* The fused kernel takes the inputs of all queued expressions together.
FusedFits(q) ==
  Cardinality(UNION {Columns(q[i].expr) : i \in DOMAIN q}) <= MaxCols

-----------------------------------------------------------------------------
(* Writing both copies *)

\* Mutant: only the inherited data is written.
StoreOwn(q, values) ==
  /\ own' = Stored(own, q, values)
  /\ obj' = IF wrapped THEN obj ELSE own'

StoreBoth(q, values) ==
  /\ own' = Stored(own, q, values)
  /\ obj' = IF wrapped THEN Stored(obj, q, values) ELSE own'

\* _flush_pending with a queue that is not empty.  The queue is cleared
\* first, whatever happens afterwards; ok says that no exception escapes.
FlushFused ==
  /\ FusedFits(pending)
  /\ StoreBoth(pending, FusedValues(pending))
  /\ pending' = << >>

\* Mutant: an expression that fails ends the loop without an exception.
FlushQuietly(ok) ==
  \E n \in 0 .. Len(pending) :
    /\ ok
    /\ \A i \in 1 .. n : HasKernel(pending[i].expr)
    /\ n < Len(pending) => KernelsFail \/ ~HasKernel(pending[n + 1].expr)
    /\ StoreBoth(pending, SingleValues(pending, n))
    /\ pending' = << >>

FlushSingly(ok) ==
  \E n \in 0 .. Len(pending) :
    /\ \A i \in 1 .. n : HasKernel(pending[i].expr)
    /\ IF ok THEN n = Len(pending)
             ELSE /\ n < Len(pending)
                  /\ KernelsFail \/ ~HasKernel(pending[n + 1].expr)
    /\ StoreBoth(pending, SingleValues(pending, n))
    /\ pending' = << >>

Flush(ok) ==
  \/ pending # << >> /\ ok /\ FlushFused
  \/ pending # << >> /\ FlushSingly(ok)
  \/ pending = << >> /\ ok /\ UNCHANGED <<own, obj, pending>>

-----------------------------------------------------------------------------
(* Calls *)

Init ==
  /\ own \in InitFrames
  /\ obj = own
  /\ wrapped \in BOOLEAN
  /\ pending = << >>
  /\ heap = InitHeap
  /\ ret = None

\* Mutant: reading a name never flushes.
NeverFlushes(c) == FALSE

\* df[c] flushes only when c itself is queued.
FlushesFor(c) == c \in PendingKeys

Raise ==
  /\ ret' = Raised
  /\ UNCHANGED heap

\* s = df[c], with a column name.
GetColumn(c) ==
  /\ Len(heap) < MaxSeries
  /\ UNCHANGED wrapped
  /\ \E ok \in BOOLEAN :
       /\ IF FlushesFor(c) THEN Flush(ok)
                           ELSE ok /\ UNCHANGED <<own, obj, pending>>
       /\ \/ /\ ok /\ own'[c] # Absent
             /\ heap' = Append(heap, [val |-> own'[c], idx |-> Index])
             /\ ret' = ColumnRet(own'[c])
          \/ (~ok \/ own'[c] = Absent) /\ Raise

\* A read of the whole frame through the proxy's own data: df.columns, rolling,
\* df[mask], df[[..]].
ReadOwn ==
  /\ UNCHANGED wrapped
  /\ \E ok \in BOOLEAN :
       /\ Flush(ok)
       /\ \/ ok /\ ret' = FrameRet(own') /\ UNCHANGED heap
          \/ ~ok /\ Raise

\* to_pandas(), repr(), str(), merge, the aggregation of a groupby and every
\* attribute found by __getattr__ read _pandas_obj.
ReadObj ==
  /\ UNCHANGED wrapped
  /\ \E ok \in BOOLEAN :
       /\ Flush(ok)
       /\ \/ ok /\ ret' = FrameRet(obj') /\ UNCHANGED heap
          \/ ~ok /\ Raise

\* df[k] = <deferred expression>: queued, the latest entry for k wins.
SetDeferred(k, f, ins) ==
  /\ CanDefer(f, ins)
  /\ pending' = Append(Without(pending, k), [key |-> k, expr |-> Deferred(f, ins)])
  /\ ret' = None
  /\ UNCHANGED <<own, obj, wrapped, heap>>

\* Mutant: a concrete assignment leaves the queue alone.
WriteConcreteKeepQueue(k, content) ==
  /\ StoreBoth(<<[key |-> k]>>, <<content>>)
  /\ UNCHANGED pending

\* A concrete value goes to both copies at once, and takes a queued entry
\* for the same key out of the queue.
WriteConcrete(k, content) ==
  /\ pending' = Without(pending, k)
  /\ StoreBoth(<<[key |-> k]>>, <<content>>)

SetConcrete(k, content) ==
  /\ WriteConcrete(k, content)
  /\ ret' = None
  /\ UNCHANGED <<wrapped, heap>>

SetSeries(k, o) == SetConcrete(k, Reindex(heap[o]))

SetScalar(k, v) == SetConcrete(k, [i \in 1 .. NumRows |-> v])

-----------------------------------------------------------------------------
(* Calls that do not know about the queue *)

\* df.values, df.to_numpy(), df.copy(): inherited, found before __getattr__
\* is asked, and none of them looks at self.columns.
ReadInherited ==
  /\ "inherited read" \in OtherCalls
  /\ ret' = FrameRet(own)
  /\ UNCHANGED <<own, obj, wrapped, pending, heap>>

\* df[[k]] = v: __setitem__ compares the list with the queued names, so no
\* entry is taken out of the queue.
SetListKey(k, v) ==
  /\ "list key" \in OtherCalls
  /\ StoreBoth(<<[key |-> k]>>, <<[i \in 1 .. NumRows |-> v]>>)
  /\ ret' = None
  /\ UNCHANGED <<wrapped, pending, heap>>

\* s.iloc[i] = v on a Series the user constructed: a queued expression holds
\* s itself, not its values.
ChangeSeries(o, i, v) ==
  /\ "series change" \in OtherCalls
  /\ heap' = [heap EXCEPT ![o] =
                [val |-> [heap[o].val EXCEPT ![i] = v], idx |-> heap[o].idx]]
  /\ ret' = None
  /\ UNCHANGED <<own, obj, wrapped, pending>>

Next ==
  \/ \E c \in Cols : GetColumn(c)
  \/ ReadOwn
  \/ ReadObj
  \/ \E k \in Cols, f \in Fns, ins \in LoadSeqs : SetDeferred(k, f, ins)
  \/ \E k \in Cols, o \in DOMAIN heap : SetSeries(k, o)
  \/ \E k \in Cols, v \in Scalars : SetScalar(k, v)
  \/ ReadInherited
  \/ \E k \in Cols, v \in Scalars : SetListKey(k, v)
  \/ \E o \in DOMAIN InitHeap, v \in Scalars :
       \E i \in DOMAIN heap[o].val : ChangeSeries(o, i, v)

Spec == Init /\ [][Next]_vars

-----------------------------------------------------------------------------
(* What the queue means: the frame pandas would have at this point. *)

\* The value of a queued assignment, had it been made at once.
EagerValue(d) == EagerColumn(d.fn, [j \in DOMAIN d.ins |-> heap[d.ins[j]]])

View ==
  [c \in Cols |->
     IF c \in PendingKeys
       THEN EagerValue(pending[CHOOSE i \in DOMAIN pending : pending[i].key = c].expr)
       ELSE own[c]]

Eager == INSTANCE EagerFrame WITH frame <- View

-----------------------------------------------------------------------------
(* Properties *)

Exprs == [fn : Fns, ins : LoadSeqs, size : Nat]

\* Types of the two copies, the queue, the Series objects and the outcome.
TypeOK ==
  /\ own \in Frames
  /\ obj \in Frames
  /\ wrapped \in BOOLEAN
  /\ pending \in Seq([key : Cols, expr : Exprs])
  /\ heap \in Seq([val : Seq(Vals), idx : Seq(Int)])
  /\ \/ ret \in {None, Raised}
     \/ ret.kind = "column" /\ ret.value \in Content
     \/ ret.kind = "frame" /\ ret.value \in Frames

\* A column name is queued at most once: _flush_pending would otherwise
\* compute a value that the next one overwrites, and Without would leave a
\* stale entry that undoes a later concrete assignment.
PendingUnique ==
  \A i, j \in DOMAIN pending : pending[i].key = pending[j].key => i = j

\* Both copies of a wrapped frame hold the same data after every call, so a
\* read through the proxy and one through to_pandas() agree, also when a
\* flush fell back to single kernels or failed half-way.
CopiesAgree == own = obj

\* A read never changes what the frame means, whatever part of the queue it
\* flushes and on whichever path.
ReadsKeepMeaning == [][ret' # None => View' = View]_vars

\* __setitem__ removes "any pending entry with the same key to prevent a stale
\* deferred from overwriting the concrete value": when a call has written
\* column k, no queued expression for k is left that a later flush would
\* write over it.
ConcreteWins ==
  [][ret' = None =>
       \A k \in Cols : own'[k] # own[k] => View'[k] = own'[k]]_vars

\* Expression d names rows by position, and a kernel of n threads computes
\* those rows of the frame that all of its operands have.
RunsOver(d, n) ==
  /\ \A o \in Columns(d) : heap[o].idx = RangeIndex(Len(heap[o].val))
  /\ \A i \in 1 .. NumRows :
       i <= n <=> \A o \in Columns(d) : i \in DOMAIN heap[o].val

\* What a flush needs to compute the right values, on whichever path it ends:
\* each expression's own size fits its operands, and if one kernel can take
\* them all, so does the size of the first.
QueueFits ==
  /\ Index = RangeIndex(NumRows)
  /\ \A i \in DOMAIN pending : RunsOver(pending[i].expr, pending[i].expr.size)
  /\ FusedFits(pending) =>
       \A i \in DOMAIN pending :
         pending[1].expr.size > 0 /\ RunsOver(pending[i].expr, pending[1].expr.size)

\* _flush_pending clears the queue before it works, and falls back from one
\* kernel to many when it fails: yet a read that answers, rather than raises,
\* has lost no queued assignment and stored none under another name or over
\* other rows, although kernels fail at any point, Series are shorter than
\* the frame, and calls in between went past the queue.
AnswersLoseNothing ==
  [][(ret'.kind \in {"column", "frame"} /\ QueueFits) => View' = View]_vars

\* The proxy implements eager pandas: every call returns what pandas returns.
EagerRefinement == Eager!Spec
=============================================================================
