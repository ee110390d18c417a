------------------------ MODULE DeferredFrame_proofs ------------------------
(***************************************************************************)
(* Theorems about DeferredFrame, for every frame, index, set of            *)
(* expressions and bound.                                                  *)
(***************************************************************************)
EXTENDS DeferredFrame, FiniteSetTheorems, TLAPS

\* A Series, whatever the length of its index.
SeriesSet == [val : Seq(Vals), idx : Seq(Int)]

\* The first n entries of queue q have distinct keys.
DistinctKeys(q, n) == \A i, j \in 1 .. n : q[i].key = q[j].key => i = j

-----------------------------------------------------------------------------
(* Lemmas on the operators *)

\* Aligning a Series with the frame gives a column of the frame.
LEMMA ReindexType ==
  ASSUME NEW s, s.val \in Seq(Vals)
  PROVE  Reindex(s) \in Content
  BY DataAssumption DEF Reindex, Content, NumRows

\* What the leaves of an expression load in row i is an argument of Apply.
LEMMA LoadType ==
  ASSUME NEW n \in 1 .. MaxLoads, NEW ins \in [1 .. n -> SeriesSet], NEW i
  PROVE  [k \in DOMAIN ins |-> Load(ins[k], i)] \in Args
<1>1. \A k \in 1 .. n : Load(ins[k], i) \in Vals
  BY DataAssumption DEF Load, SeriesSet
<1> QED BY <1>1 DEF Args

\* A kernel run over m threads returns m values.
LEMMA EvaluateType ==
  ASSUME NEW f \in Fns, NEW n \in 1 .. MaxLoads,
         NEW ins \in [1 .. n -> SeriesSet], NEW m \in Nat
  PROVE  Evaluate(f, ins, m) \in Seq(Vals)
<1>1. ASSUME NEW i \in 1 .. m
      PROVE  Apply[f][[k \in DOMAIN ins |-> Load(ins[k], i)]] \in Vals
  <2>1. [k \in DOMAIN ins |-> Load(ins[k], i)] \in Args
    BY LoadType
  <2>2. Apply[f] \in [Args -> Vals]
    BY DataAssumption
  <2> QED BY <2>1, <2>2
<1>2. Evaluate(f, ins, m) \in [1 .. m -> Vals]
  BY <1>1 DEF Evaluate
<1> QED BY <1>2

\* When the keys are distinct, storing columns into a frame puts each one
\* under its key and leaves the others.
LEMMA StoredAt ==
  \A f, q, values : \A n \in Nat :
    (DOMAIN values = 1 .. n /\ DistinctKeys(q, n)) =>
      \A c \in Cols :
        /\ \A i \in 1 .. n : q[i].key = c => Stored(f, q, values)[c] = values[i]
        /\ (\A i \in 1 .. n : q[i].key # c) => Stored(f, q, values)[c] = f[c]
<1> SUFFICES ASSUME NEW f, NEW q, NEW values, NEW n \in Nat,
                    DOMAIN values = 1 .. n, DistinctKeys(q, n), NEW c \in Cols
             PROVE  /\ \A i \in 1 .. n : q[i].key = c => Stored(f, q, values)[c] = values[i]
                    /\ (\A i \in 1 .. n : q[i].key # c) => Stored(f, q, values)[c] = f[c]
  OBVIOUS
<1>1. ASSUME NEW i \in 1 .. n, q[i].key = c
      PROVE  Stored(f, q, values)[c] = values[i]
  <2>1. \A j \in DOMAIN values : q[j].key = c => j = i
    BY <1>1 DEF DistinctKeys
  <2>2. i = CHOOSE k \in DOMAIN values :
              /\ q[k].key = c
              /\ \A j \in DOMAIN values : q[j].key = c => j <= k
    BY <1>1, <2>1
  <2> QED BY <1>1, <2>2 DEF Stored
<1>2. ASSUME \A i \in 1 .. n : q[i].key # c
      PROVE  Stored(f, q, values)[c] = f[c]
  BY <1>2 DEF Stored
<1> QED BY <1>1, <1>2

\* Storing columns into a frame gives a frame.
LEMMA StoredType ==
  ASSUME NEW f \in Frames, NEW q, NEW n \in Nat, NEW values \in [1 .. n -> Content],
         DistinctKeys(q, n)
  PROVE  Stored(f, q, values) \in Frames
<1>1. ASSUME NEW c \in Cols
      PROVE  Stored(f, q, values)[c] \in Column
  <2>1. /\ \A i \in 1 .. n : q[i].key = c => Stored(f, q, values)[c] = values[i]
        /\ (\A i \in 1 .. n : q[i].key # c) => Stored(f, q, values)[c] = f[c]
    BY StoredAt
  <2>2. f[c] \in Column
    BY DEF Frames
  <2> QED BY <2>1, <2>2 DEF Column
<1>2. Stored(f, q, values) = [c \in Cols |-> Stored(f, q, values)[c]]
  BY DEF Stored
<1> QED BY <1>1, <1>2 DEF Frames

\* Taking a key out of a queue of distinct keys leaves a queue of distinct
\* keys, none of them that one, and the other entries as they were.
LEMMA WithoutProperties ==
  ASSUME NEW S, NEW q \in Seq(S), NEW k,
         \A i, j \in 1 .. Len(q) : q[i].key = q[j].key => i = j
  PROVE  /\ Without(q, k) \in Seq(S)
         /\ \A i, j \in 1 .. Len(Without(q, k)) :
              Without(q, k)[i].key = Without(q, k)[j].key => i = j
         /\ \A i \in 1 .. Len(Without(q, k)) :
              /\ Without(q, k)[i].key # k
              /\ \E j \in 1 .. Len(q) : Without(q, k)[i] = q[j]
         /\ \A j \in 1 .. Len(q) : q[j].key # k =>
              \E i \in 1 .. Len(Without(q, k)) : Without(q, k)[i] = q[j]
<1>1. CASE \A i \in 1 .. Len(q) : q[i].key # k
  <2>1. Without(q, k) = q
    BY <1>1 DEF Without
  <2> QED BY <1>1, <2>1
<1>2. CASE \E i \in 1 .. Len(q) : q[i].key = k
  <2> DEFINE p == CHOOSE i \in DOMAIN q : q[i].key = k
             r == [j \in 1 .. Len(q) - 1 |-> IF j < p THEN q[j] ELSE q[j + 1]]
  <2>1. p \in 1 .. Len(q) /\ q[p].key = k
    BY <1>2
  <2>2. Without(q, k) = r
    BY <1>2 DEF Without
  <2> HIDE DEF p
  <2>3. r \in Seq(S) /\ Len(r) = Len(q) - 1
    BY <2>1
  <2>4. \A i \in 1 .. Len(q) - 1 :
          r[i] = IF i < p THEN q[i] ELSE q[i + 1]
    OBVIOUS
  <2>5. \A i \in 1 .. Len(q) - 1 : r[i].key # k
    BY <2>1, <2>4
  <2>6. \A i, j \in 1 .. Len(q) - 1 : r[i].key = r[j].key => i = j
    BY <2>1, <2>4
  <2>7. \A i \in 1 .. Len(q) - 1 : \E j \in 1 .. Len(q) : r[i] = q[j]
    BY <2>1, <2>4
  <2>8. ASSUME NEW j \in 1 .. Len(q), q[j].key # k
        PROVE  \E i \in 1 .. Len(q) - 1 : r[i] = q[j]
    <3>1. CASE j < p
      BY <3>1, <2>1, <2>4
    <3>2. CASE j > p
      <4>1. j - 1 \in 1 .. Len(q) - 1 /\ r[j - 1] = q[j]
        BY <3>2, <2>1, <2>4
      <4> QED BY <4>1
    <3> QED BY <3>1, <3>2, <2>1, <2>8
  <2> HIDE DEF r
  <2> QED BY <2>2, <2>3, <2>5, <2>6, <2>7, <2>8
<1> QED BY <1>1, <1>2

-----------------------------------------------------------------------------
(* The invariant: types, distinct keys, equal copies *)

Entries == [key : Cols, expr : Exprs]

IInv == TypeOK /\ PendingUnique /\ CopiesAgree

\* The queue as the lemmas want it.
LEMMA QueueFacts ==
  ASSUME IInv
  PROVE  /\ pending \in Seq(Entries)
         /\ \A i, j \in 1 .. Len(pending) : pending[i].key = pending[j].key => i = j
  BY DEF IInv, TypeOK, PendingUnique, Entries

\* A queued expression evaluates to a column of the frame, whatever the
\* number of threads.
LEMMA QueuedColumn ==
  ASSUME IInv, NEW d \in Exprs, NEW m \in Nat
  PROVE  Reindex(Materialized(d, m)) \in Content
<1>1. PICK n \in 1 .. MaxLoads : d.ins \in [1 .. n -> 1 .. Len(heap)]
  BY DEF Exprs, LoadSeqs
<1>2. heap \in Seq(SeriesSet)
  BY DEF IInv, TypeOK, SeriesSet
<1>3. [j \in DOMAIN d.ins |-> heap[d.ins[j]]] \in [1 .. n -> SeriesSet]
  BY <1>1, <1>2
<1>4. d.fn \in Fns
  BY DEF Exprs
<1>5. Evaluate(d.fn, [j \in DOMAIN d.ins |-> heap[d.ins[j]]], m) \in Seq(Vals)
  BY <1>3, <1>4, EvaluateType
<1> QED BY <1>5, ReindexType DEF Materialized

\* Storing columns of the frame under distinct keys keeps both copies equal.
LEMMA StoreBothKeeps ==
  ASSUME IInv, NEW q, NEW n \in Nat, NEW values \in [1 .. n -> Content],
         DistinctKeys(q, n), StoreBoth(q, values)
  PROVE  own' \in Frames /\ obj' = own'
<1>1. own \in Frames /\ own = obj
  BY DEF IInv, TypeOK, CopiesAgree
<1>2. Stored(own, q, values) \in Frames
  BY <1>1, StoredType
<1> QED BY <1>1, <1>2 DEF StoreBoth

\* A flush, complete or not, keeps both copies equal and either empties the
\* queue or leaves it.
LEMMA FlushKeeps ==
  ASSUME IInv, NEW ok \in BOOLEAN, Flush(ok)
  PROVE  own' \in Frames /\ obj' = own' /\ pending' \in {pending, << >>}
<1>1. /\ pending \in Seq(Entries)
      /\ \A n \in 0 .. Len(pending) : DistinctKeys(pending, n)
  BY QueueFacts DEF DistinctKeys
<1>2. \A i \in 1 .. Len(pending) :
        pending[i].expr \in Exprs /\ pending[i].expr.size \in Nat
  <2>1. \A e \in Entries : e.expr \in Exprs /\ e.expr.size \in Nat
    BY DEF Entries, Exprs
  <2> QED BY <1>1, <2>1
<1>3. CASE pending # << >> /\ FlushFused
  <2>1. StoreBoth(pending, FusedValues(pending)) /\ pending' = << >>
    BY <1>3 DEF FlushFused
  <2>2. CASE pending[1].expr.size = 0
    <3>1. FusedValues(pending) = << >>
      BY <2>2 DEF FusedValues
    <3>2. << >> \in [1 .. 0 -> Content]
      OBVIOUS
    <3>3. StoreBoth(pending, << >>) /\ DistinctKeys(pending, 0)
      BY <1>1, <2>1, <3>1
    <3> QED BY <2>1, <3>2, <3>3, StoreBothKeeps
  <2>3. CASE pending[1].expr.size # 0
    <3>1. FusedValues(pending) =
            [i \in 1 .. Len(pending) |->
               Reindex(Materialized(pending[i].expr, pending[1].expr.size))]
      BY <2>3 DEF FusedValues
    <3>2. pending[1].expr.size \in Nat
      BY <1>1, <1>2, <1>3
    <3>3. FusedValues(pending) \in [1 .. Len(pending) -> Content]
      BY <1>2, <3>1, <3>2, QueuedColumn
    <3>4. Len(pending) \in Nat /\ DistinctKeys(pending, Len(pending))
      BY <1>1
    <3> QED BY <2>1, <3>3, <3>4, StoreBothKeeps
  <2> QED BY <2>2, <2>3
<1>4. CASE FlushSingly(ok)
  <2>1. PICK n \in 0 .. Len(pending) :
          StoreBoth(pending, SingleValues(pending, n)) /\ pending' = << >>
    BY <1>4 DEF FlushSingly
  <2>2. SingleValues(pending, n) \in [1 .. n -> Content]
    BY <1>1, <1>2, QueuedColumn DEF SingleValues
  <2>3. n \in Nat /\ DistinctKeys(pending, n)
    BY <1>1
  <2> QED BY <2>1, <2>2, <2>3, StoreBothKeeps
<1>5. CASE UNCHANGED <<own, obj, pending>>
  BY <1>5 DEF IInv, TypeOK, CopiesAgree
<1> QED BY <1>3, <1>4, <1>5 DEF Flush

\* The queue stays well-typed when the user comes to hold more Series.
LEMMA QueueKeeps ==
  ASSUME IInv, heap' \in Seq(SeriesSet), Len(heap') >= Len(heap),
         pending' \in {pending, << >>}
  PROVE  pending' \in Seq(Entries)' /\ PendingUnique'
<1>1. Len(heap) \in Nat /\ Len(heap') \in Nat
  BY DEF IInv, TypeOK
<1>2. \A n \in 1 .. MaxLoads :
        [1 .. n -> 1 .. Len(heap)] \subseteq [1 .. n -> 1 .. Len(heap')]
  BY <1>1
<1>3. LoadSeqs \subseteq LoadSeqs'
  BY <1>2 DEF LoadSeqs
<1>4. Entries \subseteq Entries'
  BY <1>3 DEF Entries, Exprs
<1>5. pending \in Seq(Entries')
  BY <1>4, QueueFacts
<1>6. PendingUnique'
  BY QueueFacts DEF PendingUnique, IInv
<1>7. pending' \in Seq(Entries')
  <2>1. << >> \in Seq(Entries')
    OBVIOUS
  <2> QED BY <1>5, <2>1
<1> QED BY <1>6, <1>7

\* A read: the queue stays or goes, a Series may be added.
LEMMA ReadKeeps ==
  ASSUME IInv, NEW ok \in BOOLEAN,
         Flush(ok) \/ UNCHANGED <<own, obj, pending>>,
         UNCHANGED wrapped,
         \/ UNCHANGED heap
         \/ \E c \in Cols : /\ own'[c] # Absent
                            /\ heap' = Append(heap, [val |-> own'[c], idx |-> Index]),
         \/ ret' = Raised
         \/ ret' \in {FrameRet(own'), FrameRet(obj')}
         \/ \E c \in Cols : own'[c] # Absent /\ ret' = ColumnRet(own'[c])
  PROVE  IInv'
<1>1. own' \in Frames /\ obj' = own' /\ pending' \in {pending, << >>}
  BY FlushKeeps DEF IInv, TypeOK, CopiesAgree
<1>2. \A c \in Cols : own'[c] # Absent => own'[c] \in Content
  BY <1>1 DEF Frames, Column
<1>3. Content \subseteq Seq(Vals)
  BY DataAssumption DEF Content, NumRows
<1>4. heap \in Seq(SeriesSet)
  BY DEF IInv, TypeOK, SeriesSet
<1>5. heap' \in Seq(SeriesSet) /\ Len(heap') >= Len(heap)
  <2>1. CASE UNCHANGED heap
    BY <1>4, <2>1
  <2>2. CASE \E c \in Cols : /\ own'[c] # Absent
                            /\ heap' = Append(heap, [val |-> own'[c], idx |-> Index])
    <3>1. PICK c \in Cols : /\ own'[c] # Absent
                           /\ heap' = Append(heap, [val |-> own'[c], idx |-> Index])
      BY <2>2
    <3>2. [val |-> own'[c], idx |-> Index] \in SeriesSet
      BY <1>2, <1>3, <3>1, DataAssumption DEF SeriesSet
    <3> QED BY <1>4, <3>1, <3>2
  <2> QED BY <2>1, <2>2
<1>6. pending' \in Seq(Entries)' /\ PendingUnique'
  BY <1>1, <1>5, QueueKeeps
<1>7. \/ ret' \in {None, Raised}
      \/ ret'.kind = "column" /\ ret'.value \in Content
      \/ ret'.kind = "frame" /\ ret'.value \in Frames
  BY <1>1, <1>2 DEF FrameRet, ColumnRet
<1>8. wrapped' \in BOOLEAN
  BY DEF IInv, TypeOK
<1> QED BY <1>1, <1>5, <1>6, <1>7, <1>8 DEF IInv, TypeOK, CopiesAgree, Entries, SeriesSet

\* WithoutProperties for the queue of the proxy.
LEMMA RestFacts ==
  ASSUME IInv, NEW k
  PROVE  \E rest \in Seq(Entries) :
           /\ rest = Without(pending, k)
           /\ \A i, j \in 1 .. Len(rest) : rest[i].key = rest[j].key => i = j
           /\ \A i \in 1 .. Len(rest) : rest[i].key # k
<1>1. /\ pending \in Seq(Entries)
      /\ \A i, j \in 1 .. Len(pending) : pending[i].key = pending[j].key => i = j
  BY QueueFacts
<1>2. PICK r : r = Without(pending, k)
  OBVIOUS
<1>3. /\ r \in Seq(Entries)
      /\ \A i, j \in 1 .. Len(r) : r[i].key = r[j].key => i = j
      /\ \A i \in 1 .. Len(r) : r[i].key # k
  BY <1>1, <1>2, WithoutProperties
<1> QED BY <1>2, <1>3

\* The operand that gives a deferred expression its size is a Series of the
\* user's.
LEMMA SeedOperand ==
  ASSUME NEW f \in Fns, NEW ins \in LoadSeqs, CanDefer(f, ins)
  PROVE  ins[Seed[f][1]] \in 1 .. Len(heap)
<1>1. PICK n \in 1 .. MaxLoads : ins \in [1 .. n -> 1 .. Len(heap)]
  BY DEF LoadSeqs
<1>2. Seed[f][1] \in DOMAIN ins
  BY DEF CanDefer
<1> QED BY <1>1, <1>2

\* Queueing an expression under a key takes an older entry out first.
LEMMA SetDeferredKeeps ==
  ASSUME IInv, NEW k \in Cols, NEW f \in Fns, NEW ins \in LoadSeqs,
         SetDeferred(k, f, ins)
  PROVE  IInv'
<1> DEFINE e == [key |-> k, expr |-> Deferred(f, ins)]
<1>1. e \in Entries
  <2>1. ins[Seed[f][1]] \in 1 .. Len(heap)
    BY SeedOperand DEF SetDeferred
  <2>2. Len(heap[ins[Seed[f][1]]].val) \in Nat
    BY <2>1 DEF IInv, TypeOK
  <2> QED BY <2>2 DEF Entries, Exprs, Deferred
<1>2. PICK rest \in Seq(Entries) :
        /\ rest = Without(pending, k)
        /\ \A i, j \in 1 .. Len(rest) : rest[i].key = rest[j].key => i = j
        /\ \A i \in 1 .. Len(rest) : rest[i].key # k
  BY RestFacts
<1>3. pending' = Append(rest, e)
  BY <1>2 DEF SetDeferred
<1>4. pending' \in Seq(Entries)
  BY <1>1, <1>2, <1>3
<1>5. PendingUnique'
  <2>1. Len(pending') = Len(rest) + 1
    BY <1>1, <1>2, <1>3
  <2>2. \A i \in 1 .. Len(pending') :
          pending'[i] = IF i <= Len(rest) THEN rest[i] ELSE e
    BY <1>1, <1>2, <1>3
  <2> QED BY <1>2, <1>4, <2>1, <2>2 DEF PendingUnique
<1>6. UNCHANGED <<own, obj, wrapped, heap>> /\ ret' = None
  BY DEF SetDeferred
<1>7. Entries' = Entries
  BY <1>6 DEF Entries, Exprs, LoadSeqs
<1> QED BY <1>4, <1>5, <1>6, <1>7 DEF IInv, TypeOK, CopiesAgree, Entries

\* A concrete assignment writes one column of both copies.
LEMMA SetConcreteKeeps ==
  ASSUME IInv, NEW k \in Cols, NEW content \in Content, SetConcrete(k, content)
  PROVE  IInv'
<1>1. own' \in Frames /\ obj' = own'
  <2>1. StoreBoth(<<[key |-> k]>>, <<content>>)
    BY DEF SetConcrete, WriteConcrete
  <2>2. <<content>> \in [1 .. 1 -> Content]
    OBVIOUS
  <2>3. DistinctKeys(<<[key |-> k]>>, 1)
    BY DEF DistinctKeys
  <2> QED BY <2>1, <2>2, <2>3, StoreBothKeeps
<1>2. /\ pending' = Without(pending, k)
      /\ ret' = None
      /\ UNCHANGED <<wrapped, heap>>
  BY DEF SetConcrete, WriteConcrete
<1>3. /\ pending' \in Seq(Entries)
      /\ \A i, j \in 1 .. Len(pending') : pending'[i].key = pending'[j].key => i = j
  BY <1>2, RestFacts
<1>4. PendingUnique'
  BY <1>3 DEF PendingUnique
<1>5. Entries' = Entries
  BY <1>2 DEF Entries, Exprs, LoadSeqs
<1> QED BY <1>1, <1>2, <1>3, <1>4, <1>5 DEF IInv, TypeOK, CopiesAgree, Entries

\* An assignment under a list of names writes both copies too.
LEMMA SetListKeyKeeps ==
  ASSUME IInv, NEW k \in Cols, NEW content \in Content,
         StoreBoth(<<[key |-> k]>>, <<content>>),
         UNCHANGED <<wrapped, pending, heap>>, ret' = None
  PROVE  IInv'
<1>1. own' \in Frames /\ obj' = own'
  <2>1. <<content>> \in [1 .. 1 -> Content]
    OBVIOUS
  <2>2. DistinctKeys(<<[key |-> k]>>, 1)
    BY DEF DistinctKeys
  <2> QED BY <2>1, <2>2, StoreBothKeeps
<1>2. Exprs' = Exprs
  BY DEF Exprs, LoadSeqs
<1> QED BY <1>1, <1>2 DEF IInv, TypeOK, PendingUnique, CopiesAgree

\* A change of a Series is a change of one of its values.
LEMMA ChangeSeriesKeeps ==
  ASSUME IInv, NEW o \in DOMAIN InitHeap, NEW v \in Scalars,
         NEW i \in DOMAIN heap[o].val, ChangeSeries(o, i, v)
  PROVE  IInv'
<1> DEFINE changed == [val |-> [heap[o].val EXCEPT ![i] = v], idx |-> heap[o].idx]
<1>1. heap \in Seq(SeriesSet)
  BY DEF IInv, TypeOK, SeriesSet
<1>2. heap' = [heap EXCEPT ![o] = changed]
  BY DEF ChangeSeries
<1>3. ASSUME o \in 1 .. Len(heap)
      PROVE  changed \in SeriesSet
  <2>1. heap[o] \in SeriesSet
    BY <1>1, <1>3
  <2>2. v \in Vals
    BY QueueAssumption
  <2>3. [heap[o].val EXCEPT ![i] = v] \in Seq(Vals)
    BY <2>1, <2>2 DEF SeriesSet
  <2>4. heap[o].idx \in Seq(Int)
    BY <2>1 DEF SeriesSet
  <2> QED BY <2>3, <2>4 DEF SeriesSet
<1> HIDE DEF changed
<1>4. heap' \in [1 .. Len(heap) -> SeriesSet]
  <2>1. heap \in [1 .. Len(heap) -> SeriesSet]
    BY <1>1
  <2> QED BY <1>2, <1>3, <2>1
<1>5. heap' \in Seq(SeriesSet) /\ Len(heap') = Len(heap)
  <2>1. Len(heap) \in Nat
    BY <1>1
  <2> QED BY <1>4, <2>1
<1>6. UNCHANGED <<own, obj, wrapped, pending>> /\ ret' = None
  BY DEF ChangeSeries
<1>7. Exprs' = Exprs
  BY <1>5 DEF Exprs, LoadSeqs
<1>8. PendingUnique' /\ CopiesAgree'
  BY <1>6 DEF IInv, PendingUnique, CopiesAgree
<1>9. pending' \in Seq([key : Cols, expr : Exprs'])
  BY <1>6, <1>7 DEF IInv, TypeOK
<1>10. TypeOK'
  BY <1>5, <1>6, <1>9 DEF IInv, TypeOK, SeriesSet
<1> QED BY <1>8, <1>10 DEF IInv

LEMMA InvInit == Init => IInv
<1> SUFFICES ASSUME Init PROVE IInv
  OBVIOUS
<1>1. own \in Frames /\ obj = own /\ wrapped \in BOOLEAN
  BY QueueAssumption DEF Init
<1>2. heap \in Seq(SeriesSet)
  BY QueueAssumption DEF Init, SeriesSet
<1> QED BY <1>1, <1>2 DEF Init, IInv, TypeOK, PendingUnique, CopiesAgree, SeriesSet

LEMMA InvNext == IInv /\ [Next]_vars => IInv'
<1> SUFFICES ASSUME IInv, [Next]_vars PROVE IInv'
  OBVIOUS
<1>1. CASE UNCHANGED vars
  BY <1>1 DEF vars, IInv, TypeOK, PendingUnique, CopiesAgree, Exprs, LoadSeqs
<1>2. ASSUME NEW c \in Cols, GetColumn(c) PROVE IInv'
  BY <1>2, ReadKeeps DEF GetColumn, Raise
<1>3. CASE ReadOwn
  BY <1>3, ReadKeeps DEF ReadOwn, Raise
<1>4. CASE ReadObj
  BY <1>4, ReadKeeps DEF ReadObj, Raise
<1>5. ASSUME NEW k \in Cols, NEW f \in Fns, NEW ins \in LoadSeqs,
             SetDeferred(k, f, ins)
      PROVE  IInv'
  BY <1>5, SetDeferredKeeps
<1>6. ASSUME NEW k \in Cols, NEW o \in DOMAIN heap, SetSeries(k, o)
      PROVE  IInv'
  <2>1. heap[o].val \in Seq(Vals)
    <3>1. heap \in Seq(SeriesSet)
      BY DEF IInv, TypeOK, SeriesSet
    <3>2. heap[o] \in SeriesSet
      BY <3>1
    <3> QED BY <3>2 DEF SeriesSet
  <2>2. Reindex(heap[o]) \in Content
    BY <2>1, ReindexType
  <2> QED BY <1>6, <2>2, SetConcreteKeeps DEF SetSeries
<1>7. ASSUME NEW k \in Cols, NEW v \in Scalars, SetScalar(k, v)
      PROVE  IInv'
  <2>1. [i \in 1 .. NumRows |-> v] \in Content
    BY QueueAssumption DEF Content
  <2> QED BY <1>7, <2>1, SetConcreteKeeps DEF SetScalar
<1>8. CASE ReadInherited
  BY <1>8 DEF ReadInherited, FrameRet, IInv, TypeOK, PendingUnique, CopiesAgree,
              Exprs, LoadSeqs
<1>9. ASSUME NEW k \in Cols, NEW v \in Scalars, SetListKey(k, v)
      PROVE  IInv'
  <2>1. [i \in 1 .. NumRows |-> v] \in Content
    BY QueueAssumption DEF Content
  <2> QED BY <1>9, <2>1, SetListKeyKeeps DEF SetListKey
<1>10. ASSUME NEW o \in DOMAIN InitHeap, NEW v \in Scalars,
              NEW i \in DOMAIN heap[o].val, ChangeSeries(o, i, v)
       PROVE  IInv'
  BY <1>10, ChangeSeriesKeeps
<1> QED
  BY <1>1, <1>2, <1>3, <1>4, <1>5, <1>6, <1>7, <1>8, <1>9, <1>10 DEF Next

\* The queue, the two copies and the Series objects keep their types.
THEOREM TypeCorrect == Spec => []TypeOK
<1>1. IInv => TypeOK
  BY DEF IInv
<1> QED BY <1>1, InvInit, InvNext, PTL DEF Spec

\* No column name is ever queued twice, whatever mix of deferred and concrete
\* assignments and reads the user makes.
THEOREM QueueUnique == Spec => []PendingUnique
<1>1. IInv => PendingUnique
  BY DEF IInv
<1> QED BY <1>1, InvInit, InvNext, PTL DEF Spec

\* The inherited data and the wrapped DataFrame are equal after every call,
\* also when a flush raised after it had stored some columns.
THEOREM CopiesAlwaysAgree == Spec => []CopiesAgree
<1>1. IInv => CopiesAgree
  BY DEF IInv
<1> QED BY <1>1, InvInit, InvNext, PTL DEF Spec

-----------------------------------------------------------------------------
(* What the user may do for the theorems below: series as long as the      *)
(* frame, the frame's index on each, and no more loads than a kernel takes. *)

\* The frame has rows, and so many has every Series the user constructed.
FrameLong ==
  /\ NumRows > 0
  /\ \A o \in DOMAIN InitHeap : Len(InitHeap[o].val) = NumRows

\* Every single expression has a kernel, and the device runs it.
KernelsWork == MaxLoads <= MaxCols /\ ~KernelsFail

\* The frame has the default index, and every Series the frame's.
OneIndex ==
  /\ Index = RangeIndex(NumRows)
  /\ \A o \in DOMAIN InitHeap : InitHeap[o].idx = Index

\* Every Series is as long as the frame, and so is every queued expression.
SameRows ==
  /\ \A o \in 1 .. Len(heap) : Len(heap[o].val) = NumRows
  /\ \A i \in 1 .. Len(pending) : pending[i].expr.size = NumRows

\* Every Series has the index of the frame.
SameIndex == \A o \in 1 .. Len(heap) : heap[o].idx = Index

\* A column of the frame, as a Series, is as long as the frame.
LEMMA ColumnLength ==
  ASSUME NEW content \in Content
  PROVE  content \in Seq(Vals) /\ Len(content) = NumRows
<1>1. NumRows \in Nat
  BY DataAssumption DEF NumRows
<1> HIDE DEF NumRows
<1> QED BY <1>1 DEF Content

\* What a read does to the Series the user holds: at most one column is added.
LEMMA ReadHeap ==
  ASSUME IInv, NEW ok \in BOOLEAN,
         Flush(ok) \/ UNCHANGED <<own, obj, pending>>,
         \/ UNCHANGED heap
         \/ \E c \in Cols : /\ own'[c] # Absent
                            /\ heap' = Append(heap, [val |-> own'[c], idx |-> Index])
  PROVE  /\ Len(heap') \in Nat /\ Len(heap) \in Nat /\ Len(heap') >= Len(heap)
         /\ \A o \in 1 .. Len(heap) : heap'[o] = heap[o]
         /\ \A o \in 1 .. Len(heap') : o > Len(heap) =>
              heap'[o].idx = Index /\ Len(heap'[o].val) = NumRows
         /\ pending' \in {pending, << >>}
<1>1. own' \in Frames /\ pending' \in {pending, << >>}
  BY FlushKeeps DEF IInv, TypeOK
<1>2. heap \in Seq(SeriesSet) /\ Len(heap) \in Nat
  BY DEF IInv, TypeOK, SeriesSet
<1>3. CASE UNCHANGED heap
  BY <1>1, <1>2, <1>3
<1>4. ASSUME NEW c \in Cols, own'[c] # Absent,
             heap' = Append(heap, [val |-> own'[c], idx |-> Index])
      PROVE  /\ Len(heap') \in Nat /\ Len(heap') >= Len(heap)
             /\ \A o \in 1 .. Len(heap) : heap'[o] = heap[o]
             /\ \A o \in 1 .. Len(heap') : o > Len(heap) =>
                  heap'[o].idx = Index /\ Len(heap'[o].val) = NumRows
  <2> DEFINE added == [val |-> own'[c], idx |-> Index]
  <2>1. own'[c] \in Content
    BY <1>1, <1>4 DEF Frames, Column
  <2>2. added.val = own'[c] /\ added.idx = Index /\ Len(own'[c]) = NumRows
    BY <2>1, ColumnLength
  <2>3. Len(heap') = Len(heap) + 1
    BY <1>2, <1>4
  <2>4. heap' = Append(heap, added)
    BY <1>4
  <2> HIDE DEF added
  <2>5. heap'[Len(heap) + 1] = added
    BY <1>2, <2>4
  <2>6. \A o \in 1 .. Len(heap) : heap'[o] = heap[o]
    BY <1>2, <2>4
  <2>7. ASSUME NEW o \in 1 .. Len(heap'), o > Len(heap)
        PROVE  heap'[o].idx = Index /\ Len(heap'[o].val) = NumRows
    <3>1. o = Len(heap) + 1
      BY <1>2, <2>3, <2>7
    <3>2. heap'[o] = added
      BY <2>5, <3>1
    <3> QED BY <2>2, <3>2
  <2> QED BY <1>2, <2>3, <2>6, <2>7
<1> QED BY <1>1, <1>2, <1>3, <1>4

-----------------------------------------------------------------------------
(* Sizes and indexes stay equal *)

LEMMA SameRowsInit == FrameLong /\ Init => SameRows
  BY DEF FrameLong, Init, SameRows

LEMMA SameIndexInit == OneIndex /\ Init => SameIndex
  BY DEF OneIndex, Init, SameIndex

\* The queue after a call that takes a key out of it and may add an entry.
LEMMA RestSizes ==
  ASSUME IInv, SameRows, NEW k
  PROVE  /\ Without(pending, k) \in Seq(Entries)
         /\ \A i \in 1 .. Len(Without(pending, k)) :
              Without(pending, k)[i].expr.size = NumRows
<1>1. /\ pending \in Seq(Entries)
      /\ \A i, j \in 1 .. Len(pending) : pending[i].key = pending[j].key => i = j
  BY QueueFacts
<1>2. PICK r : r = Without(pending, k)
  OBVIOUS
<1>3. /\ r \in Seq(Entries)
      /\ \A i \in 1 .. Len(r) : \E j \in 1 .. Len(pending) : r[i] = pending[j]
  BY <1>1, <1>2, WithoutProperties
<1>4. \A i \in 1 .. Len(r) : r[i].expr.size = NumRows
  BY <1>3 DEF SameRows
<1> QED BY <1>2, <1>3, <1>4

\* A read leaves every size and index equal.
LEMMA ReadSame ==
  ASSUME IInv, NEW ok \in BOOLEAN,
         Flush(ok) \/ UNCHANGED <<own, obj, pending>>,
         \/ UNCHANGED heap
         \/ \E c \in Cols : /\ own'[c] # Absent
                            /\ heap' = Append(heap, [val |-> own'[c], idx |-> Index])
  PROVE  (SameRows => SameRows') /\ (SameIndex => SameIndex')
<1>1. /\ Len(heap') \in Nat /\ Len(heap) \in Nat /\ Len(heap') >= Len(heap)
      /\ \A o \in 1 .. Len(heap) : heap'[o] = heap[o]
      /\ \A o \in 1 .. Len(heap') : o > Len(heap) =>
           heap'[o].idx = Index /\ Len(heap'[o].val) = NumRows
      /\ pending' \in {pending, << >>}
  BY ReadHeap
<1>2. \A o \in 1 .. Len(heap') : o \in 1 .. Len(heap) \/ o > Len(heap)
  BY <1>1
<1>3. ASSUME SameRows PROVE SameRows'
  BY <1>1, <1>2, <1>3 DEF SameRows
<1>4. ASSUME SameIndex PROVE SameIndex'
  BY <1>1, <1>2, <1>4 DEF SameIndex
<1> QED BY <1>3, <1>4

\* A queued assignment has as many rows as one of its operands.
LEMMA SetDeferredSame ==
  ASSUME IInv, SameRows, NEW k \in Cols, NEW f \in Fns, NEW ins \in LoadSeqs,
         SetDeferred(k, f, ins)
  PROVE  SameRows'
<1>1. ins[Seed[f][1]] \in 1 .. Len(heap)
  BY SeedOperand DEF SetDeferred
<1>2. Deferred(f, ins).size = NumRows
  BY <1>1 DEF Deferred, SameRows
<1> DEFINE e == [key |-> k, expr |-> Deferred(f, ins)]
<1>3. e.expr.size = NumRows
  BY <1>2
<1>4. PICK rest : rest = Without(pending, k)
  OBVIOUS
<1>5. rest \in Seq(Entries) /\ \A i \in 1 .. Len(rest) : rest[i].expr.size = NumRows
  BY <1>4, RestSizes
<1>6. pending' = Append(rest, e) /\ heap' = heap
  BY <1>4 DEF SetDeferred
<1> HIDE DEF e
<1>7. /\ Len(pending') = Len(rest) + 1
      /\ \A i \in 1 .. Len(rest) + 1 :
           pending'[i] = IF i = Len(rest) + 1 THEN e ELSE rest[i]
  BY <1>5, <1>6
<1>8. ASSUME NEW i \in 1 .. Len(rest) + 1 PROVE pending'[i].expr.size = NumRows
  <2>1. CASE i = Len(rest) + 1
    BY <1>3, <1>7, <2>1
  <2>2. CASE i # Len(rest) + 1
    <3>1. i \in 1 .. Len(rest)
      BY <1>5, <2>2
    <3> QED BY <1>5, <1>7, <2>2, <3>1
  <2> QED BY <2>1, <2>2
<1> QED BY <1>6, <1>7, <1>8 DEF SameRows

\* A change of a value of a Series changes neither its length nor its index.
LEMMA ChangeSeriesSame ==
  ASSUME IInv, NEW o \in DOMAIN InitHeap, NEW v \in Scalars,
         NEW i \in DOMAIN heap[o].val, ChangeSeries(o, i, v)
  PROVE  (SameRows => SameRows') /\ (SameIndex => SameIndex')
<1> DEFINE changed == [val |-> [heap[o].val EXCEPT ![i] = v], idx |-> heap[o].idx]
<1>1. heap \in Seq(SeriesSet) /\ Len(heap) \in Nat
  BY DEF IInv, TypeOK, SeriesSet
<1>2. heap' = [heap EXCEPT ![o] = changed] /\ pending' = pending
  BY DEF ChangeSeries
<1>3. changed.idx = heap[o].idx
  OBVIOUS
<1>4. ASSUME o \in 1 .. Len(heap)
      PROVE  Len(changed.val) = Len(heap[o].val)
  <2>1. heap[o].val \in Seq(Vals)
    <3>1. heap[o] \in SeriesSet
      BY <1>1, <1>4
    <3> QED BY <3>1 DEF SeriesSet
  <2>2. v \in Vals
    BY QueueAssumption
  <2>3. Len([heap[o].val EXCEPT ![i] = v]) = Len(heap[o].val)
    BY <2>1, <2>2
  <2> QED BY <2>3
<1> HIDE DEF changed
<1>5. Len(heap') = Len(heap)
  <2>1. DOMAIN heap' = DOMAIN heap
    BY <1>2
  <2>2. heap' \in Seq(SeriesSet)
    BY ChangeSeriesKeeps DEF IInv, TypeOK, SeriesSet
  <2> QED BY <1>1, <2>1, <2>2
<1>6. \A p \in 1 .. Len(heap) :
        heap'[p] = IF p = o THEN changed ELSE heap[p]
  BY <1>1, <1>2
<1>7. ASSUME SameRows PROVE SameRows'
  BY <1>2, <1>4, <1>5, <1>6, <1>7 DEF SameRows
<1>8. ASSUME SameIndex PROVE SameIndex'
  BY <1>3, <1>5, <1>6, <1>8 DEF SameIndex
<1> QED BY <1>7, <1>8

LEMMA SameRowsNext == IInv /\ SameRows /\ [Next]_vars => SameRows'
<1> SUFFICES ASSUME IInv, SameRows, [Next]_vars PROVE SameRows'
  OBVIOUS
<1>1. CASE UNCHANGED vars
  BY <1>1 DEF vars, SameRows
<1>2. ASSUME NEW c \in Cols, GetColumn(c) PROVE SameRows'
  BY <1>2, ReadSame DEF GetColumn, Raise
<1>3. CASE ReadOwn
  BY <1>3, ReadSame DEF ReadOwn, Raise
<1>4. CASE ReadObj
  BY <1>4, ReadSame DEF ReadObj, Raise
<1>5. ASSUME NEW k \in Cols, NEW f \in Fns, NEW ins \in LoadSeqs,
             SetDeferred(k, f, ins)
      PROVE  SameRows'
  BY <1>5, SetDeferredSame
<1>6. ASSUME NEW k, NEW content, SetConcrete(k, content)
      PROVE  SameRows'
  <2>1. pending' = Without(pending, k) /\ heap' = heap
    BY <1>6 DEF SetConcrete, WriteConcrete
  <2> QED BY <2>1, RestSizes DEF SameRows
<1>7. ASSUME NEW k \in Cols, NEW o \in DOMAIN heap, SetSeries(k, o)
      PROVE  SameRows'
  BY <1>6, <1>7 DEF SetSeries
<1>8. ASSUME NEW k \in Cols, NEW v \in Scalars, SetScalar(k, v)
      PROVE  SameRows'
  BY <1>6, <1>8 DEF SetScalar
<1>9. CASE ReadInherited
  BY <1>9 DEF ReadInherited, SameRows
<1>10. ASSUME NEW k \in Cols, NEW v \in Scalars, SetListKey(k, v)
       PROVE  SameRows'
  BY <1>10 DEF SetListKey, SameRows
<1>11. ASSUME NEW o \in DOMAIN InitHeap, NEW v \in Scalars,
              NEW i \in DOMAIN heap[o].val, ChangeSeries(o, i, v)
       PROVE  SameRows'
  BY <1>11, ChangeSeriesSame
<1> QED
  BY <1>1, <1>2, <1>3, <1>4, <1>5, <1>7, <1>8, <1>9, <1>10, <1>11 DEF Next

LEMMA SameIndexNext == IInv /\ SameIndex /\ [Next]_vars => SameIndex'
<1> SUFFICES ASSUME IInv, SameIndex, [Next]_vars PROVE SameIndex'
  OBVIOUS
<1>1. CASE UNCHANGED heap
  BY <1>1 DEF SameIndex
<1>2. ASSUME NEW c \in Cols, GetColumn(c) PROVE SameIndex'
  BY <1>2, ReadSame DEF GetColumn, Raise
<1>3. ASSUME NEW o \in DOMAIN InitHeap, NEW v \in Scalars,
             NEW i \in DOMAIN heap[o].val, ChangeSeries(o, i, v)
      PROVE  SameIndex'
  BY <1>3, ChangeSeriesSame
<1>4. \/ UNCHANGED heap
      \/ \E c \in Cols : GetColumn(c)
      \/ \E o \in DOMAIN InitHeap, v \in Scalars :
           \E i \in DOMAIN heap[o].val : ChangeSeries(o, i, v)
  BY DEF Next, vars, ReadOwn, ReadObj, Raise, SetDeferred, SetSeries, SetScalar,
         SetConcrete, ReadInherited, SetListKey
<1> QED BY <1>1, <1>2, <1>3, <1>4

-----------------------------------------------------------------------------
(* What the queue means *)

\* EagerValue over a given list of Series.
ValueOver(h, d) == EagerColumn(d.fn, [j \in DOMAIN d.ins |-> h[d.ins[j]]])

\* View of a given frame, queue and list of Series.
ViewOf(f, q, h) ==
  [c \in Cols |->
     IF \E i \in DOMAIN q : q[i].key = c
       THEN ValueOver(h, q[CHOOSE i \in DOMAIN q : q[i].key = c].expr)
       ELSE f[c]]

LEMMA ViewIs ==
  /\ View = ViewOf(own, pending, heap)
  /\ View' = ViewOf(own', pending', heap')
<1>1. \A c : c \in PendingKeys <=> \E i \in DOMAIN pending : pending[i].key = c
  BY DEF PendingKeys
<1>2. \A c : c \in PendingKeys' <=> \E i \in DOMAIN pending' : pending'[i].key = c
  BY DEF PendingKeys
<1>3. \A d : EagerValue(d) = ValueOver(heap, d)
  BY DEF EagerValue, ValueOver
<1>4. (\A d : EagerValue(d) = ValueOver(heap, d))'
  BY DEF EagerValue, ValueOver
<1>5. View = ViewOf(own, pending, heap)
  BY <1>1, <1>3 DEF View, ViewOf
<1>6. View' = ViewOf(own', pending', heap')
  BY <1>2, <1>4 DEF View, ViewOf
<1> QED BY <1>5, <1>6

\* Where the view differs from the frame itself.
LEMMA ViewAt ==
  ASSUME NEW f, NEW q, NEW h, NEW n \in Nat, DOMAIN q = 1 .. n, DistinctKeys(q, n),
         NEW c \in Cols
  PROVE  /\ \A i \in 1 .. n : q[i].key = c => ViewOf(f, q, h)[c] = ValueOver(h, q[i].expr)
         /\ (\A i \in 1 .. n : q[i].key # c) => ViewOf(f, q, h)[c] = f[c]
<1>1. ASSUME NEW i \in 1 .. n, q[i].key = c
      PROVE  ViewOf(f, q, h)[c] = ValueOver(h, q[i].expr)
  <2>1. \A j \in DOMAIN q : q[j].key = c => j = i
    BY <1>1 DEF DistinctKeys
  <2>2. i = CHOOSE k \in DOMAIN q : q[k].key = c
    BY <1>1, <2>1
  <2> QED BY <1>1, <2>2 DEF ViewOf
<1>2. ASSUME \A i \in 1 .. n : q[i].key # c
      PROVE  ViewOf(f, q, h)[c] = f[c]
  BY <1>2 DEF ViewOf
<1> QED BY <1>1, <1>2

\* A value that only reads Series both lists have is the same over both.
LEMMA ValueSame ==
  ASSUME NEW g, NEW h, NEW d, NEW n \in Nat, NEW m \in 1 .. MaxLoads,
         d.ins \in [1 .. m -> 1 .. n], \A o \in 1 .. n : h[o] = g[o]
  PROVE  ValueOver(h, d) = ValueOver(g, d)
<1>1. [j \in DOMAIN d.ins |-> h[d.ins[j]]] = [j \in DOMAIN d.ins |-> g[d.ins[j]]]
  OBVIOUS
<1> QED BY <1>1 DEF ValueOver

\* Row i of a Series that names its rows by position, in a frame that does
\* so too: its element i, or nothing when it is shorter.
LEMMA PositionalRow ==
  ASSUME Index = RangeIndex(NumRows), NEW s \in SeriesSet,
         s.idx = RangeIndex(Len(s.val)), NEW i \in 1 .. NumRows
  PROVE  Reindex(s)[i] = IF i \in DOMAIN s.val THEN s.val[i] ELSE NaN
<1>1. NumRows \in Nat
  BY DataAssumption DEF NumRows
<1>2. PICK n : n = Len(s.val)
  OBVIOUS
<1>3. n \in Nat /\ DOMAIN s.val = 1 .. n
  BY <1>2 DEF SeriesSet
<1>4. Index[i] = i - 1 /\ \A j \in 1 .. n : s.idx[j] = j - 1
  BY <1>1, <1>2, <1>3 DEF RangeIndex
<1>5. \A j \in 1 .. n : s.idx[j] = Index[i] <=> j = i
  BY <1>1, <1>3, <1>4
<1>6. Reindex(s)[i] = IF \E j \in DOMAIN s.val : s.idx[j] = Index[i]
                        THEN s.val[CHOOSE j \in DOMAIN s.val : s.idx[j] = Index[i]]
                        ELSE NaN
  BY DEF Reindex
<1>7. CASE i \in DOMAIN s.val
  <2>1. i = CHOOSE j \in DOMAIN s.val : s.idx[j] = Index[i]
    BY <1>3, <1>5, <1>7
  <2> QED BY <1>3, <1>5, <1>6, <1>7, <2>1
<1>8. CASE i \notin DOMAIN s.val
  BY <1>3, <1>5, <1>6, <1>8
<1> QED BY <1>7, <1>8

\* A kernel that runs over the rows all operands have computes for an
\* expression what pandas would have stored: in the rows it leaves out an
\* operand is missing, and so is the result.
LEMMA KernelIsEager ==
  ASSUME IInv, Index = RangeIndex(NumRows), NEW d \in Exprs, NEW n \in Nat,
         RunsOver(d, n)
  PROVE  Reindex(Materialized(d, n)) = ValueOver(heap, d)
<1>1. PICK m \in 1 .. MaxLoads : d.ins \in [1 .. m -> 1 .. Len(heap)]
  BY DEF Exprs, LoadSeqs
<1>2. heap \in Seq(SeriesSet) /\ d.fn \in Fns
  BY DEF IInv, TypeOK, SeriesSet, Exprs
<1> DEFINE s == [j \in DOMAIN d.ins |-> heap[d.ins[j]]]
           r == Materialized(d, n)
<1>3. s \in [1 .. m -> SeriesSet] /\ DOMAIN d.ins = 1 .. m
  BY <1>1, <1>2
<1>4. \A j \in 1 .. m : s[j].idx = RangeIndex(Len(s[j].val))
  BY <1>1 DEF RunsOver, Columns
<1>5. \A i \in 1 .. NumRows : i <= n <=> \A j \in 1 .. m : i \in DOMAIN s[j].val
  BY <1>1 DEF RunsOver, Columns
<1>6. r.val = Evaluate(d.fn, s, n) /\ r.idx = RangeIndex(n)
  BY DEF Materialized
<1>7. ValueOver(heap, d) = EagerColumn(d.fn, s)
  BY DEF ValueOver
<1> HIDE DEF s, r
<1>8. r.val \in Seq(Vals) /\ DOMAIN r.val = 1 .. n
  <2>1. Evaluate(d.fn, s, n) \in Seq(Vals)
    BY <1>2, <1>3, EvaluateType
  <2>2. DOMAIN Evaluate(d.fn, s, n) = 1 .. n
    BY DEF Evaluate
  <2> QED BY <1>6, <2>1, <2>2
<1>9. Len(r.val) = n
  BY <1>8
<1>10. r \in SeriesSet
  <2>1. RangeIndex(n) \in Seq(Int)
    BY DEF RangeIndex
  <2>2. r = [val |-> r.val, idx |-> r.idx]
    BY DEF r, Materialized
  <2> QED BY <1>6, <1>8, <2>1, <2>2 DEF SeriesSet
<1>11. ASSUME NEW i \in 1 .. NumRows
       PROVE  Reindex(r)[i] = EagerColumn(d.fn, s)[i]
  <2> DEFINE args == [k \in DOMAIN s |-> Reindex(s[k])[i]]
  <2>1. EagerColumn(d.fn, s)[i] = Apply[d.fn][args]
    BY DEF EagerColumn
  <2>2. Reindex(r)[i] = IF i \in DOMAIN r.val THEN r.val[i] ELSE NaN
    BY <1>6, <1>9, <1>10, PositionalRow
  <2>3. \A k \in 1 .. m :
          Reindex(s[k])[i] = IF i \in DOMAIN s[k].val THEN s[k].val[i] ELSE NaN
    <3>1. ASSUME NEW k \in 1 .. m
          PROVE  Reindex(s[k])[i] = IF i \in DOMAIN s[k].val THEN s[k].val[i] ELSE NaN
      <4>1. s[k] \in SeriesSet /\ s[k].idx = RangeIndex(Len(s[k].val))
        BY <1>3, <1>4
      <4> QED BY <4>1, PositionalRow
    <3> QED BY <3>1
  <2>4. i \in DOMAIN r.val <=> i <= n
    <3>1. NumRows \in Nat
      BY DataAssumption DEF NumRows
    <3>2. i \in Nat /\ i >= 1
      BY <3>1
    <3> QED BY <1>8, <3>2
  <2>5. CASE i <= n
    <3>1. args = [k \in DOMAIN s |-> Load(s[k], i)]
      BY <1>3, <1>5, <2>3, <2>5 DEF Load
    <3>2. r.val[i] = Apply[d.fn][[k \in DOMAIN s |-> Load(s[k], i)]]
      BY <1>6, <1>8, <2>4, <2>5 DEF Evaluate
    <3> QED BY <2>1, <2>2, <2>4, <2>5, <3>1, <3>2
  <2>6. CASE ~(i <= n)
    <3>1. PICK j \in 1 .. m : i \notin DOMAIN s[j].val
      BY <1>5, <2>6
    <3>2. j \in DOMAIN args /\ args[j] = NaN
      BY <1>3, <2>3, <3>1
    <3>3. args \in Args
      <4>1. \A k \in 1 .. m : Reindex(s[k])[i] \in Vals
        <5>1. ASSUME NEW k \in 1 .. m PROVE Reindex(s[k])[i] \in Vals
          <6>1. s[k].val \in Seq(Vals)
            BY <1>3 DEF SeriesSet
          <6>2. Reindex(s[k]) \in Content
            BY <6>1, ReindexType
          <6> QED BY <6>2 DEF Content
        <5> QED BY <5>1
      <4> QED BY <1>3, <4>1 DEF Args
    <3>4. Apply[d.fn][args] = NaN
      BY <1>2, <3>2, <3>3, DataAssumption
    <3> QED BY <2>1, <2>2, <2>4, <2>6, <3>4
  <2> QED BY <2>5, <2>6
<1>12. Reindex(r) = [i \in 1 .. NumRows |-> Reindex(r)[i]]
  BY DEF Reindex
<1>13. EagerColumn(d.fn, s) = [i \in 1 .. NumRows |-> EagerColumn(d.fn, s)[i]]
  BY DEF EagerColumn
<1>14. Reindex(r) = EagerColumn(d.fn, s)
  BY <1>11, <1>12, <1>13
<1> QED BY <1>7, <1>14 DEF r

\* With Series of the frame's length and index, every kernel over the frame's
\* rows runs over the rows of its operands.
LEMMA SameRunsOver ==
  ASSUME OneIndex, IInv, SameRows, SameIndex, NEW d \in Exprs
  PROVE  RunsOver(d, NumRows) /\ NumRows \in Nat /\ Index = RangeIndex(NumRows)
<1>1. PICK n \in 1 .. MaxLoads : d.ins \in [1 .. n -> 1 .. Len(heap)]
  BY DEF Exprs, LoadSeqs
<1>2. heap \in Seq(SeriesSet)
  BY DEF IInv, TypeOK, SeriesSet
<1>3. \A o \in Columns(d) : o \in 1 .. Len(heap)
  BY <1>1 DEF Columns
<1>4. NumRows \in Nat
  BY DataAssumption DEF NumRows
<1>5. ASSUME NEW o \in Columns(d)
      PROVE  heap[o].idx = RangeIndex(Len(heap[o].val)) /\ DOMAIN heap[o].val = 1 .. NumRows
  <2>1. heap[o] \in SeriesSet
    BY <1>2, <1>3
  <2>2. Len(heap[o].val) = NumRows /\ heap[o].idx = RangeIndex(NumRows)
    BY <1>3 DEF SameRows, SameIndex, OneIndex
  <2>3. heap[o].val \in Seq(Vals)
    BY <2>1 DEF SeriesSet
  <2> QED BY <2>2, <2>3
<1>6. \A i \in 1 .. NumRows : i <= NumRows
  BY <1>4
<1> QED BY <1>4, <1>5, <1>6 DEF RunsOver, OneIndex

\* The frame a flush stores, when it computed every queued expression as
\* pandas would have, is the view.
LEMMA StoredIsView ==
  ASSUME IInv, NEW values, DOMAIN values = 1 .. Len(pending),
         \A i \in 1 .. Len(pending) : values[i] = ValueOver(heap, pending[i].expr)
  PROVE  Stored(own, pending, values) = View
<1>1. /\ pending \in Seq(Entries) /\ Len(pending) \in Nat
      /\ DistinctKeys(pending, Len(pending)) /\ DOMAIN pending = 1 .. Len(pending)
  BY QueueFacts DEF DistinctKeys
<1>2. ASSUME NEW c \in Cols
      PROVE  Stored(own, pending, values)[c] = ViewOf(own, pending, heap)[c]
  <2>1. /\ \A i \in 1 .. Len(pending) : pending[i].key = c =>
             Stored(own, pending, values)[c] = values[i]
        /\ (\A i \in 1 .. Len(pending) : pending[i].key # c) =>
             Stored(own, pending, values)[c] = own[c]
    BY <1>1, StoredAt
  <2>2. /\ \A i \in 1 .. Len(pending) : pending[i].key = c =>
             ViewOf(own, pending, heap)[c] = ValueOver(heap, pending[i].expr)
        /\ (\A i \in 1 .. Len(pending) : pending[i].key # c) =>
             ViewOf(own, pending, heap)[c] = own[c]
    BY <1>1, ViewAt
  <2> QED BY <2>1, <2>2
<1>3. Stored(own, pending, values) = [c \in Cols |-> Stored(own, pending, values)[c]]
  BY DEF Stored
<1>4. ViewOf(own, pending, heap) = [c \in Cols |-> ViewOf(own, pending, heap)[c]]
  BY DEF ViewOf
<1> QED BY <1>2, <1>3, <1>4, ViewIs

\* With an empty queue the frame is what it means.
LEMMA EmptyView ==
  ASSUME NEW f \in Frames, NEW h
  PROVE  ViewOf(f, << >>, h) = f
  BY DEF ViewOf, Frames

\* A queued expression has no more distinct columns than leaves, so a kernel.
LEMMA QueuedHasKernel ==
  ASSUME FrameLong, KernelsWork, IInv, NEW d \in Exprs, d.size = NumRows
  PROVE  HasKernel(d)
<1>1. PICK n \in 1 .. MaxLoads : d.ins \in [1 .. n -> 1 .. Len(heap)]
  BY DEF Exprs, LoadSeqs
<1>2. MaxLoads \in Nat /\ MaxCols \in Nat
  BY DataAssumption, QueueAssumption
<1>3. n \in Nat /\ n >= 1 /\ n <= MaxLoads
  BY <1>2
<1>4. d.ins \in Surjection(1 .. n, Columns(d))
  BY <1>1 DEF Columns, Surjection
<1>5. IsFiniteSet(1 .. n) /\ Cardinality(1 .. n) = n
  BY <1>3, FS_Interval
<1>6. Cardinality(Columns(d)) <= n /\ Cardinality(Columns(d)) \in Nat
  BY <1>4, <1>5, FS_Surjection, FS_CardinalityType
<1>7. d.size > 0
  BY DEF FrameLong
<1>8. Cardinality(Columns(d)) <= MaxCols
  BY <1>2, <1>3, <1>6 DEF KernelsWork
<1> QED BY <1>7, <1>8 DEF HasKernel

-----------------------------------------------------------------------------
(* A flush that cannot fail *)

\* The column of each queued expression, computed over the frame's rows.
AllValues ==
  [i \in 1 .. Len(pending) |-> Reindex(Materialized(pending[i].expr, NumRows))]

\* Every flush succeeds, on either path, and stores all that is queued.
LEMMA FlushStoresAll ==
  ASSUME FrameLong, KernelsWork, IInv, SameRows, NEW ok \in BOOLEAN, Flush(ok)
  PROVE  ok /\ pending' = << >> /\ own' = Stored(own, pending, AllValues)
<1>1. pending \in Seq(Entries) /\ Len(pending) \in Nat
  BY QueueFacts
<1>2. \A i \in 1 .. Len(pending) : HasKernel(pending[i].expr)
  <2>1. \A e \in Entries : e.expr \in Exprs
    BY DEF Entries
  <2>2. \A i \in 1 .. Len(pending) : pending[i].expr \in Exprs
    BY <1>1, <2>1
  <2> QED BY <2>2, QueuedHasKernel DEF SameRows
<1>3. CASE pending # << >> /\ ok /\ FlushFused
  <2>1. 1 \in 1 .. Len(pending)
    BY <1>1, <1>3
  <2>2. pending[1].expr.size = NumRows /\ NumRows # 0
    BY <2>1 DEF SameRows, FrameLong
  <2>3. FusedValues(pending) = AllValues
    BY <2>2 DEF FusedValues, AllValues
  <2> QED BY <1>3, <2>3 DEF FlushFused, StoreBoth
<1>4. CASE pending # << >> /\ FlushSingly(ok)
  <2>1. PICK n \in 0 .. Len(pending) :
          /\ IF ok THEN n = Len(pending)
                   ELSE /\ n < Len(pending)
                        /\ KernelsFail \/ ~HasKernel(pending[n + 1].expr)
          /\ StoreBoth(pending, SingleValues(pending, n))
          /\ pending' = << >>
    BY <1>4 DEF FlushSingly
  <2>2. n < Len(pending) => HasKernel(pending[n + 1].expr)
    BY <1>1, <1>2
  <2>3. ok /\ n = Len(pending)
    BY <2>1, <2>2 DEF KernelsWork
  <2>4. SingleValues(pending, n) = AllValues
    BY <2>3 DEF SingleValues, AllValues, SameRows
  <2> QED BY <2>1, <2>3, <2>4 DEF StoreBoth
<1>5. CASE pending = << >> /\ ok /\ UNCHANGED <<own, obj, pending>>
  <2>1. AllValues = << >>
    BY <1>5 DEF AllValues
  <2>2. own \in Frames
    BY DEF IInv, TypeOK
  <2>3. Stored(own, pending, AllValues) = own
    BY <2>1, <2>2 DEF Stored, Frames
  <2> QED BY <1>5, <2>3
<1> QED BY <1>3, <1>4, <1>5 DEF Flush

-----------------------------------------------------------------------------
(* A flush that may fail *)

\* What is in the queue, and the sizes of its expressions.
LEMMA QueueSizes ==
  ASSUME IInv
  PROVE  /\ pending \in Seq(Entries) /\ Len(pending) \in Nat
         /\ DOMAIN pending = 1 .. Len(pending)
         /\ \A i \in 1 .. Len(pending) :
              pending[i].expr \in Exprs /\ pending[i].expr.size \in Nat
<1>1. pending \in Seq(Entries)
  BY QueueFacts
<1>2. \A e \in Entries : e.expr \in Exprs /\ e.expr.size \in Nat
  BY DEF Entries, Exprs
<1> QED BY <1>1, <1>2

\* A flush that raises nothing has stored what the queue meant: the fallback
\* has gone through all of it, whichever path failed before.
LEMMA FlushKeepsMeaning ==
  ASSUME IInv, QueueFits, Flush(TRUE)
  PROVE  own' = View /\ pending' = << >> /\ View' = View
<1>1. /\ pending \in Seq(Entries) /\ Len(pending) \in Nat
      /\ DOMAIN pending = 1 .. Len(pending)
      /\ \A i \in 1 .. Len(pending) :
           pending[i].expr \in Exprs /\ pending[i].expr.size \in Nat
  BY QueueSizes
<1>2. Index = RangeIndex(NumRows)
  BY DEF QueueFits
<1>3. ASSUME pending # << >>, FlushFused
      PROVE  own' = View /\ pending' = << >>
  <2>1. 1 \in 1 .. Len(pending)
    BY <1>1, <1>3
  <2>2. \A i \in 1 .. Len(pending) :
          pending[1].expr.size > 0 /\ RunsOver(pending[i].expr, pending[1].expr.size)
    BY <1>1, <1>3 DEF QueueFits, FlushFused
  <2>3. pending[1].expr.size \in Nat /\ pending[1].expr.size # 0
    BY <1>1, <2>1, <2>2
  <2>4. FusedValues(pending) =
          [i \in 1 .. Len(pending) |->
             Reindex(Materialized(pending[i].expr, pending[1].expr.size))]
    BY <2>3 DEF FusedValues
  <2>5. \A i \in 1 .. Len(pending) :
          FusedValues(pending)[i] = ValueOver(heap, pending[i].expr)
    BY <1>1, <1>2, <2>2, <2>3, <2>4, KernelIsEager
  <2>6. DOMAIN FusedValues(pending) = 1 .. Len(pending)
    BY <2>4
  <2>7. Stored(own, pending, FusedValues(pending)) = View
    BY <2>5, <2>6, StoredIsView
  <2> QED BY <1>3, <2>7 DEF FlushFused, StoreBoth
<1>4. ASSUME pending # << >>, FlushSingly(TRUE)
      PROVE  own' = View /\ pending' = << >>
  <2>1. StoreBoth(pending, SingleValues(pending, Len(pending))) /\ pending' = << >>
    BY <1>4 DEF FlushSingly
  <2>2. \A i \in 1 .. Len(pending) : RunsOver(pending[i].expr, pending[i].expr.size)
    BY <1>1 DEF QueueFits
  <2>3. \A i \in 1 .. Len(pending) :
          SingleValues(pending, Len(pending))[i] = ValueOver(heap, pending[i].expr)
    BY <1>1, <1>2, <2>2, KernelIsEager DEF SingleValues
  <2>4. DOMAIN SingleValues(pending, Len(pending)) = 1 .. Len(pending)
    BY DEF SingleValues
  <2>5. Stored(own, pending, SingleValues(pending, Len(pending))) = View
    BY <2>3, <2>4, StoredIsView
  <2> QED BY <2>1, <2>5 DEF StoreBoth
<1>5. ASSUME pending = << >>, UNCHANGED <<own, obj, pending>>
      PROVE  own' = View /\ pending' = << >>
  <2>1. own \in Frames
    BY DEF IInv, TypeOK
  <2>2. View = own
    BY <1>5, <2>1, EmptyView, ViewIs
  <2> QED BY <1>5, <2>2
<1>6. own' = View /\ pending' = << >>
  BY <1>3, <1>4, <1>5 DEF Flush
<1>7. own' \in Frames
  BY FlushKeeps
<1>8. View' = own'
  BY <1>6, <1>7, EmptyView, ViewIs
<1> QED BY <1>6, <1>8

-----------------------------------------------------------------------------
(* Reads *)

\* A flush turns the frame into what it meant, and its meaning stays.
LEMMA FlushShowsView ==
  ASSUME FrameLong, KernelsWork, OneIndex, IInv, SameRows, SameIndex,
         NEW ok \in BOOLEAN, Flush(ok)
  PROVE  ok /\ own' = View /\ obj' = View /\ View' = View
<1>1. ok /\ pending' = << >> /\ own' = Stored(own, pending, AllValues)
  BY FlushStoresAll
<1>2. own' = View
  <2>1. \A i \in 1 .. Len(pending) :
          pending[i].expr \in Exprs /\ pending[i].expr.size \in Nat
    BY QueueSizes
  <2>2. \A i \in 1 .. Len(pending) :
          AllValues[i] = ValueOver(heap, pending[i].expr)
    BY <2>1, SameRunsOver, KernelIsEager DEF AllValues
  <2>3. DOMAIN AllValues = 1 .. Len(pending)
    BY DEF AllValues
  <2> QED BY <1>1, <2>2, <2>3, StoredIsView
<1>3. own' \in Frames /\ obj' = own'
  BY FlushKeeps
<1>4. View' = own'
  BY <1>1, <1>3, EmptyView, ViewIs
<1> QED BY <1>1, <1>2, <1>3, <1>4

\* The meaning of the queue does not change when a Series is added.
LEMMA LongerHeapSameView ==
  ASSUME IInv, UNCHANGED <<own, pending>>,
         \A o \in 1 .. Len(heap) : heap'[o] = heap[o]
  PROVE  View' = View
<1>1. pending \in Seq(Entries) /\ DistinctKeys(pending, Len(pending))
  BY QueueFacts DEF DistinctKeys
<1>2. Len(pending) \in Nat /\ DOMAIN pending = 1 .. Len(pending) /\ Len(heap) \in Nat
  BY <1>1 DEF IInv, TypeOK
<1>3. ASSUME NEW i \in 1 .. Len(pending)
      PROVE  ValueOver(heap', pending[i].expr) = ValueOver(heap, pending[i].expr)
  <2>1. pending[i] \in Entries
    BY <1>1
  <2>2. PICK d : d = pending[i].expr
    OBVIOUS
  <2>3. d \in Exprs
    BY <2>1, <2>2 DEF Entries
  <2>4. PICK n \in 1 .. MaxLoads : d.ins \in [1 .. n -> 1 .. Len(heap)]
    BY <2>3 DEF Exprs, LoadSeqs
  <2>5. ValueOver(heap', d) = ValueOver(heap, d)
    BY <1>2, <2>4, ValueSame
  <2> QED BY <2>2, <2>5
<1>4. ASSUME NEW c \in Cols
      PROVE  ViewOf(own, pending, heap')[c] = ViewOf(own, pending, heap)[c]
  <2>1. /\ \A i \in 1 .. Len(pending) : pending[i].key = c =>
             ViewOf(own, pending, heap)[c] = ValueOver(heap, pending[i].expr)
        /\ (\A i \in 1 .. Len(pending) : pending[i].key # c) =>
             ViewOf(own, pending, heap)[c] = own[c]
    BY <1>1, <1>2, ViewAt
  <2>2. /\ \A i \in 1 .. Len(pending) : pending[i].key = c =>
             ViewOf(own, pending, heap')[c] = ValueOver(heap', pending[i].expr)
        /\ (\A i \in 1 .. Len(pending) : pending[i].key # c) =>
             ViewOf(own, pending, heap')[c] = own[c]
    BY <1>1, <1>2, ViewAt
  <2> QED BY <1>3, <2>1, <2>2
<1>5. ViewOf(own, pending, heap') = ViewOf(own, pending, heap)
  BY <1>4 DEF ViewOf
<1> QED BY <1>5, ViewIs

\* A read by name: a column of the view, or an exception when it has none.
LEMMA GetColumnReads ==
  ASSUME FrameLong, KernelsWork, OneIndex, IInv, SameRows, SameIndex,
         NEW c \in Cols, GetColumn(c)
  PROVE  /\ View' = View
         /\ \/ /\ View[c] # Absent
               /\ heap' = Append(heap, [val |-> View[c], idx |-> Index])
               /\ ret' = ColumnRet(View[c])
            \/ View[c] = Absent /\ ret' = Raised /\ UNCHANGED heap
<1>1. PICK ok \in BOOLEAN :
        /\ IF FlushesFor(c) THEN Flush(ok)
                            ELSE ok /\ UNCHANGED <<own, obj, pending>>
        /\ \/ /\ ok /\ own'[c] # Absent
              /\ heap' = Append(heap, [val |-> own'[c], idx |-> Index])
              /\ ret' = ColumnRet(own'[c])
           \/ (~ok \/ own'[c] = Absent) /\ Raise
  BY DEF GetColumn
<1>2. ok /\ View' = View /\ own'[c] = View[c]
  <2>1. CASE FlushesFor(c)
    BY <1>1, <2>1, FlushShowsView
  <2>2. CASE ~FlushesFor(c)
    <3>1. ok /\ UNCHANGED <<own, obj, pending>>
      BY <1>1, <2>2
    <3>2. \A o \in 1 .. Len(heap) : heap'[o] = heap[o]
      BY <1>1, ReadHeap DEF Raise
    <3>3. View[c] = own[c]
      BY <2>2 DEF FlushesFor, View
    <3> QED BY <3>1, <3>2, <3>3, LongerHeapSameView
  <2> QED BY <2>1, <2>2
<1> QED BY <1>1, <1>2 DEF Raise

LEMMA WholeFrameReads ==
  ASSUME FrameLong, KernelsWork, OneIndex, IInv, SameRows, SameIndex,
         ReadOwn \/ ReadObj
  PROVE  View' = View /\ ret' = FrameRet(View) /\ UNCHANGED heap
<1>1. PICK ok \in BOOLEAN :
        /\ Flush(ok)
        /\ \/ ok /\ ret' \in {FrameRet(own'), FrameRet(obj')} /\ UNCHANGED heap
           \/ ~ok /\ Raise
  BY DEF ReadOwn, ReadObj
<1>2. ok /\ own' = View /\ obj' = View /\ View' = View
  BY <1>1, FlushShowsView
<1> QED BY <1>1, <1>2

\* A read never changes what the frame means, whatever part of the queue it
\* flushes and on whichever path.
THEOREM ReadsOnlyRead ==
  ASSUME FrameLong, KernelsWork, OneIndex
  PROVE  Spec => ReadsKeepMeaning
<1>1. IInv /\ SameRows /\ SameIndex /\ [Next]_vars => [ret' # None => View' = View]_vars
  <2> SUFFICES ASSUME IInv, SameRows, SameIndex, [Next]_vars, ret' # None,
                      vars' # vars
               PROVE  View' = View
    OBVIOUS
  <2>1. ASSUME NEW c \in Cols, GetColumn(c) PROVE View' = View
    BY <2>1, GetColumnReads
  <2>2. CASE ReadOwn \/ ReadObj
    BY <2>2, WholeFrameReads
  <2>3. CASE ReadInherited
    BY <2>3, LongerHeapSameView DEF ReadInherited
  <2>4. \/ ReadOwn \/ ReadObj \/ ReadInherited
        \/ \E c \in Cols : GetColumn(c)
    BY DEF Next, SetDeferred, SetSeries, SetScalar, SetConcrete, SetListKey, ChangeSeries
  <2> QED BY <2>1, <2>2, <2>3, <2>4
<1>2. Init => SameRows /\ SameIndex
  BY SameRowsInit, SameIndexInit
<1> QED
  BY <1>1, <1>2, InvInit, InvNext, SameRowsNext, SameIndexNext, PTL
  DEF Spec, ReadsKeepMeaning

\* A read that answers leaves the meaning of the frame, in every state whose
\* queue the kernels can compute: nothing is assumed of the frame's index, the
\* Series, the number of kernel inputs, the device or the calls before.
THEOREM AnswersNeverLose == Spec => AnswersLoseNothing
<1>1. IInv /\ [Next]_vars =>
        [(ret'.kind \in {"column", "frame"} /\ QueueFits) => View' = View]_vars
  <2> SUFFICES ASSUME IInv, [Next]_vars, vars' # vars,
                      ret'.kind \in {"column", "frame"}, QueueFits
               PROVE  View' = View
    OBVIOUS
  <2>1. ret' # None /\ ret' # Raised
    BY DEF None, Raised
  <2>2. ASSUME NEW c \in Cols, GetColumn(c) PROVE View' = View
    <3>1. PICK ok \in BOOLEAN :
            /\ IF FlushesFor(c) THEN Flush(ok)
                                ELSE ok /\ UNCHANGED <<own, obj, pending>>
            /\ \/ /\ ok /\ own'[c] # Absent
                  /\ heap' = Append(heap, [val |-> own'[c], idx |-> Index])
               \/ (~ok \/ own'[c] = Absent) /\ Raise
      BY <2>2 DEF GetColumn
    <3>2. ok = TRUE
      BY <2>1, <3>1 DEF Raise
    <3>3. CASE FlushesFor(c)
      BY <3>1, <3>2, <3>3, FlushKeepsMeaning
    <3>4. CASE ~FlushesFor(c)
      <4>1. \A o \in 1 .. Len(heap) : heap'[o] = heap[o]
        BY <3>1, ReadHeap DEF Raise
      <4> QED BY <3>1, <3>4, <4>1, LongerHeapSameView
    <3> QED BY <3>3, <3>4
  <2>3. CASE ReadOwn \/ ReadObj
    <3>1. PICK ok \in BOOLEAN : Flush(ok) /\ (ok \/ Raise)
      BY <2>3 DEF ReadOwn, ReadObj
    <3>2. ok = TRUE
      BY <2>1, <3>1 DEF Raise
    <3> QED BY <3>1, <3>2, FlushKeepsMeaning
  <2>4. CASE ReadInherited
    BY <2>4, LongerHeapSameView DEF ReadInherited
  <2>5. \/ ReadOwn \/ ReadObj \/ ReadInherited
        \/ \E c \in Cols : GetColumn(c)
    BY <2>1 DEF Next, SetDeferred, SetSeries, SetScalar, SetConcrete, SetListKey,
                ChangeSeries
  <2> QED BY <2>2, <2>3, <2>4, <2>5
<1> QED BY <1>1, InvInit, InvNext, PTL DEF Spec, AnswersLoseNothing

-----------------------------------------------------------------------------
(* Assignments *)

\* A column stored under one key.
LEMMA StoredOne ==
  ASSUME NEW f \in Frames, NEW k \in Cols, NEW content
  PROVE  Stored(f, <<[key |-> k]>>, <<content>>) = [f EXCEPT ![k] = content]
<1> DEFINE q == <<[key |-> k]>>
           v == <<content>>
<1>1. DistinctKeys(q, 1) /\ DOMAIN v = 1 .. 1 /\ q[1].key = k /\ v[1] = content
  BY DEF DistinctKeys
<1>2. \A i \in 1 .. 1 : i = 1
  OBVIOUS
<1> HIDE DEF q, v
<1>3. \A c \in Cols :
        /\ \A i \in 1 .. 1 : q[i].key = c => Stored(f, q, v)[c] = v[i]
        /\ (\A i \in 1 .. 1 : q[i].key # c) => Stored(f, q, v)[c] = f[c]
  <2>1. PICK n \in Nat : n = 1
    OBVIOUS
  <2>2. DOMAIN v = 1 .. n /\ DistinctKeys(q, n)
    BY <1>1, <2>1
  <2>3. \A c \in Cols :
          /\ \A i \in 1 .. n : q[i].key = c => Stored(f, q, v)[c] = v[i]
          /\ (\A i \in 1 .. n : q[i].key # c) => Stored(f, q, v)[c] = f[c]
    BY <2>2, StoredAt
  <2> QED BY <2>1, <2>3
<1>4. Stored(f, q, v) = [c \in Cols |-> Stored(f, q, v)[c]]
  BY DEF Stored
<1>5. \A c \in Cols : Stored(f, q, v)[c] = [f EXCEPT ![k] = content][c]
  BY <1>1, <1>2, <1>3 DEF Frames
<1>6. DOMAIN f = Cols /\ f = [c \in Cols |-> f[c]]
  BY DEF Frames
<1>7. Stored(f, q, v) = [f EXCEPT ![k] = content]
  BY <1>4, <1>5, <1>6
<1> QED BY <1>7 DEF q, v

\* The view after an entry was taken out of the queue and a column written.
LEMMA ViewWithout ==
  ASSUME IInv, NEW k \in Cols, NEW content
  PROVE  ViewOf([own EXCEPT ![k] = content], Without(pending, k), heap)
           = [View EXCEPT ![k] = content]
<1> DEFINE g == [own EXCEPT ![k] = content]
<1>1. /\ pending \in Seq(Entries)
      /\ \A i, j \in 1 .. Len(pending) : pending[i].key = pending[j].key => i = j
  BY QueueFacts
<1>2. PICK r : r = Without(pending, k)
  OBVIOUS
<1>3. /\ r \in Seq(Entries)
      /\ \A i, j \in 1 .. Len(r) : r[i].key = r[j].key => i = j
      /\ \A i \in 1 .. Len(r) :
           /\ r[i].key # k
           /\ \E j \in 1 .. Len(pending) : r[i] = pending[j]
      /\ \A j \in 1 .. Len(pending) : pending[j].key # k =>
           \E i \in 1 .. Len(r) : r[i] = pending[j]
  <2>1. r \in Seq(Entries) /\ \A i, j \in 1 .. Len(r) : r[i].key = r[j].key => i = j
    BY <1>1, <1>2, WithoutProperties
  <2>2. \A i \in 1 .. Len(r) :
          /\ r[i].key # k
          /\ \E j \in 1 .. Len(pending) : r[i] = pending[j]
    BY <1>1, <1>2, WithoutProperties
  <2>3. \A j \in 1 .. Len(pending) : pending[j].key # k =>
          \E i \in 1 .. Len(r) : r[i] = pending[j]
    BY <1>1, <1>2, WithoutProperties
  <2> QED BY <2>1, <2>2, <2>3
<1>4. /\ Len(r) \in Nat /\ DOMAIN r = 1 .. Len(r) /\ DistinctKeys(r, Len(r))
      /\ Len(pending) \in Nat /\ DOMAIN pending = 1 .. Len(pending)
      /\ DistinctKeys(pending, Len(pending))
  <2>1. Len(r) \in Nat /\ DOMAIN r = 1 .. Len(r)
    BY <1>3
  <2>2. Len(pending) \in Nat /\ DOMAIN pending = 1 .. Len(pending)
    BY <1>1
  <2>3. DistinctKeys(r, Len(r)) /\ DistinctKeys(pending, Len(pending))
    BY <1>1, <1>3 DEF DistinctKeys
  <2> QED BY <2>1, <2>2, <2>3
<1>5. own \in Frames /\ DOMAIN own = Cols
  BY DEF IInv, TypeOK, Frames
<1>6. g[k] = content /\ \A c \in Cols : c # k => g[c] = own[c]
  BY <1>5
<1> HIDE DEF g
<1>7. ASSUME NEW c \in Cols
      PROVE  ViewOf(g, r, heap)[c] = IF c = k THEN content ELSE ViewOf(own, pending, heap)[c]
  <2>1. /\ \A i \in 1 .. Len(r) : r[i].key = c =>
             ViewOf(g, r, heap)[c] = ValueOver(heap, r[i].expr)
        /\ (\A i \in 1 .. Len(r) : r[i].key # c) => ViewOf(g, r, heap)[c] = g[c]
    BY <1>4, ViewAt
  <2>2. /\ \A i \in 1 .. Len(pending) : pending[i].key = c =>
             ViewOf(own, pending, heap)[c] = ValueOver(heap, pending[i].expr)
        /\ (\A i \in 1 .. Len(pending) : pending[i].key # c) =>
             ViewOf(own, pending, heap)[c] = own[c]
    BY <1>4, ViewAt
  <2>3. CASE c = k
    BY <1>3, <1>6, <2>1, <2>3
  <2>4. CASE c # k /\ \E j \in 1 .. Len(pending) : pending[j].key = c
    <3>1. PICK j \in 1 .. Len(pending) : pending[j].key = c
      BY <2>4
    <3>2. PICK i \in 1 .. Len(r) : r[i] = pending[j]
      BY <1>3, <2>4, <3>1
    <3> QED BY <2>1, <2>2, <2>4, <3>1, <3>2
  <2>5. CASE c # k /\ \A j \in 1 .. Len(pending) : pending[j].key # c
    <3>1. \A i \in 1 .. Len(r) : r[i].key # c
      BY <1>3, <2>5
    <3> QED BY <1>6, <2>1, <2>2, <2>5, <3>1
  <2> QED BY <2>3, <2>4, <2>5
<1>8. ViewOf(g, r, heap) = [ViewOf(own, pending, heap) EXCEPT ![k] = content]
  BY <1>7 DEF ViewOf
<1> QED BY <1>2, <1>8, ViewIs DEF g

LEMMA SetConcreteWrites ==
  ASSUME IInv, NEW k \in Cols, NEW content, SetConcrete(k, content)
  PROVE  /\ own' = [own EXCEPT ![k] = content]
         /\ View' = [View EXCEPT ![k] = content]
         /\ ret' = None /\ UNCHANGED heap
<1>1. /\ pending' = Without(pending, k)
      /\ own' = Stored(own, <<[key |-> k]>>, <<content>>)
      /\ ret' = None /\ UNCHANGED heap
  BY DEF SetConcrete, WriteConcrete, StoreBoth
<1>2. own \in Frames
  BY DEF IInv, TypeOK
<1>3. own' = [own EXCEPT ![k] = content]
  BY <1>1, <1>2, StoredOne
<1>4. View' = ViewOf([own EXCEPT ![k] = content], Without(pending, k), heap)
  BY <1>1, <1>3, ViewIs
<1> QED BY <1>1, <1>3, <1>4, ViewWithout

\* When a call has written a column, no queued expression is left that a
\* later flush would write over it.  Only an assignment under a list of names
\* breaks this.
THEOREM ConcreteAlwaysWins ==
  ASSUME "list key" \notin OtherCalls
  PROVE  Spec => ConcreteWins
<1>1. IInv /\ [Next]_vars =>
        [ret' = None => \A k \in Cols : own'[k] # own[k] => View'[k] = own'[k]]_vars
  <2> SUFFICES ASSUME IInv, [Next]_vars, ret' = None, vars' # vars,
                      NEW k \in Cols, own'[k] # own[k]
               PROVE  View'[k] = own'[k]
    OBVIOUS
  <2>1. ASSUME NEW c \in Cols, NEW content, SetConcrete(c, content)
        PROVE  View'[k] = own'[k]
    <3>1. /\ own' = [own EXCEPT ![c] = content]
          /\ View' = [View EXCEPT ![c] = content]
      BY <2>1, SetConcreteWrites
    <3>2. DOMAIN own = Cols /\ DOMAIN View = Cols
      BY DEF IInv, TypeOK, Frames, View
    <3>3. k = c
      BY <3>1, <3>2
    <3> QED BY <3>1, <3>2, <3>3
  <2>2. None # Raised /\ \A v : None # ColumnRet(v) /\ None # FrameRet(v)
    <3>1. None.kind = "none" /\ Raised.kind = "raised"
      BY DEF None, Raised
    <3>2. \A v : ColumnRet(v).kind = "column" /\ FrameRet(v).kind = "frame"
      BY DEF ColumnRet, FrameRet
    <3> QED BY <3>1, <3>2
  <2>3. \/ own' = own
        \/ \E c \in Cols : \E content : SetConcrete(c, content)
    <3>1. ~(\E c \in Cols : GetColumn(c)) /\ ~ReadOwn /\ ~ReadObj /\ ~ReadInherited
      BY <2>2 DEF GetColumn, ReadOwn, ReadObj, ReadInherited, Raise
    <3>2. CASE \E c \in Cols, o \in DOMAIN heap : SetSeries(c, o)
      BY <3>2 DEF SetSeries
    <3>3. CASE \E c \in Cols, v \in Scalars : SetScalar(c, v)
      BY <3>3 DEF SetScalar
    <3> QED BY <3>1, <3>2, <3>3 DEF Next, vars, SetDeferred, SetListKey, ChangeSeries
  <2> QED BY <2>1, <2>3
<1> QED BY <1>1, InvInit, InvNext, PTL DEF Spec, ConcreteWins

-----------------------------------------------------------------------------
(* The proxy implements eager pandas *)

\* Functions that differ at one point.
LEMMA UpdateOne ==
  ASSUME NEW S, NEW f, NEW g, NEW k \in S, NEW v,
         f = [c \in S |-> f[c]], g = [c \in S |-> g[c]],
         \A c \in S : f[c] = IF c = k THEN v ELSE g[c]
  PROVE  f = [g EXCEPT ![k] = v]
  OBVIOUS

\* A second update of the same point overwrites the first.
LEMMA UpdateTwice ==
  ASSUME NEW S, NEW g, NEW k \in S, NEW v, NEW w, g = [c \in S |-> g[c]]
  PROVE  [[g EXCEPT ![k] = w] EXCEPT ![k] = v] = [g EXCEPT ![k] = v]
  OBVIOUS

\* EagerFrame means the same by columns, alignment and outcomes.
LEMMA SameData ==
  /\ \A s : Eager!Reindex(s) = Reindex(s)
  /\ \A f, ins, n : Eager!Evaluate(f, ins, n) = Evaluate(f, ins, n)
  /\ \A f, ins : Eager!EagerColumn(f, ins) = EagerColumn(f, ins)
  /\ Eager!NumRows = NumRows /\ Eager!Frames = Frames /\ Eager!LoadSeqs = LoadSeqs
  /\ Eager!None = None /\ Eager!Raised = Raised
  /\ \A v : Eager!ColumnRet(v) = ColumnRet(v) /\ Eager!FrameRet(v) = FrameRet(v)
<1>1. Eager!NumRows = NumRows /\ Eager!Frames = Frames
  BY DEF Eager!NumRows, NumRows, Eager!Frames, Frames, Eager!Column, Column,
         Eager!Content, Content
<1>2. \A s : Eager!Reindex(s) = Reindex(s)
  BY <1>1 DEF Eager!Reindex, Reindex
<1>3. \A s, i : Eager!Load(s, i) = Load(s, i)
  BY DEF Eager!Load, Load
<1>4. \A f, ins, n : Eager!Evaluate(f, ins, n) = Evaluate(f, ins, n)
  BY <1>3 DEF Eager!Evaluate, Evaluate
<1>5. Eager!LoadSeqs = LoadSeqs
  BY DEF Eager!LoadSeqs, LoadSeqs
<1>6. Eager!None = None /\ Eager!Raised = Raised
  BY DEF Eager!None, None, Eager!Raised, Raised
<1>7. \A v : Eager!ColumnRet(v) = ColumnRet(v) /\ Eager!FrameRet(v) = FrameRet(v)
  BY DEF Eager!ColumnRet, ColumnRet, Eager!FrameRet, FrameRet
<1>8. \A f, ins : Eager!EagerColumn(f, ins) = EagerColumn(f, ins)
  BY <1>1, <1>2 DEF Eager!EagerColumn, EagerColumn
<1> QED BY <1>1, <1>2, <1>4, <1>5, <1>6, <1>7, <1>8

\* The view after an entry for a key that was not queued was appended.
LEMMA ViewAppended ==
  ASSUME NEW f, NEW h, NEW S, NEW q \in Seq(S), NEW e \in S, e.key \in Cols,
         \A i, j \in 1 .. Len(q) : q[i].key = q[j].key => i = j,
         \A i \in 1 .. Len(q) : q[i].key # e.key
  PROVE  ViewOf(f, Append(q, e), h)
           = [ViewOf(f, q, h) EXCEPT ![e.key] = ValueOver(h, e.expr)]
<1> DEFINE a == Append(q, e)
           n == Len(q)
<1>1. n \in Nat /\ DOMAIN q = 1 .. n /\ DOMAIN a = 1 .. n + 1
  OBVIOUS
<1>2. a[n + 1] = e /\ \A i \in 1 .. n : a[i] = q[i]
  OBVIOUS
<1>3. DistinctKeys(q, n)
  BY DEF DistinctKeys
<1>4. \A i \in 1 .. n + 1 : i \in 1 .. n \/ i = n + 1
  BY <1>1
<1>5. \A i \in 1 .. n : q[i].key # e.key
  OBVIOUS
<1> HIDE DEF a, n
<1>6. DistinctKeys(a, n + 1)
  BY <1>1, <1>2, <1>3, <1>4, <1>5 DEF DistinctKeys
<1>7. n + 1 \in Nat /\ n + 1 \in 1 .. n + 1 /\ \A i \in 1 .. n : i \in 1 .. n + 1
  BY <1>1
<1>8. ASSUME NEW c \in Cols
      PROVE  ViewOf(f, a, h)[c]
               = IF c = e.key THEN ValueOver(h, e.expr) ELSE ViewOf(f, q, h)[c]
  <2>1. /\ \A i \in 1 .. n + 1 : a[i].key = c => ViewOf(f, a, h)[c] = ValueOver(h, a[i].expr)
        /\ (\A i \in 1 .. n + 1 : a[i].key # c) => ViewOf(f, a, h)[c] = f[c]
    BY <1>1, <1>6, <1>7, ViewAt
  <2>2. /\ \A i \in 1 .. n : q[i].key = c => ViewOf(f, q, h)[c] = ValueOver(h, q[i].expr)
        /\ (\A i \in 1 .. n : q[i].key # c) => ViewOf(f, q, h)[c] = f[c]
    BY <1>1, <1>3, ViewAt
  <2>3. CASE c = e.key
    BY <1>2, <1>7, <2>1, <2>3
  <2>4. CASE c # e.key /\ \E i \in 1 .. n : q[i].key = c
    BY <1>2, <1>7, <2>1, <2>2, <2>4
  <2>5. CASE c # e.key /\ \A i \in 1 .. n : q[i].key # c
    <3>1. \A i \in 1 .. n + 1 : a[i].key # c
      BY <1>2, <1>4, <2>5
    <3> QED BY <2>1, <2>2, <2>5, <3>1
  <2> QED BY <2>3, <2>4, <2>5
<1>9. /\ ViewOf(f, a, h) = [c \in Cols |-> ViewOf(f, a, h)[c]]
      /\ ViewOf(f, q, h) = [c \in Cols |-> ViewOf(f, q, h)[c]]
  BY DEF ViewOf
<1>10. ViewOf(f, a, h) = [ViewOf(f, q, h) EXCEPT ![e.key] = ValueOver(h, e.expr)]
  BY <1>8, <1>9, UpdateOne
<1> QED BY <1>10 DEF a

LEMMA SetDeferredWrites ==
  ASSUME IInv, NEW k \in Cols, NEW f \in Fns, NEW ins \in LoadSeqs,
         SetDeferred(k, f, ins)
  PROVE  /\ View' = [View EXCEPT ![k] = ValueOver(heap, Deferred(f, ins))]
         /\ ret' = None /\ UNCHANGED heap
<1> DEFINE e == [key |-> k, expr |-> Deferred(f, ins)]
<1>1. e \in Entries /\ e.key = k /\ e.expr = Deferred(f, ins)
  <2>1. ins[Seed[f][1]] \in 1 .. Len(heap)
    BY SeedOperand DEF SetDeferred
  <2>2. Len(heap[ins[Seed[f][1]]].val) \in Nat
    BY <2>1 DEF IInv, TypeOK
  <2> QED BY <2>2 DEF Entries, Exprs, Deferred
<1>2. PICK rest \in Seq(Entries) :
        /\ rest = Without(pending, k)
        /\ \A i, j \in 1 .. Len(rest) : rest[i].key = rest[j].key => i = j
        /\ \A i \in 1 .. Len(rest) : rest[i].key # k
  BY RestFacts
<1>3. /\ pending' = Append(rest, e)
      /\ own' = own /\ heap' = heap /\ ret' = None
  BY <1>2 DEF SetDeferred
<1> HIDE DEF e
<1>4. ViewOf(own, Append(rest, e), heap)
        = [ViewOf(own, rest, heap) EXCEPT ![k] = ValueOver(heap, e.expr)]
  BY <1>1, <1>2, ViewAppended
<1>5. own = [own EXCEPT ![k] = own[k]]
  BY DEF IInv, TypeOK, Frames
<1>6. PICK old : old = own[k]
  OBVIOUS
<1>7. ViewOf([own EXCEPT ![k] = old], Without(pending, k), heap) = [View EXCEPT ![k] = old]
  BY ViewWithout
<1>8. ViewOf(own, rest, heap) = [View EXCEPT ![k] = old]
  BY <1>2, <1>5, <1>6, <1>7
<1>9. [[View EXCEPT ![k] = old] EXCEPT ![k] = ValueOver(heap, e.expr)]
        = [View EXCEPT ![k] = ValueOver(heap, e.expr)]
  <2>1. View = [c \in Cols |-> View[c]]
    BY DEF View
  <2> QED BY <2>1, UpdateTwice
<1>10. View' = ViewOf(own, Append(rest, e), heap)
  BY <1>3, ViewIs
<1> QED BY <1>1, <1>3, <1>4, <1>8, <1>9, <1>10

\* What each assignment stores is something pandas may store.
LEMMA EagerContents ==
  /\ \A f \in Fns, ins \in LoadSeqs :
       ValueOver(heap, Deferred(f, ins)) \in Eager!ExprContents
  /\ \A o \in DOMAIN heap : Reindex(heap[o]) \in Eager!SeriesContents
  /\ \A v \in Scalars : [i \in 1 .. NumRows |-> v] \in Eager!ScalarContents
<1>1. ASSUME NEW f \in Fns, NEW ins \in LoadSeqs
      PROVE  ValueOver(heap, Deferred(f, ins)) \in Eager!ExprContents
  <2>1. ins \in Eager!LoadSeqs
    BY SameData
  <2>2. Deferred(f, ins).fn = f /\ Deferred(f, ins).ins = ins
    BY DEF Deferred
  <2>3. ValueOver(heap, Deferred(f, ins)) = Eager!ExprContent(f, ins)
    BY <2>2, SameData DEF ValueOver, Eager!ExprContent
  <2> QED BY <2>1, <2>3 DEF Eager!ExprContents
<1>2. \A o \in DOMAIN heap : Reindex(heap[o]) \in Eager!SeriesContents
  BY SameData DEF Eager!SeriesContents
<1>3. \A v \in Scalars : [i \in 1 .. NumRows |-> v] \in Eager!ScalarContents
  BY QueueAssumption, SameData DEF Eager!ScalarContents
<1> QED BY <1>1, <1>2, <1>3

\* A step that writes one column of the view is an assignment of pandas.
LEMMA WritesAreEager ==
  ASSUME NEW k \in Cols, NEW content,
         content \in Eager!ExprContents \cup Eager!SeriesContents \cup Eager!ScalarContents,
         View' = [View EXCEPT ![k] = content], ret' = None, UNCHANGED heap
  PROVE  Eager!Assign
<1>1. PICK contents : contents = Eager!ExprContents \cup Eager!SeriesContents
                                  \cup Eager!ScalarContents
  OBVIOUS
<1>2. View' = Eager!Updated(View, k, content)
  BY DEF Eager!Updated
<1>3. View' \in {Eager!Updated(View, c, v) : c \in Cols, v \in contents}
  BY <1>1, <1>2
<1> QED BY <1>1, <1>3, SameData DEF Eager!Assign

\* The proxy implements eager pandas: on a frame with the default index, with
\* series of its length and index, every call returns what pandas returns and
\* every assignment has taken effect when it returns, whatever was queued,
\* overwritten or flushed before.
THEOREM ProxyIsEager ==
  ASSUME FrameLong, KernelsWork, OneIndex, OtherCalls = {}
  PROVE  Spec => EagerRefinement
<1>1. Init => Eager!Init
  <2> SUFFICES ASSUME Init PROVE Eager!Init
    OBVIOUS
  <2>1. own \in Frames /\ heap \in Seq(SeriesSet)
    BY QueueAssumption DEF Init, SeriesSet
  <2>2. View = own
    BY <2>1, EmptyView, ViewIs DEF Init
  <2> QED BY <2>1, <2>2, SameData DEF Init, Eager!Init, SeriesSet
<1>2. IInv /\ SameRows /\ SameIndex /\ [Next]_vars => [Eager!Next]_(Eager!vars)
  <2> SUFFICES ASSUME IInv, SameRows, SameIndex, [Next]_vars
               PROVE  Eager!Next \/ UNCHANGED <<View, heap, ret>>
    BY DEF Eager!vars
  <2>1. CASE UNCHANGED vars
    <3>1. View' = View
      BY <2>1, ViewIs DEF vars
    <3> QED BY <2>1, <3>1 DEF vars
  <2>2. ASSUME NEW c \in Cols, GetColumn(c) PROVE Eager!Next
    <3>1. Eager!Read(c)
      BY <2>2, GetColumnReads, SameData DEF Eager!Read
    <3> QED BY <3>1 DEF Eager!Next
  <2>3. CASE ReadOwn \/ ReadObj
    <3>1. Eager!ReadWhole
      BY <2>3, WholeFrameReads, SameData DEF Eager!ReadWhole
    <3> QED BY <3>1 DEF Eager!Next
  <2>4. ASSUME NEW k \in Cols, NEW f \in Fns, NEW ins \in LoadSeqs,
               SetDeferred(k, f, ins)
        PROVE  Eager!Next
    <3>1. Eager!Assign
      BY <2>4, SetDeferredWrites, EagerContents, WritesAreEager
    <3> QED BY <3>1 DEF Eager!Next
  <2>5. ASSUME NEW k \in Cols, NEW o \in DOMAIN heap, SetSeries(k, o)
        PROVE  Eager!Next
    <3>1. Eager!Assign
      BY <2>5, SetConcreteWrites, EagerContents, WritesAreEager DEF SetSeries
    <3> QED BY <3>1 DEF Eager!Next
  <2>6. ASSUME NEW k \in Cols, NEW v \in Scalars, SetScalar(k, v)
        PROVE  Eager!Next
    <3>1. Eager!Assign
      BY <2>6, SetConcreteWrites, EagerContents, WritesAreEager DEF SetScalar
    <3> QED BY <3>1 DEF Eager!Next
  <2>7. ~ReadInherited
    BY DEF ReadInherited
  <2>8. ~\E k \in Cols, v \in Scalars : SetListKey(k, v)
    BY DEF SetListKey
  <2>9. ~\E o \in DOMAIN InitHeap, v \in Scalars :
           \E i \in DOMAIN heap[o].val : ChangeSeries(o, i, v)
    BY DEF ChangeSeries
  <2> QED BY <2>1, <2>2, <2>3, <2>4, <2>5, <2>6, <2>7, <2>8, <2>9 DEF Next
<1>3. Init => SameRows /\ SameIndex
  BY SameRowsInit, SameIndexInit
<1> QED
  BY <1>1, <1>2, <1>3, InvInit, InvNext, SameRowsNext, SameIndexNext, PTL
  DEF Spec, EagerRefinement, Eager!Spec
=============================================================================
