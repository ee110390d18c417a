----------------------------- MODULE EagerFrame -----------------------------
(***************************************************************************)
(* What plain pandas does with the same calls, the specification the       *)
(* deferring proxy has to implement: every assignment takes effect in the  *)
(* call that makes it, and every read returns the frame as it then is.     *)
(***************************************************************************)
EXTENDS FrameData

VARIABLES
  frame,   \* column name -> content, Absent where there is no such column
  heap,    \* the Series objects the user holds, in order of creation
  ret      \* what the call that just finished returned or raised

vars == <<frame, heap, ret>>

LoadSeqs == UNION {[1 .. n -> 1 .. Len(heap)] : n \in 1 .. MaxLoads}

Init ==
  /\ frame \in Frames
  /\ heap \in Seq([val : Seq(Vals), idx : Seq(Int)])
  /\ ret = None

\* s = df[c]; an unknown name raises KeyError.
Read(c) ==
  /\ \/ /\ frame[c] # Absent
        /\ heap' = Append(heap, [val |-> frame[c], idx |-> Index])
        /\ ret' = ColumnRet(frame[c])
     \/ /\ frame[c] = Absent
        /\ ret' = Raised
        /\ UNCHANGED heap
  /\ UNCHANGED frame

\* repr(df), df.to_pandas(), df.groupby(..), df[mask]: the whole frame is read.
ReadWhole ==
  /\ UNCHANGED <<frame, heap>>
  /\ ret' = FrameRet(frame)

\* Expression f over the Series ins.
ExprContent(f, ins) == EagerColumn(f, [j \in DOMAIN ins |-> heap[ins[j]]])

\* What df[k] = .. may store: an expression, a series, or a scalar in every row.
ExprContents == {ExprContent(f, ins) : f \in Fns, ins \in LoadSeqs}

SeriesContents == {Reindex(heap[o]) : o \in DOMAIN heap}

ScalarContents == {[i \in 1 .. NumRows |-> v] : v \in Vals}

\* Frame f with content as its column k.
Updated(f, k, content) == [f EXCEPT ![k] = content]

\* df[k] = <any of them>
Assign ==
  /\ ret' = None
  /\ UNCHANGED heap
  /\ LET now == frame IN
       frame' \in {Updated(now, k, content) :
                     k \in Cols,
                     content \in ExprContents \cup SeriesContents \cup ScalarContents}

Next ==
  \/ \E c \in Cols : Read(c)
  \/ ReadWhole
  \/ Assign

Spec == Init /\ [][Next]_vars
=============================================================================
