-------------------------- MODULE MCDeferredFrame --------------------------
(* Instances of DeferredFrame for TLC. *)
EXTENDS DeferredFrame

CONSTANTS a, z, w, nan, junk, absent

MCVals == {0, 1, nan, junk}

\* The expressions are s + t, which compares the indexes of its operands, and
\* (s + 1) + .. and t + (s + 1), which do not; modulo two.
MCSeed == [f \in Fns |-> CASE f = "plus"     -> <<1, 2>>
                            [] f = "inc"      -> <<1, 1>>
                            [] f = "plus inc" -> <<2, 2>>]

\* A missing or undefined operand is passed on.
Sum(f, args) ==
  LET ones == Cardinality({j \in DOMAIN args : args[j] = 1})
  IN  IF \E j \in DOMAIN args : args[j] = nan THEN nan
      ELSE IF \E j \in DOMAIN args : args[j] = junk THEN junk
      ELSE (IF f = "plus" THEN ones ELSE ones + 1) % 2

MCApply == [f \in Fns |-> [args \in Args |-> Sum(f, args)]]

NewFrame(content) == [c \in Cols |-> IF c = a THEN content ELSE Absent]

RangeSeries(v) == [val |-> v, idx |-> RangeIndex(Len(v))]

Range2 == RangeIndex(2)
Range0 == << >>
Reversed2 == <<1, 0>>

Start2 == {NewFrame(<<0, 1>>)}
Start0 == {NewFrame(<< >>)}

NoHeap == << >>
OneOfTwoRows == <<RangeSeries(<<1, 0>>)>>
OneOfOneRow == <<RangeSeries(<<1>>)>>
OtherLabels == <<[val |-> <<1, 0>>, idx |-> Reversed2]>>
=============================================================================
