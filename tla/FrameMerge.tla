----------------------------- MODULE FrameMerge -----------------------------
(***************************************************************************)
(* ProxyDataFrame.merge around the hash join: calls the device does not    *)
(* serve go to pandas at once; with the pairs of rows from the device,     *)
(* _metal_merge gathers the columns of both frames, and for a left or      *)
(* right merge appends the rows of that side without a partner to each of  *)
(* them.  An exception anywhere on the way makes merge() answer with       *)
(* pandas.                                                                 *)
(***************************************************************************)
EXTENDS HashJoin

CONSTANTS
  CallsOn(_, _),   \* calls made with two key columns: [how, served, lkey, rkey,
                   \* lcols, rcols], served if no argument asks for more than a
                   \* join on one key column of one type that has kernels
  Stripped(_, _),  \* Python's (n + suffix).rstrip(suffix), which strips letters
  NaN

VARIABLES
  call,
  frame   \* NoFrame, or the columns returned: [<<name, suffix>> -> cells]

joinVars == vars
mergeVars == <<joinVars, call, frame>>

NoFrame == << >>

Pandas == INSTANCE PandasMerge WITH answer <- frame

Served == call.how \in {"inner", "left", "right"} /\ call.served

MergeInit ==
  /\ Init
  /\ call \in CallsOn(left, right)
  /\ frame = NoFrame

Declined ==
  /\ phase = "start" /\ ~Served
  /\ phase' = "pandas"
  /\ UNCHANGED <<left, right, running, at, found, claimed, tableKeys, tableRows,
                 counts, offsets, pairs, call, frame>>

\* metal_hash_join, as far as it gets.
Joining ==
  /\ Served \/ phase # "start"
  /\ phase \notin {"pandas", "done"}
  /\ Next
  /\ UNCHANGED <<call, frame>>

-----------------------------------------------------------------------------
(* Assembly *)

LeftIndices == [p \in DOMAIN pairs |-> pairs[p][1]]
RightIndices == [p \in DOMAIN pairs |-> pairs[p][2]]

SameKeyName == call.lkey = call.rkey

Overlap ==
  (Range(call.lcols) \cap Range(call.rcols)) \ (IF SameKeyName THEN {call.lkey} ELSE {})

LeftDest(n) == <<n, IF n \in Overlap THEN "_x" ELSE "">>
RightDest(n) == <<n, IF n \in Overlap THEN "_y" ELSE "">>

FromRight == Range(call.rcols) \ (IF SameKeyName THEN {call.rkey} ELSE {})

\* result_dict, all columns of the left frame and those of the right one.
Gathered ==
  LET lefts == {LeftDest(n) : n \in Range(call.lcols)}
      rights == {RightDest(n) : n \in FromRight}
  IN [c \in lefts \cup rights |->
        [p \in DOMAIN pairs |->
           IF c \in lefts THEN Pandas!LeftCell(c[1], LeftIndices[p])
                          ELSE Pandas!RightCell(c[1], RightIndices[p])]]

\* Mutant: rows are taken for matched by the indices of the other side.
MatchedAcross(indices) ==
  Range(IF indices = LeftIndices THEN RightIndices ELSE LeftIndices)

Matched(indices) == Range(indices)

Ascending(S) ==
  [q \in 1 .. Cardinality(S) |-> CHOOSE i \in S : Cardinality({j \in S : j <= i}) = q]

\* src_col: the column a column of the result is filled from, if the frame has it.
SourcesIn(cols, c, suffix) ==
  {n \in Range(cols) : \/ c[2] = suffix /\ n = Stripped(c[1], suffix)
                       \/ c[2] = "" /\ n = c[1]}

\* Each column is lengthened by itself: from its source in the rows, or with NaN.
Lengthened(rows, cols, suffix) ==
  [c \in DOMAIN Gathered |->
     Gathered[c] \o
       [q \in DOMAIN rows |->
          LET sources == SourcesIn(cols, c, suffix)
          IN IF sources = {} THEN NaN ELSE rows[q][CHOOSE n \in sources : TRUE]]]

WithLeftRows ==
  LET unmatched == Ascending(DOMAIN left \ Matched(LeftIndices))
  IN Lengthened([q \in DOMAIN unmatched |->
                   [n \in Range(call.lcols) |-> Pandas!LeftCell(n, unmatched[q])]],
                call.lcols, "_x")

WithRightRows ==
  LET unmatched == Ascending(DOMAIN right \ Matched(RightIndices))
  IN Lengthened([q \in DOMAIN unmatched |->
                   [n \in Range(call.rcols) |-> Pandas!RightCell(n, unmatched[q])]],
                call.rcols, "_y")

Assemble ==
  /\ phase = "done" /\ frame = NoFrame
  /\ frame' = CASE call.how = "inner" -> Gathered
                [] call.how = "left" -> WithLeftRows
                [] call.how = "right" -> WithRightRows
  /\ UNCHANGED <<joinVars, call>>

\* The frame pandas makes, with its rows in some order.
PandasFrame(matches) ==
  LET kept(how, alone) == IF call.how \in {how, "outer"} THEN Ascending(alone) ELSE << >>
      lefts == kept("left", Pandas!LeftAlone)
      rights == kept("right", Pandas!RightAlone)
      origins == matches \o [q \in DOMAIN lefts |-> <<lefts[q], 0>>]
                         \o [q \in DOMAIN rights |-> <<0, rights[q]>>]
  IN [c \in Pandas!LeftNames \cup Pandas!RightNames |->
        [p \in DOMAIN origins |-> Pandas!CellOf(c, origins[p])]]

\* metal_take fails on a column.
GatherFails ==
  /\ DeviceFails
  /\ phase = "done" /\ frame = NoFrame
  /\ frame' = PandasFrame(PandasPairs)
  /\ UNCHANGED <<joinVars, call>>

AskPandas ==
  /\ FallBack
  /\ frame' = PandasFrame(PandasPairs)
  /\ UNCHANGED call

MergeReturned == Returned /\ frame # NoFrame /\ UNCHANGED <<call, frame>>

MergeHost == Declined \/ Assemble \/ AskPandas

MergeNext == Joining \/ MergeHost \/ GatherFails \/ MergeReturned

(* The fairness of the join, and of the host around it. *)
MergeSpec ==
  /\ MergeInit /\ [][MergeNext]_mergeVars
  /\ Fairness /\ WF_mergeVars(MergeHost)

-----------------------------------------------------------------------------
(* Properties *)

\* The caller of merge() gets, once, the frame pandas would have made up to the
\* order of its rows: whatever order the pairs come in, each column is as long
\* as the others and has its cells in the same rows, no row that a left or right
\* merge keeps is lost, and none that has a partner is added again.
MergeIsCorrect == Pandas!Spec
=============================================================================
