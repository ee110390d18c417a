---------------------------- MODULE MCFrameMerge ----------------------------
(* Instances of FrameMerge for TLC: words of four bits, int32 keys that lie   *)
(* half a word lower, and frames with up to two columns besides the key.      *)
EXTENDS FrameMerge

MCEmpty == 15

MCKeys == {-1, 0, 3, 4}

KeysToMax == -8 .. 7

MCPowers == {1, 2, 4, 8, 16}

\* as_type<uint>(i) ^ 0x80000000, with four bits.
ToKey == [k \in Keys |-> k + 8]

Itself == [k \in Keys |-> k]

UpTo(n, S) == UNION {[1 .. m -> S] : m \in 0 .. n}

\* Keys -1 and 3 share a home slot in tables of up to four slots; -1 has the
\* last slot of every table of up to eight for its home.
LeftSides == UpTo(2, {-1, 3, 4}) \cup {<<-1, -1, 3>>, <<-1, 3, 4>>, <<4, -1, 3>>}

RightSides == UpTo(2, {-1, 3}) \cup [1 .. 3 -> {-1, 3, 4}]

Largest == {<<7>>}
Twice == {<<3, 3>>}

-----------------------------------------------------------------------------

Merge(how, lkey, rkey, lcols, rcols) ==
  [how |-> how, served |-> TRUE, lkey |-> lkey, rkey |-> rkey,
   lcols |-> lcols, rcols |-> rcols]

\* One key name, with a column of one name and without; two key names, with the
\* columns of both frames named alike and not.
Layouts(how) ==
  {Merge(how, "k", "k", <<"k", "v">>, <<"k", "v", "w">>),
   Merge(how, "k", "j", <<"k">>, <<"j", "w">>),
   Merge(how, "k", "j", <<"k", "j">>, <<"j", "k">>)}

\* Small frames in every way, larger ones joined.
MCCallsOn(l, r) ==
  IF Len(l) + Len(r) <= 3
    THEN UNION {Layouts(how) : how \in {"left", "right"}}
           \cup {Merge("outer", "k", "k", <<"k", "v">>, <<"k", "v">>),
                 [Merge("left", "k", "k", <<"k", "v">>, <<"k", "v">>) EXCEPT !.served = FALSE]}
    ELSE {Merge("inner", "k", "k", <<"k", "v">>, <<"k", "v">>)}

\* Names that do not end in a letter of a suffix.
Cut(n, suffix) == n

\* "max_x".rstrip("_x") is "ma".
EndingInX(l, r) == {Merge("left", "k", "k", <<"k", "max">>, <<"k", "max">>)}
CutLetters(n, suffix) == IF n = "max" /\ suffix = "_x" THEN "ma" ELSE n
=============================================================================
