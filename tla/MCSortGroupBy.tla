---------------------------- MODULE MCSortGroupBy ----------------------------
(* The sorts of MCSort and group-bys of up to four rows: those of a DataFrame *)
(* without a mask and without NaN, and calls of the engine itself with masks  *)
(* that mark what is missing.  No group has only missing values.              *)
EXTENDS MCSort, SortGroupBy

Row(k, v) == [key |-> k, val |-> v]

\* Equal keys apart and together, -0 (8) and 0, the largest word beside padding.
KeyColumns == {<<"int32", <<7, 1, 7>>>>, <<"int32", <<12, 1, 2, 12>>>>,
               <<"float32", <<8, 6, 0>>>>, <<"float32", <<0, 9, 8, 9>>>>}

MCGroupCalls ==
  {GroupCall(agg, c[1], [i \in DOMAIN c[2] |-> Row(c[2][i], 2 ^ i - 5)], FALSE) :
     agg \in {"sum", "count", "min", "max", "mean"}, c \in KeyColumns}
    \cup {GroupCall(agg, "int32", <<Row(9, 1), Row(Null, 4), Row(9, Null), Row(5, 2)>>, TRUE) :
            agg \in {"sum", "count", "mean"}}

MCCalls == MCRequests \cup MCGroupCalls
=============================================================================
