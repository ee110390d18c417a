-------------------------- MODULE StreamCompaction --------------------------
(***************************************************************************)
(* The calls that use the prefix scan, from the dispatch in Python to the  *)
(* answer: the cumulative operations and fills hand its result back, and   *)
(* metal_compact, behind s[mask], has the scan of the mask give each kept  *)
(* row its place and a second kernel write the rows.  Whatever fails on    *)
(* the device is answered by pandas.  A row's data is its number here.     *)
(***************************************************************************)
EXTENDS PrefixScan

VARIABLES
  writing,   \* rows whose thread of the compact kernel has still to run
  kept,      \* the output buffer of the filter, cell by cell
  stage,     \* "scan", "compact", "pandas" or "answered"
  answer     \* NoAnswer, or the one-element sequence of the result

allVars == <<vars, writing, kept, stage, answer>>

Sequential == INSTANCE SequentialScan

NoAnswer == << >>

Begin ==
  /\ Init
  /\ writing = {}
  /\ kept = << >>
  /\ stage = "scan"
  /\ answer = NoAnswer

Scan ==
  /\ stage = "scan"
  /\ ScanNext
  /\ UNCHANGED <<writing, kept, stage, answer>>

\* cumsum, cummin, cummax, ffill and bfill wrap the scan's output; an empty
\* filter has nothing to write.
HandBack ==
  /\ stage = "scan" /\ phase = "scanned"
  /\ call.op # "compact" \/ call.column = << >>
  /\ stage' = "answered"
  /\ answer' = <<scanned>>
  /\ UNCHANGED <<vars, writing, kept>>

\* The last prefix is the number of rows that are kept.
StartCompact ==
  /\ stage = "scan" /\ phase = "scanned"
  /\ call.op = "compact" /\ call.column # << >>
  /\ stage' = "compact"
  /\ kept' = [i \in 1 .. scanned[Len(scanned)] |-> 0]
  /\ writing' = DOMAIN call.column
  /\ UNCHANGED <<vars, answer>>

\* Mutant: the rank of a kept row is taken for its place.
RankAsPlace(i) == scanned[i] + 1

\* prefix_sum[idx] - 1, counted from 1.
Place(i) == scanned[i]

CompactRow(i) ==
  /\ stage = "compact" /\ i \in writing
  /\ kept' = [c \in DOMAIN kept |->
                IF call.column[i] = 1 /\ c = Place(i) THEN i ELSE kept[c]]
  /\ writing' = writing \ {i}
  /\ UNCHANGED <<vars, stage, answer>>

FinishCompact ==
  /\ stage = "compact" /\ writing = {}
  /\ stage' = "answered"
  /\ answer' = <<kept>>
  /\ UNCHANGED <<vars, writing, kept>>

CompactError ==
  /\ DeviceFails
  /\ stage = "compact"
  /\ stage' = "pandas"
  /\ UNCHANGED <<vars, writing, kept, answer>>

\* The exception of a scan leaves metal_cumsum, metal_compact, .. as it is.
RaiseScanError ==
  /\ stage = "scan" /\ phase = "failed"
  /\ stage' = "pandas"
  /\ UNCHANGED <<vars, writing, kept, answer>>

\* _try_metal_series_op and __getitem__ catch whatever was raised.
FallBack ==
  /\ stage = "pandas"
  /\ stage' = "answered"
  /\ answer' = <<Sequential!Expected>>
  /\ UNCHANGED <<vars, writing, kept>>

Returned == stage = "answered" /\ UNCHANGED allVars

Progress ==
  \/ stage = "scan" /\ ScanStep /\ UNCHANGED <<writing, kept, stage, answer>>
  \/ HandBack \/ StartCompact \/ FinishCompact \/ RaiseScanError \/ FallBack
  \/ \E i \in writing : CompactRow(i)

Next ==
  \/ Scan
  \/ HandBack
  \/ StartCompact
  \/ \E i \in writing : CompactRow(i)
  \/ FinishCompact
  \/ CompactError
  \/ RaiseScanError
  \/ FallBack
  \/ Returned

(* The host waits for its command buffers; of the threads that may go on,   *)
(* the device runs one after the other.                                     *)
Spec == Begin /\ [][Next]_allVars /\ WF_allVars(Progress)

-----------------------------------------------------------------------------
(* Properties *)

\* A thread of the compact kernel writes inside the buffer that was sized by
\* the last prefix, and no two of them write the same cell.
PlacesApart ==
  stage = "compact" =>
    LET rows == {i \in DOMAIN call.column : call.column[i] = 1} IN
    /\ \A i \in rows : Place(i) \in DOMAIN kept
    /\ \A i, j \in rows : Place(i) = Place(j) => i = j

\* Every call is answered once, with what pandas computes sequentially; and it
\* is answered: no thread waits at a barrier for ever.
ScanIsCorrect == Sequential!Spec
=============================================================================
