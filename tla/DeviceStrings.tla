--------------------------- MODULE DeviceStrings ---------------------------
(***************************************************************************)
(* The .str methods of a series: its strings are copied to the device when *)
(* the first of them is called, as bytes with offsets, and the copy stays  *)
(* with the series.  One kernel answers, or transcribes every row in its   *)
(* place, or else stores how long the rows will be, for the host to lay    *)
(* out the result that a second kernel writes.  Results that are no UTF-8, *)
(* and every failure, leave the call to pandas.                            *)
(***************************************************************************)
EXTENDS StringKernels, PandasStrings

CONSTANTS
  Columns,         \* columns, sequences of strings and Missing
  CallsOn(_),      \* calls made on a column: [op, options, ...]
  MaxCalls,        \* bound on the calls of a run
  ChangeAnyTime,   \* whether a series changes in place after its first call
  DeviceFails,     \* whether compilers and command buffers may fail
  Missing,         \* None or NaN in a column
  Junk,            \* what fresh memory holds
  NoCopy, NoAnswer

VARIABLES
  column,      \* the strings of the series
  copy,        \* _metal_str_cache: [offsets, chars]
  calls,       \* number of calls so far
  call,        \* the call
  stage,       \* "idle", "begin", "first", "second", "read" or "pandas"
  done,        \* rows whose thread has run in this kernel
  memory,      \* what the running kernel writes, cells from 1
  offsets_out, \* where the rows of the result begin, and its length
  answer       \* what the call returned

vars == <<column, copy, calls, call, stage, done, memory, offsets_out, answer>>

SameLength == {"lower", "casefold", "upper", "swapcase", "title", "capitalize"}

TwoPasses ==
  {"strip", "lstrip", "rstrip", "replace", "slice", "get", "repeat", "pad", "zfill",
   "removeprefix", "removesuffix"}

Rows == DOMAIN column

-----------------------------------------------------------------------------
(* What the kernels compute *)

\* The kernel that stores one number.
Scalar(c, s) ==
  LET p == Encoded(c.pat)
  IN CASE c.op = "contains" -> string_contains(s, p)
       [] c.op = "startswith" -> IsPrefix(p, s)
       [] c.op = "endswith" -> IsSuffix(p, s)
       [] c.op = "find" -> string_find(s, p)
       [] c.op = "count" -> string_count(s, p)
       [] c.op = "len" -> Len(s)
       [] OTHER -> Classified(c.op, s)

\* The _sizes kernels.
SizeOf(c, s) ==
  CASE c.op \in {"strip", "lstrip", "rstrip"} -> strip_size(c.op, s)
    [] c.op = "replace" -> replace_size(s, Encoded(c.pat), Encoded(c.repl))
    [] c.op = "slice" -> slice_size(s, c.from, c.to)
    [] c.op = "get" -> get_size(s, c.i)
    [] c.op = "repeat" -> repeat_size(s, c.n)
    [] c.op \in {"pad", "zfill"} -> pad_size(s, c.width)
    [] OTHER -> remove_affix_size(c.op, s, Encoded(c.pat))

\* The _write kernels, for a row of which so much was stored.
WrittenBy(c, s, len) ==
  CASE c.op \in {"strip", "lstrip", "rstrip"} -> strip_write(c.op, s)
    [] c.op = "replace" -> replace_write(s, Encoded(c.pat), Encoded(c.repl))
    [] c.op = "slice" -> slice_write(s, c.from, c.to)
    [] c.op = "get" -> get_write(s, c.i)
    [] c.op = "repeat" -> repeat_write(s, c.n)
    [] c.op = "pad" -> pad_write(s, c.width, c.side, c.fill)
    [] c.op = "zfill" -> zfill_write(s, c.width)
    [] OTHER -> remove_affix_write(c.op, s, Encoded(c.pat), len)

-----------------------------------------------------------------------------
(* Buffers *)

\* Where rows of these lengths begin, and all of them end.
RowOffsets(sizes) ==
  [r \in 1 .. Len(sizes) + 1 |-> FoldLeft(+, 0, SubSeq(sizes, 1, r - 1))]

Total(offsets) == offsets[Len(offsets)]

\* from_strings.
FromStrings(strings) ==
  LET rows == [r \in DOMAIN strings |-> Encoded(strings[r])]
  IN [offsets |-> RowOffsets([r \in DOMAIN rows |-> Len(rows[r])]),
      chars |-> FlattenSeq(rows)]

\* get_string.
Row(offsets, chars, r) == SubSeq(chars, offsets[r] + 1, offsets[r + 1])

Source(r) == Row(copy.offsets, copy.chars, r)

Fresh(n) == [k \in 1 .. n |-> Junk]

\* A thread writes these bytes one after another from a cell on.
Write(at, bytes) ==
  memory' = [k \in DOMAIN memory |->
               IF k - at \in DOMAIN bytes THEN bytes[k - at] ELSE memory[k]]

-----------------------------------------------------------------------------
Init ==
  /\ column \in Columns
  /\ copy = NoCopy
  /\ calls = 0 /\ call = NoAnswer /\ stage = "idle"
  /\ done = {} /\ memory = << >> /\ offsets_out = << >>
  /\ answer = NoAnswer

\* The series changes between calls.
ChangeInPlace ==
  /\ stage = "idle"
  /\ ChangeAnyTime \/ copy = NoCopy
  /\ calls \in 1 .. MaxCalls - 1
  /\ column' \in {x \in Columns : Len(x) = Len(column)}
  /\ UNCHANGED <<copy, calls, call, stage, done, memory, offsets_out, answer>>

Ask(c) ==
  /\ stage = "idle" /\ calls < MaxCalls
  /\ calls' = calls + 1
  /\ call' = c
  /\ stage' = "begin"
  /\ answer' = NoAnswer
  /\ UNCHANGED <<column, copy, done, memory, offsets_out>>

\* Arguments the kernels have no parameter for.
ForPandas(c) ==
  \/ c.options
  \/ c.op = "replace" /\ c.regex
  \/ c.op = "pad" /\ c.fill >= 128

HasMissing == \E r \in Rows : column[r] = Missing

\* Without a device copy, and one is not to be had.
Decline ==
  /\ stage = "begin"
  /\ ForPandas(call) \/ (copy = NoCopy /\ HasMissing)
  /\ stage' = "pandas"
  /\ UNCHANGED <<column, copy, calls, call, done, memory, offsets_out, answer>>

\* The copy, made once, and the output of the first kernel.
StartKernel ==
  /\ stage = "begin"
  /\ ~ForPandas(call) /\ ~(copy = NoCopy /\ HasMissing)
  /\ copy' = IF copy = NoCopy THEN FromStrings(column) ELSE copy
  /\ memory' = Fresh(IF call.op \in SameLength THEN Len(copy'.chars) ELSE Len(column))
  /\ done' = {}
  /\ stage' = "first"
  /\ UNCHANGED <<column, calls, call, offsets_out, answer>>

\* One thread per row.
RunThread(r) ==
  /\ r \in Rows \ done
  /\ done' = done \cup {r}

FirstThread(r) ==
  /\ stage = "first"
  /\ RunThread(r)
  /\ IF call.op \in SameLength THEN Write(copy.offsets[r], Recased(call.op, Source(r)))
     ELSE IF call.op \in TwoPasses THEN Write(r - 1, <<SizeOf(call, Source(r))>>)
     ELSE Write(r - 1, <<Scalar(call, Source(r))>>)
  /\ UNCHANGED <<column, copy, calls, call, stage, offsets_out, answer>>

\* The sum over the sizes, and a buffer for as many bytes.
LayOut ==
  /\ stage = "first" /\ done = Rows /\ call.op \in TwoPasses
  /\ offsets_out' = RowOffsets(memory)
  /\ memory' = Fresh(Total(offsets_out'))
  /\ done' = {}
  /\ stage' = "second"
  /\ UNCHANGED <<column, copy, calls, call, answer>>

SecondThread(r) ==
  /\ stage = "second"
  /\ RunThread(r)
  /\ Write(offsets_out[r],
           WrittenBy(call, Source(r), offsets_out[r + 1] - offsets_out[r]))
  /\ UNCHANGED <<column, copy, calls, call, stage, offsets_out, answer>>

\* Same-length kernels hand on the offsets of their input.
Finish ==
  /\ done = Rows
  /\ stage = "second" \/ (stage = "first" /\ call.op \notin TwoPasses)
  /\ offsets_out' = IF call.op \in SameLength THEN copy.offsets ELSE offsets_out
  /\ stage' = "read"
  /\ UNCHANGED <<column, copy, calls, call, done, memory, answer>>

\* Compilation, or the command buffer of either kernel; the copy stays.
KernelFails ==
  /\ DeviceFails
  /\ stage \in {"first", "second"}
  /\ stage' = "pandas"
  /\ UNCHANGED <<column, copy, calls, call, done, memory, offsets_out, answer>>

Return(values) ==
  /\ answer' = values
  /\ stage' = "idle" /\ call' = NoAnswer
  /\ done' = {} /\ memory' = << >> /\ offsets_out' = << >>
  /\ UNCHANGED <<column, copy, calls>>

IsText == call.op \in SameLength \cup TwoPasses

Result(r) == Row(offsets_out, memory, r)

\* An empty result of .str.get stands for a missing one.
Value(s) == IF call.op = "get" /\ s = << >> THEN NaN ELSE Decoded(s)

ReadAnswer ==
  /\ stage = "read"
  /\ IsText => \A r \in Rows : ValidUtf8(Result(r))
  /\ Return([r \in Rows |-> IF IsText THEN Value(Result(r)) ELSE memory[r]])

\* to_strings raises.
ReadFails ==
  /\ stage = "read" /\ IsText
  /\ \E r \in Rows : ~ValidUtf8(Result(r))
  /\ stage' = "pandas"
  /\ UNCHANGED <<column, copy, calls, call, done, memory, offsets_out, answer>>

PandasAnswer(c) ==
  [r \in Rows |-> IF column[r] = Missing THEN Missing ELSE Pandas(c, column[r])]

AskPandas ==
  /\ stage = "pandas"
  /\ Return(PandasAnswer(call))

Serve ==
  \/ Decline \/ StartKernel \/ (\E r \in Rows : FirstThread(r)) \/ LayOut
  \/ (\E r \in Rows : SecondThread(r)) \/ Finish \/ KernelFails
  \/ ReadAnswer \/ ReadFails \/ AskPandas

Next == ChangeInPlace \/ (\E c \in CallsOn(column) : Ask(c)) \/ Serve

Spec == Init /\ [][Next]_vars

-----------------------------------------------------------------------------
(* The sizes one kernel stores are the sizes the other writes: every row is  *)
(* written right up to where the next one begins, so that no thread writes   *)
(* into the row of another or beyond the buffer, and no byte stays unwritten. *)
SizesKept ==
  stage = "second" =>
    \A r \in Rows :
      offsets_out[r]
        + Len(WrittenBy(call, Source(r), offsets_out[r + 1] - offsets_out[r]))
        = offsets_out[r + 1]

(* Whatever the rows, the order of the threads and where the device fails, a *)
(* call returns what pandas answers for the strings the series holds then,   *)
(* also when it works on bytes copied for an earlier call.                   *)
StringsAgree ==
  [][answer' # NoAnswer /\ answer' # answer => answer' = PandasAnswer(call)]_vars
=============================================================================
