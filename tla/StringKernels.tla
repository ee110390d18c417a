--------------------------- MODULE StringKernels ---------------------------
(***************************************************************************)
(* What the string kernels compute for one row.  A string is a sequence of *)
(* code points to Python and of UTF-8 bytes to the kernels, which know the *)
(* classes and cases of ASCII bytes only.  Where the result may have       *)
(* another length, one kernel says how long it is and a second writes it.  *)
(***************************************************************************)
EXTENDS Integers, SequencesExt

\* Code points up to 2047 take one byte or two.
Utf8(c) == IF c < 128 THEN <<c>> ELSE <<192 + c \div 64, 128 + (c % 64)>>

Encoded(s) == FlattenSeq([i \in DOMAIN s |-> Utf8(s[i])])

LeadBytes == 192 .. 223
ContinuationBytes == 128 .. 191

\* String::from_utf8 accepts the bytes.
ValidUtf8(b) ==
  /\ \A i \in DOMAIN b : b[i] \in LeadBytes => i + 1 \in DOMAIN b
  /\ \A i \in DOMAIN b : b[i] \in ContinuationBytes <=> i > 1 /\ b[i - 1] \in LeadBytes

CodePoint(b, i) ==
  IF b[i] < 128 THEN b[i] ELSE (b[i] - 192) * 64 + b[i + 1] - 128

Decoded(b) ==
  LET starts == SelectSeq([i \in DOMAIN b |-> i], LAMBDA i : b[i] \notin ContinuationBytes)
  IN [k \in DOMAIN starts |-> CodePoint(b, starts[k])]

-----------------------------------------------------------------------------
(* Classes and cases of bytes *)

is_ascii_upper(c) == c \in 65 .. 90
is_ascii_lower(c) == c \in 97 .. 122
is_ascii_alpha(c) == is_ascii_upper(c) \/ is_ascii_lower(c)
is_ascii_digit(c) == c \in 48 .. 57
is_ascii_space(c) == c = 32 \/ c \in 9 .. 13

ToLower(c) == IF is_ascii_upper(c) THEN c + 32 ELSE c
ToUpper(c) == IF is_ascii_lower(c) THEN c - 32 ELSE c

AfterBoundary(s, i) == i = 1 \/ ~is_ascii_alpha(s[i - 1])

string_istitle(s) ==
  /\ \E i \in DOMAIN s : is_ascii_alpha(s[i])
  /\ \A i \in DOMAIN s :
       is_ascii_alpha(s[i]) => (is_ascii_upper(s[i]) <=> AfterBoundary(s, i))

\* All bytes are in a class, of which there are some.
AllBytes(s, class) == s # << >> /\ class = DOMAIN s

\* has_cased, and a byte of the other case ends the loop.
OneCase(cased, other) == cased # {} /\ other = {}

Classified(op, s) ==
  LET upper == {i \in DOMAIN s : is_ascii_upper(s[i])}
      lower == {i \in DOMAIN s : is_ascii_lower(s[i])}
      digits == {i \in DOMAIN s : is_ascii_digit(s[i])}
      spaces == {i \in DOMAIN s : is_ascii_space(s[i])}
  IN CASE op = "isalpha" -> AllBytes(s, upper \cup lower)
       [] op \in {"isdigit", "isnumeric", "isdecimal"} -> AllBytes(s, digits)
       [] op = "isspace" -> AllBytes(s, spaces)
       [] op = "isalnum" -> AllBytes(s, upper \cup lower \cup digits)
       [] op = "isupper" -> OneCase(upper, lower)
       [] op = "islower" -> OneCase(lower, upper)
       [] op = "istitle" -> string_istitle(s)

\* The kernels whose output has the offsets of the input.
Recased(op, s) ==
  [i \in DOMAIN s |->
     CASE op \in {"lower", "casefold"} -> ToLower(s[i])
       [] op = "upper" -> ToUpper(s[i])
       [] op = "swapcase" -> IF is_ascii_upper(s[i]) THEN ToLower(s[i]) ELSE ToUpper(s[i])
       [] op = "title" -> IF AfterBoundary(s, i) THEN ToUpper(s[i]) ELSE ToLower(s[i])
       [] op = "capitalize" -> IF i = 1 THEN ToUpper(s[i]) ELSE ToLower(s[i])]

-----------------------------------------------------------------------------
(* Patterns *)

MatchAt(s, p, i) == i + Len(p) - 1 <= Len(s) /\ SubSeq(s, i, i + Len(p) - 1) = p

string_contains(s, p) == \E i \in 1 .. Len(s) + 1 : MatchAt(s, p, i)

string_find(s, p) ==
  IF string_contains(s, p)
  THEN Min({i \in 1 .. Len(s) + 1 : MatchAt(s, p, i)}) - 1
  ELSE -1

\* Mutant: the search goes on one byte behind a match.
RECURSIVE OverlappingHits(_, _, _)
OverlappingHits(s, p, i) ==
  IF i + Len(p) - 1 > Len(s) THEN {}
  ELSE OverlappingHits(s, p, i + 1) \cup IF MatchAt(s, p, i) THEN {i} ELSE {}

\* Where the loop over i from here finds the pattern.
RECURSIVE Hits(_, _, _)
Hits(s, p, i) ==
  IF i + Len(p) - 1 > Len(s) THEN {}
  ELSE IF MatchAt(s, p, i) THEN {i} \cup Hits(s, p, i + Len(p))
  ELSE Hits(s, p, i + 1)

string_count(s, p) == IF p = << >> THEN Len(s) + 1 ELSE Cardinality(Hits(s, p, 1))

\* What the second kernel of a replacement writes from i on.
RECURSIVE ReplacedFrom(_, _, _, _)
ReplacedFrom(s, p, r, i) ==
  IF i + Len(p) - 1 > Len(s) THEN SubSeq(s, i, Len(s))
  ELSE IF MatchAt(s, p, i) THEN r \o ReplacedFrom(s, p, r, i + Len(p))
  ELSE <<s[i]>> \o ReplacedFrom(s, p, r, i + 1)

replace_size(s, p, r) ==
  IF p = << >> THEN Len(s) ELSE Len(s) + Cardinality(Hits(s, p, 1)) * (Len(r) - Len(p))

replace_write(s, p, r) == IF p = << >> THEN s ELSE ReplacedFrom(s, p, r, 1)

HasAffix(op, s, p) ==
  /\ p # << >>
  /\ IF op = "removeprefix" THEN IsPrefix(p, s) ELSE IsSuffix(p, s)

remove_affix_size(op, s, p) == IF HasAffix(op, s, p) THEN Len(s) - Len(p) ELSE Len(s)

\* The second kernel goes by the length the first one stored.
remove_affix_write(op, s, p, len) ==
  IF len = Len(s) \/ op = "removesuffix" THEN SubSeq(s, 1, len)
                                         ELSE SubSeq(s, Len(p) + 1, Len(p) + len)

-----------------------------------------------------------------------------
(* Parts and paddings *)

\* First and last byte left by the loops over s and e.
StripBounds(op, s) ==
  LET s0 == IF op = "rstrip" THEN 1
            ELSE Min({i \in DOMAIN s : ~is_ascii_space(s[i])} \cup {Len(s) + 1})
      e0 == IF op = "lstrip" THEN Len(s)
            ELSE Max({i \in s0 .. Len(s) : ~is_ascii_space(s[i])} \cup {s0 - 1})
  IN <<s0, e0>>

strip_size(op, s) == StripBounds(op, s)[2] - StripBounds(op, s)[1] + 1

strip_write(op, s) == SubSeq(s, StripBounds(op, s)[1], StripBounds(op, s)[2])

\* Bounds from the end, then to the length.
SliceBound(x, len) ==
  LET shifted == IF x < 0 THEN Max({0, len + x}) ELSE x
  IN Min({shifted, len})

slice_size(s, from, to) == Max({0, SliceBound(to, Len(s)) - SliceBound(from, Len(s))})

slice_write(s, from, to) ==
  SubSeq(s, SliceBound(from, Len(s)) + 1, SliceBound(to, Len(s)))

GetIndex(s, i) == IF i < 0 THEN Len(s) + i ELSE i

get_size(s, i) == IF GetIndex(s, i) \in 0 .. Len(s) - 1 THEN 1 ELSE 0

get_write(s, i) ==
  IF GetIndex(s, i) \in 0 .. Len(s) - 1 THEN <<s[GetIndex(s, i) + 1]>> ELSE << >>

repeat_size(s, n) == Len(s) * n

repeat_write(s, n) == FlattenSeq([k \in 1 .. n |-> s])

Fill(n, c) == [k \in 1 .. n |-> c]

\* pad_sizes and zfill_sizes.
pad_size(s, width) == Max({Len(s), width})

\* Mutant: half of the padding on the left, rounded down.
HalfLeft(pad_total, width, side) ==
  CASE side = "left" -> pad_total
    [] side = "right" -> 0
    [] side = "both" -> pad_total \div 2

left_pad(pad_total, width, side) ==
  CASE side = "left" -> pad_total
    [] side = "right" -> 0
    [] side = "both" ->
         pad_total \div 2 + IF pad_total % 2 # 0 /\ width % 2 # 0 THEN 1 ELSE 0

pad_write(s, width, side, fillchar) ==
  LET pad_total == Max({0, width - Len(s)})
      left == left_pad(pad_total, width, side)
  IN Fill(left, fillchar) \o s \o Fill(pad_total - left, fillchar)

\* "+" or "-" stays in front.
zfill_write(s, width) ==
  LET zeros == Fill(Max({0, width - Len(s)}), 48)
      sign == IF s # << >> /\ s[1] \in {43, 45} THEN 1 ELSE 0
  IN SubSeq(s, 1, sign) \o zeros \o SubSeq(s, sign + 1, Len(s))
=============================================================================
