--------------------------- MODULE PandasStrings ---------------------------
(***************************************************************************)
(* What the methods of Series.str answer for one string, a sequence of     *)
(* code points, as Python defines them: the reference for the kernels.     *)
(* Of the letters beyond ASCII it knows those of Latin-1 that come in      *)
(* pairs, and Hebrew ones, which have no case.                             *)
(***************************************************************************)
EXTENDS Integers, SequencesExt

CONSTANT NaN   \* what .str.get answers beyond the string

UpperCase == (65 .. 90) \cup ((192 .. 222) \ {215})
LowerCase == {c + 32 : c \in UpperCase}
Letters == UpperCase \cup LowerCase \cup (1488 .. 1514)
Digits == 48 .. 57
Whitespace == {32} \cup (9 .. 13) \cup (28 .. 31) \cup {133, 160}

LowerOf(c) == IF c \in UpperCase THEN c + 32 ELSE c
UpperOf(c) == IF c \in LowerCase THEN c - 32 ELSE c

Cased(s) == {i \in DOMAIN s : s[i] \in UpperCase \cup LowerCase}

\* Cased characters that follow another one.
Inside(s) == {i \in Cased(s) : i - 1 \in Cased(s)}

Consists(s, S) == s # << >> /\ \A i \in DOMAIN s : s[i] \in S

Class(op, s) ==
  CASE op = "isalpha" -> Consists(s, Letters)
    [] op \in {"isdigit", "isnumeric", "isdecimal"} -> Consists(s, Digits)
    [] op = "isspace" -> Consists(s, Whitespace)
    [] op = "isalnum" -> Consists(s, Letters \cup Digits)
    [] op = "isupper" -> Cased(s) # {} /\ \A i \in Cased(s) : s[i] \in UpperCase
    [] op = "islower" -> Cased(s) # {} /\ \A i \in Cased(s) : s[i] \in LowerCase
    [] op = "istitle" -> /\ Cased(s) # {}
                         /\ \A i \in Inside(s) : s[i] \in LowerCase
                         /\ \A i \in Cased(s) \ Inside(s) : s[i] \in UpperCase

Recase(op, s) ==
  [i \in DOMAIN s |->
     CASE op \in {"lower", "casefold"} -> LowerOf(s[i])
       [] op = "upper" -> UpperOf(s[i])
       [] op = "swapcase" -> IF s[i] \in UpperCase THEN LowerOf(s[i]) ELSE UpperOf(s[i])
       [] op = "title" -> IF i \in Inside(s) THEN LowerOf(s[i]) ELSE UpperOf(s[i])
       [] op = "capitalize" -> IF i = 1 THEN UpperOf(s[i]) ELSE LowerOf(s[i])]

\* Where a pattern begins.
Occurrences(s, p) ==
  {i \in 1 .. Len(s) - Len(p) + 1 : SubSeq(s, i, i + Len(p) - 1) = p}

\* What is left between the occurrences of a pattern, cut off one after another.
RECURSIVE Pieces(_, _)
Pieces(s, p) ==
  IF p = << >> THEN <<p>> \o [i \in DOMAIN s |-> <<s[i]>>] \o <<p>>
  ELSE IF Occurrences(s, p) = {} THEN <<s>>
  ELSE LET i == Min(Occurrences(s, p))
       IN <<SubSeq(s, 1, i - 1)>> \o Pieces(SubSeq(s, i + Len(p), Len(s)), p)

Joined(pieces, r) ==
  FlattenSeq([k \in DOMAIN pieces |-> IF k = 1 THEN pieces[k] ELSE r \o pieces[k]])

\* The characters from one index up to another, either counted from the end.
Part(s, from, to) ==
  LET place(x) == IF x < 0 THEN Len(s) + x ELSE x
  IN SelectSeq([i \in DOMAIN s |-> <<i - 1, s[i]>>],
               LAMBDA e : place(from) <= e[1] /\ e[1] < place(to))

Stripped(op, s) ==
  LET kept == {i \in DOMAIN s : s[i] \notin Whitespace}
      from == IF op = "rstrip" \/ kept = {} THEN 1 ELSE Min(kept)
      to == IF op = "lstrip" /\ kept # {} THEN Len(s) ELSE Max(kept \cup {0})
  IN SubSeq(s, from, to)

\* str.center puts the odd character left if the width is odd.
Padded(s, width, side, c) ==
  LET n == Max({0, width - Len(s)})
      left == CASE side = "left" -> n [] side = "right" -> 0
                [] side = "both" -> (n + (width % 2)) \div 2
  IN [i \in 1 .. n + Len(s) |-> IF i - left \in DOMAIN s THEN s[i - left] ELSE c]

\* str.zfill.
ZeroFilled(s, width) ==
  LET n == Max({0, width - Len(s)})
      signed == s # << >> /\ Head(s) \in {43, 45}
      zeros == [k \in 1 .. n |-> 48]
  IN IF signed THEN <<Head(s)>> \o zeros \o Tail(s) ELSE zeros \o s

Pandas(c, s) ==
  CASE c.op \in {"isalpha", "isdigit", "isnumeric", "isdecimal", "isspace", "isalnum",
                 "isupper", "islower", "istitle"} -> Class(c.op, s)
    [] c.op \in {"lower", "casefold", "upper", "swapcase", "title", "capitalize"} ->
         Recase(c.op, s)
    [] c.op \in {"strip", "lstrip", "rstrip"} -> Stripped(c.op, s)
    [] c.op = "len" -> Len(s)
    [] c.op = "contains" -> Len(Pieces(s, c.pat)) > 1
    [] c.op = "startswith" -> SubSeq(s, 1, Min({Len(s), Len(c.pat)})) = c.pat
    [] c.op = "endswith" -> SubSeq(s, Max({1, Len(s) - Len(c.pat) + 1}), Len(s)) = c.pat
    [] c.op = "find" -> IF Occurrences(s, c.pat) = {} THEN -1
                                                      ELSE Min(Occurrences(s, c.pat)) - 1
    [] c.op = "count" -> Len(Pieces(s, c.pat)) - 1
    [] c.op = "replace" -> Joined(Pieces(s, c.pat), c.repl)
    [] c.op = "removeprefix" ->
         IF 1 \in Occurrences(s, c.pat) THEN SubSeq(s, Len(c.pat) + 1, Len(s)) ELSE s
    [] c.op = "removesuffix" ->
         IF Len(s) - Len(c.pat) + 1 \in Occurrences(s, c.pat)
         THEN SubSeq(s, 1, Len(s) - Len(c.pat)) ELSE s
    [] c.op = "slice" -> LET part == Part(s, c.from, c.to)
                         IN [k \in DOMAIN part |-> part[k][2]]
    [] c.op = "get" -> LET i == IF c.i < 0 THEN Len(s) + c.i ELSE c.i
                       IN IF i \in 0 .. Len(s) - 1 THEN <<s[i + 1]>> ELSE NaN
    [] c.op = "repeat" -> FlattenSeq([k \in 1 .. c.n |-> s])
    [] c.op = "pad" -> Padded(s, c.width, c.side, c.fill)
    [] c.op = "zfill" -> ZeroFilled(s, c.width)
=============================================================================
