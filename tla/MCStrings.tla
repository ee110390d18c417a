------------------------------ MODULE MCStrings ------------------------------
(* Instances of DeviceStrings for TLC: columns of up to three short strings.   *)
EXTENDS DeviceStrings

\* Two letters beyond ASCII, one of them without a case.
Alef == 1488
Eacute == 233
Space == 32

\* "aAb", " a ", "+0", "aaa", "", " " and "Ba", and strings with an alef.
AsciiColumns ==
  {<< <<97, 65, 98>>, <<32, 97, 32>> >>, << <<43, 48>>, <<97, 97, 97>> >>,
   << << >>, <<32>>, <<66, 97>> >>}
ShortColumns == {<<s>> : s \in BoundedSeq({97, 65, Space, Alef}, 3)}
WideColumns == {<< <<97, Alef>>, <<Alef, 97, 32, 97, 97>> >>}
MCColumns == AsciiColumns \cup WideColumns \cup ShortColumns \cup {<< <<97>>, Missing >>}

Plain(op) == [op |-> op, options |-> FALSE, pat |-> << >>]
WithPattern(op, p) == [op |-> op, options |-> FALSE, pat |-> p]
Replace(p, r, x) ==
  [op |-> "replace", options |-> FALSE, regex |-> x, pat |-> p, repl |-> r]
Slice(a, b) == [op |-> "slice", options |-> FALSE, from |-> a, to |-> b]
Get(k) == [op |-> "get", options |-> FALSE, i |-> k]
Pad(w, s, c) == [op |-> "pad", options |-> FALSE, width |-> w, side |-> s, fill |-> c]

\* Kernels whose results do not depend on what a character is.
ByteSafe ==
  {Plain(op) : op \in SameLength \cup {"strip", "lstrip", "rstrip", "isdigit", "isspace",
                                       "isupper", "islower", "istitle"}}
    \cup {WithPattern(op, p) : op \in {"contains", "startswith", "endswith", "removeprefix",
                                       "removesuffix", "count"},
                               p \in {<<97>>, <<97, 97>>, <<Alef>>}}
    \cup {Replace(<<97, 97>>, <<97, Alef>>, FALSE), Replace(<<97>>, << >>, FALSE),
          Replace(<<32>>, <<97, 97>>, TRUE), Get(0), Slice(1, 2)}
    \cup {[op |-> "repeat", options |-> FALSE, n |-> k] : k \in {0, 2}}

AsciiOnly ==
  {Plain(op) : op \in {"len", "isalpha", "isalnum", "isnumeric", "isdecimal"}}
    \cup {WithPattern("find", p) : p \in {<<97>>, <<97, 97>>, << >>}}
    \cup {WithPattern("count", << >>), [Plain("find") EXCEPT !.options = TRUE]}
    \cup {Slice(a, b) : a \in {0, 0 - 2, 5}, b \in {0 - 1, 2, 2147483647}}
    \cup {Get(k) : k \in {1, 0 - 2, 3}}
    \cup {Pad(w, s, 48) : w \in {0, 4, 5}, s \in {"left", "right", "both"}}
    \cup {Pad(4, "left", Eacute)}
    \cup {[op |-> "zfill", options |-> FALSE, width |-> w] : w \in {1, 4}}

IsWide(col) == \E r \in DOMAIN col : col[r] # Missing /\ \E i \in DOMAIN col[r] : col[r][i] > 127

MCCalls(col) == IF IsWide(col) THEN ByteSafe ELSE ByteSafe \cup AsciiOnly

-----------------------------------------------------------------------------
(* Where kernels and pandas differ *)

\* Bytes counted for characters.
ByteCalls(col) == {Plain("len"), Get(2), Plain("isalpha"), WithPattern("find", <<97>>)}

\* Letters with a case the kernels do not know, and whitespace they do not strip.
LatinColumns == {<< <<Eacute, 97>>, <<97, 28>> >>}
LatinCalls(col) == {Plain(op) : op \in {"upper", "title", "strip", "isspace", "islower"}}

\* Python puts the replacement between all characters.
EmptyPattern(col) == {Replace(<< >>, <<97>>, FALSE)}
=============================================================================
