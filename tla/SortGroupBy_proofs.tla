------------------------- MODULE SortGroupBy_proofs -------------------------
(***************************************************************************)
(* Both sorts keep every row once and with its key, for every column and   *)
(* every size of a block; each pass of the radix sort leaves the digits    *)
(* before it sorted, each stage of the network leaves sorted runs, and     *)
(* both answer what pandas answers; and a group-by, whose leaders draw no  *)
(* more numbers than the column has rows, answers what pandas answers.     *)
(***************************************************************************)
EXTENDS SortGroupBy, CommonLemmas

-----------------------------------------------------------------------------
(* The inductive invariant *)

Stages == request.local_sort_stages

States == {"call", "local", "global", "merge", "count", "scatter", "wait",
           "gather", "lead", "read", "failed", "done"}

\* Buffers of n cells hold every row once, and with it its key.
Whole(n, padded, ks, is) ==
  \A c \in 0 .. n - 1 : (\E b \in 0 .. n - 1 : is[b] = c) /\ ks[c] = padded[is[c]]

\* They are sorted by the last p digits of the keys, and by the rows.
Ordered(n, d, ks, is, p) ==
  \A b, c \in 0 .. n - 1 :
    b < c =>
      \/ RadixKey(d, ks[b]) % 2 ^ (RADIX_BITS * p) < RadixKey(d, ks[c]) % 2 ^ (RADIX_BITS * p)
      \/ /\ RadixKey(d, ks[b]) % 2 ^ (RADIX_BITS * p) = RadixKey(d, ks[c]) % 2 ^ (RADIX_BITS * p)
         /\ is[b] < is[c]

\* Where a cell goes that is sorted by the digit p.
Place(n, d, ks, p, c) == RankOf([b \in 0 .. n - 1 |-> Digit(d, ks[b], p)], n, c)

HostTyped ==
  /\ request \in Requests
  /\ pc \in States
  /\ from \in {0, 1} /\ pass \in 0 .. radix_passes(dtype)
  /\ todo \subseteq Cells
  /\ stage \in 0 .. NumStages /\ step \in 0 .. stage
  /\ Len(answer) <= 1

\* How the state of the host goes with where it is.
Phases ==
  /\ pc \in {"call", "local", "global", "merge"} => from = 0 /\ pass = 0
  /\ pc \in {"count", "scatter"} => pass < radix_passes(dtype)
  /\ pc \in {"global", "merge"} => Stages <= stage /\ stage < NumStages

Buffers ==
  pc # "call" =>
    /\ keys \in [{0, 1} -> [Cells -> 0 .. Words(dtype) - 1]]
    /\ indices \in [{0, 1} -> [Cells -> Cells]]
    /\ Whole(Size, Padded, keys[from], indices[from])

BlocksTyped ==
  pc \in {"local", "global", "merge"} =>
    /\ at \in [Blocks -> 0 .. Stored]
    /\ lk \in [Threads -> 0 .. Words(dtype) - 1]
    /\ li \in [Threads -> Threads]
    /\ pc = "global" => \A g \in Blocks : at[g] = 0

\* A block in the memory of its threadgroup holds the rows its cells have in
\* the buffers, and its padding stays behind the cells.
BlockWhole(g) ==
  /\ \A c \in Cells : BlockOf(c) = g => \E t \in Cells : BlockOf(t) = g /\ li[t] = indices[0][c]
  /\ \A t \in Cells : BlockOf(t) = g => li[t] \in Cells /\ lk[t] = Padded[li[t]]
  /\ \A t \in Threads \ Cells : BlockOf(t) = g => lk[t] = MaxWord(dtype)

BlocksWhole ==
  InKernel => \A g \in Blocks : at[g] \in 1 .. Stored - 1 => BlockWhole(g)

\* What has been scattered is where the tables say.
Scattered ==
  pc = "scatter" =>
    /\ \A c \in Cells : Position(c) = Place(Size, dtype, keys[from], pass, c)
    /\ \A c \in Cells \ todo :
         LET p == Place(Size, dtype, keys[from], pass, c)
         IN  /\ keys[1 - from][p] = keys[from][c]
             /\ indices[1 - from][p] = indices[from][c]

InOrder ==
  pc \in {"count", "scatter"} \/ (pc \in {"wait", "gather", "lead"} /\ pass > 0) =>
    Ordered(Size, dtype, keys[from], indices[from], pass)

Drawn == {t \in RowThreads : number[t] # Junk}

\* As many numbers have been drawn as the counter says.
Numbered ==
  /\ counter \in 0 .. Length
  /\ active \subseteq RowThreads
  /\ pc \in {"lead", "read"} =>
       /\ DOMAIN values = Cells
       /\ number \in [RowThreads -> Nat \cup {Junk}]
       /\ \A t \in RowThreads : number[t] = Junk \/ number[t] \in 0 .. counter - 1
       /\ counter = Cardinality(Drawn)
       /\ DOMAIN entries = RowThreads

IInv ==
  /\ HostTyped /\ Phases /\ Buffers
  /\ BlocksTyped /\ BlocksWhole
  /\ Scattered /\ InOrder
  /\ Numbered

-----------------------------------------------------------------------------
(* Words *)

\* The bits of a word.
WordBits(d) == RADIX_BITS * radix_passes(d)

LEMMA WordType ==
  ASSUME NEW d \in DTypes
  PROVE  /\ Words(d) \in Nat \ {0} /\ SignBit(d) \in Nat \ {0}
         /\ Words(d) = 2 * SignBit(d)
         /\ d \in {"int32", "float32"} => SignBit(d) >= 2
<1>1. RADIX_BITS \in Nat \ {0} /\ radix_passes(d) \in {1, 2}
  BY RadixAssumption DEF radix_passes
<1>2. radix_passes(d) = 2 => WordBits(d) = RADIX_BITS + RADIX_BITS
  BY <1>1 DEF WordBits
<1>3. radix_passes(d) = 1 => WordBits(d) = RADIX_BITS
  BY <1>1 DEF WordBits
<1>4. WordBits(d) \in Nat \ {0}
  BY <1>1, <1>2, <1>3
<1>5. PICK e \in Nat : WordBits(d) = e + 1
  <2>1. WordBits(d) - 1 \in Nat /\ WordBits(d) = (WordBits(d) - 1) + 1
    BY <1>4
  <2> QED BY <2>1
<1> DEFINE s == 2 ^ e
           w == 2 ^ (e + 1)
<1>6. s \in Nat \ {0} /\ w = 2 * s
  BY PowerOfTwo
<1>7. Words(d) = w
  BY <1>5 DEF Words, WordBits
<1>8. SignBit(d) = s
  <2> HIDE DEF s, w
  <2> QED BY <1>6, <1>7 DEF SignBit
<1>9. d \in {"int32", "float32"} => s >= 2
  <2> SUFFICES ASSUME d \in {"int32", "float32"} PROVE s >= 2
    OBVIOUS
  <2>1. radix_passes(d) = 2
    BY DEF radix_passes
  <2>2. e - 1 \in Nat /\ e = (e - 1) + 1
    BY <1>1, <1>2, <1>5, <2>1
  <2>3. 2 ^ (e - 1) \in Nat \ {0} /\ 2 ^ ((e - 1) + 1) = 2 * 2 ^ (e - 1)
    BY <2>2, PowerOfTwo
  <2> QED BY <2>2, <2>3
<1> QED BY <1>6, <1>7, <1>8, <1>9

\* What pads a column is a word, and no word compares as larger.
LEMMA MaxWordIsLargest ==
  ASSUME NEW d \in DTypes
  PROVE  /\ MaxWord(d) \in 0 .. Words(d) - 1
         /\ \A w \in 0 .. Words(d) - 1 : ~Above(d, w, MaxWord(d))
<1> DEFINE W == Words(d)
           s == SignBit(d)
           m == MaxWord(d)
<1>1. W \in Nat \ {0} /\ s \in Nat \ {0} /\ W = 2 * s
      /\ (d \in {"int32", "float32"} => s >= 2)
  BY WordType
<1>2. d \in {"uint8", "int8", "int32", "float32"}
  BY DEF DTypes
<1>3. m = IF d = "uint8" THEN W - 1 ELSE IF d = "float32" THEN s - 2 ELSE s - 1
  BY <1>2 DEF MaxWord
<1>4. m \in 0 .. W - 1
  <2> HIDE DEF W, s, m
  <2> QED BY <1>1, <1>2, <1>3
<1>5. Number(d, m) = m
  <2>1. d = "uint8" \/ (m < s /\ ~(m >= s))
    <3> HIDE DEF W, s, m
    <3> QED BY <1>1, <1>2, <1>3
  <2> HIDE DEF m
  <2> QED BY <2>1, <1>2 DEF Number
<1>6. ASSUME NEW w \in 0 .. W - 1, ~IsNaN(d, w) PROVE Number(d, w) <= m
  <2>1. CASE d = "uint8"
    <3>1. Number(d, w) = w
      BY <2>1 DEF Number
    <3> HIDE DEF W, s, m
    <3> QED BY <3>1, <1>1, <1>3, <2>1
  <2>2. CASE d # "uint8" /\ w >= s
    <3>1. Number(d, w) = IF d = "float32" THEN s - w ELSE w - W
      <4> HIDE DEF W
      <4>1. ~(w < s)
        BY <1>1, <2>2
      <4>2. Words(d) = W
        BY DEF W
      <4> QED BY <1>2, <2>2, <4>1, <4>2 DEF Number
    <3> HIDE DEF W, s, m
    <3> QED BY <3>1, <1>1, <1>3, <1>4, <2>2
  <2>3. CASE d # "uint8" /\ w < s
    <3>1. Number(d, w) = w
      <4>1. ~(w >= s)
        <5> HIDE DEF s, W
        <5> QED BY <1>1, <2>3
      <4> QED BY <1>2, <2>3, <4>1 DEF Number
    <3>2. d = "float32" => w # s - 1
      <4> SUFFICES ASSUME d = "float32", w = s - 1 PROVE FALSE
        OBVIOUS
      <4>1. w % s = s - 1
        <5>1. s - 1 \in 0 .. s - 1 /\ w \in Int /\ w = s * 0 + (s - 1)
          BY <1>1
        <5> HIDE DEF s
        <5> QED BY <5>1, <1>1, ModUnique
      <4> QED BY <4>1, <1>6 DEF IsNaN
    <3> HIDE DEF W, s, m
    <3> QED BY <3>1, <3>2, <1>1, <1>2, <1>3, <2>3
  <2> HIDE DEF W, s, m
  <2> QED BY <2>1, <2>2, <2>3, <1>1
<1>7. ASSUME NEW w \in 0 .. W - 1 PROVE ~Above(d, w, m)
  <2> SUFFICES ASSUME Above(d, w, m) PROVE FALSE
    OBVIOUS
  <2>1. ~IsNaN(d, w) /\ Number(d, w) > Number(d, m)
    BY DEF Above
  <2>2. Number(d, w) <= m
    BY <2>1, <1>6
  <2>3. Number(d, w) \in Int
    <3>1. w \in Int /\ s \in Int /\ Words(d) \in Int
      BY <1>1
    <3>2. d = "uint8" \/ w < s \/ (d \in {"int8", "int32"} /\ w >= s) \/ (d = "float32" /\ w >= s)
      BY <1>2, <3>1
    <3> QED BY <3>1, <3>2, <1>2 DEF Number
  <2> HIDE DEF W, s, m
  <2> QED BY <2>1, <2>2, <2>3, <1>4, <1>5
<1> QED BY <1>4, <1>7

\* The keys the digits are taken from.
LEMMA RadixKeyType ==
  ASSUME NEW d \in DTypes, NEW w \in 0 .. Words(d) - 1
  PROVE  RadixKey(d, w) \in Nat
<1> DEFINE W == Words(d)
           s == SignBit(d)
<1>1. W \in Nat \ {0} /\ s \in Nat \ {0}
  BY WordType
<1>2. d \in {"uint8", "int8", "int32", "float32"}
  BY DEF DTypes
<1>3. w \in 0 .. W - 1
  OBVIOUS
<1>4. (w + s) % W \in Nat
  <2> HIDE DEF s, W
  <2> QED BY <1>1, <1>3
<1>5. w \in Nat /\ w + s \in Nat /\ W - 1 - w \in Nat
  <2> HIDE DEF s, W
  <2> QED BY <1>1, <1>3
<1>6. w < s \/ w >= s
  <2> HIDE DEF s, W
  <2> QED BY <1>1, <1>3
<1> QED BY <1>2, <1>4, <1>5, <1>6 DEF RadixKey

-----------------------------------------------------------------------------
(* Cells, blocks and pairs *)

LEMMA PaddedLength ==
  ASSUME NEW len \in Nat
  PROVE  \E k \in 0 .. len : next_power_of_two(len) = 2 ^ k /\ len <= 2 ^ k
<1> DEFINE K == {k \in 0 .. len : len <= 2 ^ k}
<1>1. len \in K
  <2>1. len < 2 ^ len /\ 2 ^ len \in Nat
    BY PowerAbove, PowerOfTwo
  <2> QED BY <2>1
<1>2. PICK k \in K : \A j \in K : k <= j
  <2>1. K \in SUBSET Nat
    OBVIOUS
  <2> HIDE DEF K
  <2> QED BY <1>1, <2>1, LeastNumber
<1> DEFINE P == {2 ^ j : j \in 0 .. len}
           p == next_power_of_two(len)
<1>3. \A q \in P : len <= q => 2 ^ k <= q
  <2> SUFFICES ASSUME NEW j \in 0 .. len, len <= 2 ^ j PROVE 2 ^ k <= 2 ^ j
    OBVIOUS
  <2>1. k <= j /\ k \in Nat /\ j \in Nat
    BY <1>2
  <2> QED BY <2>1, PowersGrow
<1>4. 2 ^ k \in P /\ len <= 2 ^ k
  BY <1>2
<1>5. p \in P /\ len <= p
  <2> HIDE DEF P, K
  <2>1. \E q \in P : len <= q /\ \A r \in P : len <= r => q <= r
    BY <1>3, <1>4
  <2>2. p = CHOOSE q \in P : len <= q /\ \A r \in P : len <= r => q <= r
    BY DEF next_power_of_two, P
  <2> QED BY <2>1, <2>2
<1>6. PICK j \in 0 .. len : p = 2 ^ j
  <2> HIDE DEF p
  <2> QED BY <1>5
<1> QED BY <1>5, <1>6

LEMMA RequestType ==
  ASSUME request \in Requests
  PROVE  /\ request.op \in {"sort", "argsort", "groupby"}
         /\ dtype \in DTypes /\ radix_passes(dtype) \in {1, 2}
         /\ request.words \in Seq(0 .. Words(dtype) - 1)
         /\ Length \in Nat /\ Rows = 1 .. Length
         /\ Stages \in Nat
BY RequestAssumption DEF dtype, Length, Rows, Stages, radix_passes

LEMMA CellType ==
  ASSUME request \in Requests
  PROVE  /\ NumStages \in Nat /\ Size = 2 ^ NumStages
         /\ Size \in Nat \ {0} /\ Length <= Size
<1>1. Length \in Nat
  BY RequestType
<1>2. PICK k \in 0 .. Length : Size = 2 ^ k /\ Length <= 2 ^ k
  <2> HIDE DEF Length
  <2> QED BY <1>1, PaddedLength DEF Size
<1>3. 2 ^ k \in Nat \ {0} /\ k < 2 ^ k /\ k \in Nat
  <2>1. k \in Nat
    OBVIOUS
  <2> QED BY <2>1, PowerOfTwo, PowerAbove
<1>4. Size \in Nat \ {0} /\ k \in 0 .. Size
  BY <1>2, <1>3
<1>5. NumStages \in 0 .. Size /\ 2 ^ NumStages = Size
  BY <1>2, <1>4 DEF NumStages
<1> QED BY <1>1, <1>2, <1>4, <1>5

LEMMA BlockType ==
  ASSUME request \in Requests
  PROVE  /\ BlockSize \in Nat \ {0}
         /\ Cells \subseteq Threads
         /\ \A t \in Threads : t \in Nat /\ BlockOf(t) \in Blocks
         /\ \A t \in Nat : BlockOf(t) \in Blocks => t \in Threads
<1> DEFINE B == BlockSize
           m == (Size + B - 1) \div B
<1>1. Size \in Nat \ {0} /\ B \in Nat \ {0}
  BY RequestType, CellType, PowerOfTwo DEF BlockSize, Stages
<1>2. \A c \in Cells : c \div B \in 0 .. m - 1
  <2> SUFFICES ASSUME NEW c \in 0 .. Size - 1 PROVE c \div B \in 0 .. m - 1
    BY DEF Cells
  <2> HIDE DEF B
  <2> QED BY <1>1, CeilingCovers
<1>3. m \in Nat \ {0}
  <2>1. 0 \in Cells
    BY <1>1 DEF Cells
  <2>2. 0 \div B \in 0 .. m - 1
    BY <1>2, <2>1
  <2>3. m \in Int
    <3> HIDE DEF B
    <3> QED BY <1>1
  <2> HIDE DEF m
  <2>4. \A x \in 0 .. m - 1 : m \in Nat \ {0}
    BY <2>3
  <2> QED BY <2>2, <2>4
<1>4. Blocks = 0 .. m - 1 /\ Cardinality(Blocks) = m
  <2>1. Blocks = 0 .. m - 1
    BY DEF Blocks
  <2> HIDE DEF m
  <2>2. Cardinality(0 .. m - 1) = IF 0 > m - 1 THEN 0 ELSE (m - 1) - 0 + 1
    BY <1>3, FS_Interval
  <2> QED BY <1>3, <2>1, <2>2
<1>5. Threads = 0 .. m * B - 1
  BY <1>4 DEF Threads
<1> HIDE DEF m
<1>6. ASSUME NEW t \in Threads PROVE t \in Nat /\ BlockOf(t) \in Blocks
  <2>1. m * B \in Nat /\ t \in 0 .. B * m - 1
    <3>1. m * B = B * m /\ m * B \in Nat
      BY <1>1, <1>3
    <3> QED BY <1>5, <3>1
  <2>2. t \div B \in 0 .. m - 1
    <3> HIDE DEF B
    <3> QED BY <1>1, <1>3, <2>1, BlockIndex
  <2> QED BY <1>4, <2>1, <2>2 DEF BlockOf
<1>7. ASSUME NEW t \in Nat, BlockOf(t) \in Blocks PROVE t \in Threads
  <2> DEFINE q == t \div B
             r == t % B
  <2>1. q \in Nat /\ r \in 0 .. B - 1 /\ t = q * B + r
    <3> HIDE DEF B
    <3> QED BY <1>1, DivMod
  <2>2. q \in 0 .. m - 1
    BY <1>4, <1>7 DEF BlockOf
  <2> HIDE DEF q, r
  <2>3. t \in 0 .. B * m - 1
    <3> HIDE DEF B
    <3> QED BY <1>1, <1>3, <2>1, <2>2, BlockIndex
  <2>4. m * B = B * m
    <3> HIDE DEF B
    <3> QED BY <1>1, <1>3
  <2> QED BY <1>5, <2>3, <2>4
<1>8. Cells \subseteq Threads
  <2> SUFFICES ASSUME NEW c \in Cells PROVE c \in Threads
    OBVIOUS
  <2>1. c \in Nat
    BY <1>1 DEF Cells
  <2>2. BlockOf(c) \in Blocks
    BY <1>2, <1>4 DEF BlockOf
  <2> QED BY <1>7, <2>1, <2>2
<1> QED BY <1>1, <1>6, <1>7, <1>8

LEMMA PaddedType ==
  ASSUME request \in Requests
  PROVE  Padded \in [Cells -> 0 .. Words(dtype) - 1]
<1>1. /\ request.words \in Seq(0 .. Words(dtype) - 1)
      /\ Length \in Nat /\ dtype \in DTypes /\ Length = Len(request.words)
  BY RequestType DEF Length
<1>2. MaxWord(dtype) \in 0 .. Words(dtype) - 1
  BY <1>1, MaxWordIsLargest
<1>3. Cells \subseteq Nat
  BY CellType DEF Cells
<1> SUFFICES ASSUME NEW c \in Cells, c < Length
             PROVE  SentinelWord(c + 1) \in 0 .. Words(dtype) - 1
  BY <1>2 DEF Padded
<1>4. c + 1 \in 1 .. Length
  BY <1>1, <1>3
<1> DEFINE w == request.words
           W == 0 .. Words(dtype) - 1
<1>5. w[c + 1] \in W
  <2>1. w \in Seq(W) /\ c + 1 \in 1 .. Len(w)
    BY <1>1, <1>4
  <2> HIDE DEF w, W
  <2> QED BY <2>1
<1> QED BY <1>2, <1>5 DEF SentinelWord

\* Threads are paired: partners name each other, and agree which is lower.
LEMMA Pairs ==
  ASSUME NEW d \in Nat, NEW t \in Nat
  PROVE  /\ Lower(t, d) \in Nat /\ Partner(t, d) \in Nat
         /\ Partner(Partner(t, d), d) = t
         /\ Lower(Partner(t, d), d) = Lower(t, d)
         /\ {t, Partner(t, d)} = {Lower(t, d), Lower(t, d) + 2 ^ d}
         /\ Partner(t, d) \div 2 ^ (d + 1) = t \div 2 ^ (d + 1)
<1> DEFINE D == 2 ^ d
           E == 2 ^ (d + 1)
           q == t \div D
           r == t % D
           h == q \div 2
<1>1. D \in Nat \ {0} /\ E = D * 2
  BY PowerOfTwo
<1>2. q \in Nat /\ r \in 0 .. D - 1 /\ t = q * D + r
  <2> HIDE DEF D
  <2> QED BY <1>1, DivMod
<1>3. \A p \in Nat, x \in Nat : x = p * D + r => x \div D = p
  <2> SUFFICES ASSUME NEW p \in Nat, NEW x \in Nat, x = p * D + r
               PROVE  x \div D = p
    OBVIOUS
  <2> HIDE DEF D, r
  <2>1. x \div D \in Nat /\ x % D \in 0 .. D - 1 /\ x = (x \div D) * D + (x % D)
    BY <1>1, DivMod
  <2> DEFINE y == x \div D
             s == x % D
  <2>2. y \in Nat /\ s \in 0 .. D - 1 /\ y * D + s = p * D + r
    BY <2>1
  <2> HIDE DEF y, s
  <2>3. y = p
    BY <1>1, <1>2, <2>2, DivUnique
  <2> QED BY <2>3 DEF y
<1>4. \A x \in Nat : x \div E = (x \div D) \div 2
  <2> HIDE DEF D, E
  <2> QED BY <1>1, DivDiv
<1>5. CASE q % 2 = 0
  <2>1. Lower(t, d) = t /\ Partner(t, d) = t + D
    BY <1>5 DEF Lower, Partner
  <2> DEFINE u == t + D
  <2>2. u \in Nat /\ u = (q + 1) * D + r
    <3> HIDE DEF D, q, r
    <3> QED BY <1>1, <1>2
  <2>3. u \div D = q + 1
    <3> HIDE DEF u, D, q, r
    <3> QED BY <1>2, <1>3, <2>2
  <2>4. (q + 1) % 2 = 1 /\ (q + 1) \div 2 = q \div 2
    <3> HIDE DEF q
    <3> QED BY <1>2, <1>5
  <2>5. Lower(u, d) = t
    <3>1. (u \div D) % 2 # 0
      <4> DEFINE v == u \div D
      <4>1. v = q + 1
        BY <2>3
      <4> HIDE DEF v, q
      <4>2. v % 2 = 1
        BY <2>4, <4>1
      <4> QED BY <4>2 DEF v
    <3>2. Lower(u, d) = u - D
      BY <3>1 DEF Lower
    <3>3. u - D = t
      <4> HIDE DEF D
      <4> QED BY <1>1
    <3> QED BY <3>2, <3>3
  <2>6. Partner(u, d) = t
    <3>1. u # t /\ u - D = t
      <4> HIDE DEF D
      <4> QED BY <1>1
    <3> HIDE DEF u
    <3> QED BY <2>5, <3>1 DEF Partner
  <2>7. u \div E = t \div E
    <3>1. u \div E = (q + 1) \div 2 /\ t \div E = q \div 2
      <4> HIDE DEF u, E, D
      <4> QED BY <1>4, <2>2, <2>3 DEF q
    <3> QED BY <2>4, <3>1
  <2> HIDE DEF u, D, E
  <2>8. Partner(t, d) = u /\ {t, u} = {t, t + D}
    BY <2>1 DEF u
  <2> QED BY <2>1, <2>2, <2>5, <2>6, <2>7, <2>8 DEF D, E
<1>6. CASE q % 2 # 0
  <2>1. Lower(t, d) = t - D
    BY <1>6 DEF Lower
  <2> DEFINE u == t - D
  <2>2. q - 1 \in Nat /\ (q - 1) % 2 = 0 /\ (q - 1) \div 2 = q \div 2
    <3> HIDE DEF q
    <3> QED BY <1>2, <1>6
  <2>3. u \in Nat /\ u = (q - 1) * D + r
    <3> HIDE DEF D, q, r
    <3>1. (q - 1) * D \in Nat /\ q * D = (q - 1) * D + D
      BY <1>1, <1>2, <2>2
    <3> QED BY <1>1, <1>2, <3>1
  <2>4. u \div D = q - 1
    <3> HIDE DEF u, D, q, r
    <3> QED BY <1>2, <1>3, <2>2, <2>3
  <2>5. u # t /\ u + D = t
    <3> HIDE DEF D
    <3> QED BY <1>1
  <2>6. Partner(t, d) = u
    <3> HIDE DEF u, D
    <3>1. Lower(t, d) = u
      BY <2>1 DEF u
    <3>2. Partner(t, d) = t - D
      BY <2>5, <3>1 DEF Partner, D
    <3> QED BY <3>2 DEF u
  <2>7. Lower(u, d) = u
    <3>1. (u \div D) % 2 = 0
      BY <2>2, <2>4
    <3> QED BY <3>1 DEF Lower
  <2>8. Partner(u, d) = t
    <3>1. Partner(u, d) = u + D
      <4> HIDE DEF u
      <4> QED BY <2>7 DEF Partner
    <3> QED BY <2>5, <3>1
  <2>9. u \div E = t \div E
    <3>1. u \div E = (q - 1) \div 2 /\ t \div E = q \div 2
      <4> HIDE DEF u, E, D
      <4> QED BY <1>4, <2>3, <2>4 DEF q
    <3> QED BY <2>2, <3>1
  <2> HIDE DEF u, D, E
  <2>10. Lower(t, d) = u
    BY <2>1 DEF u
  <2>11. {t, u} = {u, u + D}
    BY <2>5
  <2> QED BY <2>3, <2>6, <2>7, <2>8, <2>9, <2>10, <2>11 DEF D, E
<1> QED BY <1>5, <1>6

\* Both of a pair are in one block of more than twice their distance.
LEMMA PairInBlock ==
  ASSUME NEW d \in Nat, NEW e \in Nat, d < e, NEW t \in Nat
  PROVE  Partner(t, d) \div 2 ^ e = t \div 2 ^ e
<1> DEFINE D == 2 ^ (d + 1)
           F == 2 ^ (e - (d + 1))
           u == Partner(t, d)
<1>1. d + 1 \in Nat /\ e - (d + 1) \in Nat /\ (d + 1) + (e - (d + 1)) = e
  OBVIOUS
<1>2. D \in Nat \ {0} /\ F \in Nat \ {0} /\ 2 ^ e = D * F
  BY <1>1, PowerOfTwo, PowerOfSum
<1>3. u \in Nat /\ u \div D = t \div D
  BY Pairs
<1> HIDE DEF D, F, u
<1>4. u \div (D * F) = (u \div D) \div F /\ t \div (D * F) = (t \div D) \div F
  BY <1>2, <1>3, DivDiv
<1> QED BY <1>2, <1>3, <1>4 DEF u

-----------------------------------------------------------------------------
(* Digits and places *)

LEMMA DigitType ==
  ASSUME NEW d \in DTypes, NEW w \in 0 .. Words(d) - 1, NEW p \in Nat
  PROVE  LET low(q) == RadixKey(d, w) % 2 ^ (RADIX_BITS * q)
         IN  /\ Digit(d, w, p) \in 0 .. NUM_BUCKETS - 1
             /\ 2 ^ (RADIX_BITS * p) \in Nat \ {0}
             /\ low(p) \in 0 .. 2 ^ (RADIX_BITS * p) - 1
             /\ low(p + 1) = Digit(d, w, p) * 2 ^ (RADIX_BITS * p) + low(p)
             /\ low(0) = 0
<1> DEFINE k == RadixKey(d, w)
           P == 2 ^ (RADIX_BITS * p)
           N == NUM_BUCKETS
<1>1. k \in Nat
  BY RadixKeyType
<1>2. /\ RADIX_BITS \in Nat /\ RADIX_BITS * p \in Nat
      /\ RADIX_BITS * (p + 1) = RADIX_BITS * p + RADIX_BITS /\ RADIX_BITS * 0 = 0
  BY RadixAssumption
<1>3. P \in Nat \ {0} /\ N \in Nat \ {0}
  BY <1>2, PowerOfTwo DEF NUM_BUCKETS
<1>4. 2 ^ (RADIX_BITS * (p + 1)) = P * N
  BY <1>2, PowerOfSum DEF NUM_BUCKETS
<1>5. Digit(d, w, p) = (k \div P) % N
  BY DEF Digit
<1>6. k % 2 ^ (RADIX_BITS * 0) = 0
  <2>1. 2 ^ (RADIX_BITS * 0) = 1
    BY <1>2, ZerothPower
  <2> HIDE DEF k
  <2> QED BY <1>1, <2>1
<1> HIDE DEF k, P, N
<1>7. k \div P \in Nat /\ k % P \in 0 .. P - 1
  BY <1>1, <1>3, DivMod
<1>8. (k \div P) % N \in 0 .. N - 1
  BY <1>3, <1>7, DivMod
<1>9. k % (P * N) = ((k \div P) % N) * P + (k % P)
  BY <1>1, <1>3, ModOfProduct
<1> QED BY <1>3, <1>4, <1>5, <1>6, <1>7, <1>8, <1>9 DEF k, P, N

\* The places are the cells, in the order of the digits.
LEMMA PlacesAreCells ==
  ASSUME NEW n \in Nat, NEW d \in DTypes, NEW ks \in [0 .. n - 1 -> 0 .. Words(d) - 1],
         NEW p \in Nat
  PROVE  /\ \A c \in 0 .. n - 1 : Place(n, d, ks, p, c) \in 0 .. n - 1
         /\ \A b, c \in 0 .. n - 1 :
              Place(n, d, ks, p, b) < Place(n, d, ks, p, c)
                <=> \/ Digit(d, ks[b], p) < Digit(d, ks[c], p)
                    \/ (Digit(d, ks[b], p) = Digit(d, ks[c], p) /\ b < c)
         /\ \A b, c \in 0 .. n - 1 :
              Place(n, d, ks, p, b) = Place(n, d, ks, p, c) => b = c
<1> DEFINE D == [b \in 0 .. n - 1 |-> Digit(d, ks[b], p)]
           r == [c \in 0 .. n - 1 |-> Place(n, d, ks, p, c)]
<1>1. D \in [0 .. n - 1 -> Int]
  <2> SUFFICES ASSUME NEW b \in 0 .. n - 1 PROVE Digit(d, ks[b], p) \in Int
    OBVIOUS
  <2>1. Digit(d, ks[b], p) \in 0 .. NUM_BUCKETS - 1
    BY DigitType
  <2>2. NUM_BUCKETS \in Nat
    BY RadixAssumption, PowerOfTwo DEF NUM_BUCKETS
  <2> QED BY <2>1, <2>2
<1>2. \A c \in 0 .. n - 1 : r[c] = RankOf(D, n, c)
  BY DEF Place
<1>3. \A c \in 0 .. n - 1 : r[c] = Place(n, d, ks, p, c) /\ D[c] = Digit(d, ks[c], p)
  OBVIOUS
<1> HIDE DEF D, r
<1>5. \A c \in 0 .. n - 1 : r[c] \in 0 .. n - 1
  BY <1>1, <1>2, Ranks
<1>6. \A b, c \in 0 .. n - 1 :
        r[b] < r[c] <=> D[b] < D[c] \/ (D[b] = D[c] /\ b < c)
  BY <1>1, <1>2, Ranks
<1>7. \A b, c \in 0 .. n - 1 : r[b] = r[c] => b = c
  <2> SUFFICES ASSUME NEW b \in 0 .. n - 1, NEW c \in 0 .. n - 1, r[b] = r[c]
               PROVE  b = c
    OBVIOUS
  <2>1. r[b] \in Int /\ r[c] \in Int
    BY <1>5
  <2>2. ~(r[b] < r[c]) /\ ~(r[c] < r[b])
    BY <2>1
  <2>3. ~(D[b] < D[c]) /\ ~(D[c] < D[b]) /\ D[b] \in Int /\ D[c] \in Int
    BY <1>1, <1>6, <2>2
  <2>4. D[b] = D[c]
    BY <2>3
  <2>5. ~(b < c) /\ ~(c < b)
    BY <1>6, <2>2, <2>4
  <2> QED BY <2>5
<1>9. \A c \in 0 .. n - 1 : Place(n, d, ks, p, c) \in 0 .. n - 1
  BY <1>3, <1>5
<1>10. \A b, c \in 0 .. n - 1 :
         Place(n, d, ks, p, b) < Place(n, d, ks, p, c)
           <=> \/ Digit(d, ks[b], p) < Digit(d, ks[c], p)
               \/ (Digit(d, ks[b], p) = Digit(d, ks[c], p) /\ b < c)
  BY <1>3, <1>6
<1>11. \A b, c \in 0 .. n - 1 :
         Place(n, d, ks, p, b) = Place(n, d, ks, p, c) => b = c
  BY <1>3, <1>7
<1> QED BY <1>9, <1>10, <1>11

LEMMA EveryCellIsAPlace ==
  ASSUME NEW n \in Nat, NEW d \in DTypes, NEW ks \in [0 .. n - 1 -> 0 .. Words(d) - 1],
         NEW p \in Nat, NEW c \in 0 .. n - 1
  PROVE  \E b \in 0 .. n - 1 : Place(n, d, ks, p, b) = c
<1> DEFINE r == [b \in 0 .. n - 1 |-> Place(n, d, ks, p, b)]
<1>1. \A b \in 0 .. n - 1 : r[b] = Place(n, d, ks, p, b)
  OBVIOUS
<1>2. r \in [0 .. n - 1 -> 0 .. n - 1]
  BY PlacesAreCells
<1>3. \A a, b \in 0 .. n - 1 : r[a] = r[b] => a = b
  BY PlacesAreCells
<1> HIDE DEF r
<1>4. \A x \in 0 .. n - 1 : \E b \in 0 .. n - 1 : r[b] = x
  BY <1>2, <1>3, OneToOneIsOnto
<1> QED BY <1>1, <1>4

\* Once every cell is in its place, the pass is done: nothing is lost, and one
\* more digit is sorted.
LEMMA PassSorts ==
  ASSUME NEW n \in Nat, NEW d \in DTypes, NEW p \in Nat, NEW padded,
         NEW ks \in [0 .. n - 1 -> 0 .. Words(d) - 1], NEW is \in [0 .. n - 1 -> 0 .. n - 1],
         NEW kt \in [0 .. n - 1 -> 0 .. Words(d) - 1], NEW it,
         Whole(n, padded, ks, is), Ordered(n, d, ks, is, p),
         \A c \in 0 .. n - 1 : /\ kt[Place(n, d, ks, p, c)] = ks[c]
                               /\ it[Place(n, d, ks, p, c)] = is[c]
  PROVE  Whole(n, padded, kt, it) /\ Ordered(n, d, kt, it, p + 1)
<1> DEFINE C == 0 .. n - 1
           to(c) == Place(n, d, ks, p, c)
<1>1. /\ \A c \in C : to(c) \in C
      /\ \A c \in C : \E b \in C : to(b) = c
  <2>1. \A c \in C : to(c) \in C
    BY PlacesAreCells
  <2>2. \A c \in 0 .. n - 1 : \E b \in 0 .. n - 1 : Place(n, d, ks, p, b) = c
    BY EveryCellIsAPlace
  <2> QED BY <2>1, <2>2
<1>2. \A b, c \in C :
        to(b) < to(c) => \/ Digit(d, ks[b], p) < Digit(d, ks[c], p)
                         \/ (Digit(d, ks[b], p) = Digit(d, ks[c], p) /\ b < c)
  BY PlacesAreCells
<1>3. \A c \in C : kt[to(c)] = ks[c] /\ it[to(c)] = is[c]
  OBVIOUS
<1> HIDE DEF to
<1>4. Whole(n, padded, kt, it)
  <2> SUFFICES ASSUME NEW c \in C
               PROVE  (\E b \in C : it[b] = c) /\ kt[c] = padded[it[c]]
    BY DEF Whole
  <2>1. PICK b \in C : is[b] = c
    BY DEF Whole
  <2>2. to(b) \in C /\ it[to(b)] = c
    BY <1>1, <1>3, <2>1
  <2>3. PICK a \in C : to(a) = c
    BY <1>1
  <2>4. kt[c] = padded[it[c]]
    <3>1. ks[a] = padded[is[a]]
      BY DEF Whole
    <3> QED BY <1>3, <2>3, <3>1
  <2> QED BY <2>2, <2>4
<1>5. ASSUME NEW b \in C, NEW c \in C, b < c
      PROVE  LET low(w) == RadixKey(d, w) % 2 ^ (RADIX_BITS * (p + 1))
             IN  low(kt[b]) < low(kt[c]) \/ (low(kt[b]) = low(kt[c]) /\ it[b] < it[c])
  <2> DEFINE low(w) == RadixKey(d, w) % 2 ^ (RADIX_BITS * (p + 1))
             old(w) == RadixKey(d, w) % 2 ^ (RADIX_BITS * p)
             P == 2 ^ (RADIX_BITS * p)
             dig(w) == Digit(d, w, p)
  <2>1. PICK x \in C : to(x) = b
    BY <1>1
  <2>2. PICK y \in C : to(y) = c
    BY <1>1
  <2>3. /\ kt[b] = ks[x] /\ it[b] = is[x] /\ kt[c] = ks[y] /\ it[c] = is[y]
    BY <1>3, <2>1, <2>2
  <2> DEFINE v == ks[x]
             w == ks[y]
  <2>4. v \in 0 .. Words(d) - 1 /\ w \in 0 .. Words(d) - 1
    OBVIOUS
  <2>5. dig(v) < dig(w) \/ (dig(v) = dig(w) /\ x < y)
    BY <1>2, <1>5, <2>1, <2>2
  <2>6. x < y => old(v) < old(w) \/ (old(v) = old(w) /\ is[x] < is[y])
    BY DEF Ordered
  <2> HIDE DEF v, w
  <2>7. /\ P \in Nat \ {0} /\ NUM_BUCKETS \in Nat
        /\ dig(v) \in 0 .. NUM_BUCKETS - 1 /\ dig(w) \in 0 .. NUM_BUCKETS - 1
        /\ old(v) \in 0 .. P - 1 /\ old(w) \in 0 .. P - 1
        /\ low(v) = dig(v) * P + old(v) /\ low(w) = dig(w) * P + old(w)
    <3>1. NUM_BUCKETS \in Nat
      BY RadixAssumption, PowerOfTwo DEF NUM_BUCKETS
    <3> QED BY <2>4, <3>1, DigitType
  <2> HIDE DEF P, dig, old, low
  <2>8. dig(v) \in Nat /\ dig(w) \in Nat /\ old(v) \in Nat /\ old(w) \in Nat
    BY <2>7
  <2>9. CASE dig(v) < dig(w)
    <3> DEFINE a == dig(v)
               b1 == dig(w)
               r == old(v)
               s == old(w)
    <3>1. a \in Nat /\ b1 \in Nat /\ a < b1 /\ r \in 0 .. P - 1 /\ s \in Nat
      BY <2>7, <2>8, <2>9
    <3>2. low(v) = a * P + r /\ low(w) = b1 * P + s
      BY <2>7
    <3> HIDE DEF a, b1, r, s
    <3>4. a * P + r < b1 * P + s
      BY <2>7, <3>1, DigitDecides
    <3>3. low(v) < low(w)
      BY <3>2, <3>4
    <3> QED BY <2>3, <3>3 DEF low, v, w
  <2>10. CASE dig(v) = dig(w) /\ x < y
    <3>1. low(v) < low(w) \/ (low(v) = low(w) /\ is[x] < is[y])
      <4> DEFINE e == dig(v) * P
      <4>1. e \in Nat /\ low(v) = e + old(v) /\ low(w) = e + old(w)
        BY <2>7, <2>8, <2>10
      <4> HIDE DEF e
      <4> QED BY <2>6, <2>8, <2>10, <4>1
    <3> QED BY <2>3, <3>1 DEF low, v, w
  <2> QED BY <2>5, <2>9, <2>10
<1> QED BY <1>4, <1>5 DEF Ordered

-----------------------------------------------------------------------------
(* The steps *)

LEMMA SameColumn ==
  ASSUME request' = request
  PROVE  /\ dtype' = dtype /\ Stages' = Stages
         /\ Length' = Length /\ RowThreads' = RowThreads
         /\ Size' = Size /\ Cells' = Cells /\ Padded' = Padded
         /\ NumStages' = NumStages
         /\ BlockSize' = BlockSize /\ Blocks' = Blocks /\ Threads' = Threads
<1>1. dtype' = dtype /\ Stages' = Stages /\ Length' = Length /\ RowThreads' = RowThreads
  BY DEF dtype, Stages, Length, RowThreads
<1>2. Size' = Size
  BY <1>1 DEF Size
<1>3. Cells' = Cells /\ NumStages' = NumStages /\ BlockSize' = BlockSize
  BY <1>2 DEF Cells, NumStages, BlockSize
<1>4. Padded' = Padded
  BY <1>1, <1>3 DEF Padded, SentinelWord
<1>5. Blocks' = Blocks /\ Threads' = Threads
  BY <1>2, <1>3 DEF Blocks, Threads
<1> QED BY <1>1, <1>2, <1>3, <1>4, <1>5

\* The steps of a block kernel.
NetworkSize ==
  IF pc = "local" THEN (Stages * (Stages + 1)) \div 2 ELSE Stages

LEMMA StoredSize ==
  request \in Requests => NetworkSize \in Nat /\ Stored = NetworkSize + 2
<1> SUFFICES ASSUME request \in Requests
             PROVE  NetworkSize \in Nat /\ Stored = NetworkSize + 2
  OBVIOUS
<1> DEFINE n == NetworkSize
<1>1. n \in Nat
  <2>1. Stages \in Nat
    BY RequestType
  <2>2. Stages * (Stages + 1) \in Nat
    BY <2>1
  <2> DEFINE s == Stages * (Stages + 1)
  <2> HIDE DEF s
  <2>3. s \div 2 \in Nat
    BY <2>2 DEF s
  <2> QED BY <2>1, <2>3 DEF NetworkSize, s
<1>2. DOMAIN BlockNetwork = 0 .. n - 1
  BY DEF BlockNetwork, NetworkSize, Stages
<1> HIDE DEF n
<1>3. Cardinality(0 .. n - 1) = IF 0 > n - 1 THEN 0 ELSE (n - 1) - 0 + 1
  BY <1>1, FS_Interval
<1> QED BY <1>1, <1>2, <1>3 DEF Stored, n

\* The kernels of a sort leave the group-by alone.
LEMMA GroupUntouched ==
  ASSUME Numbered, request' = request, UNCHANGED groupVars, pc' \notin {"lead", "read"}
  PROVE  Numbered'
<1>1. /\ Length' = Length /\ RowThreads' = RowThreads
      /\ counter' = counter /\ active' = active
  BY SameColumn DEF groupVars
<1> QED BY <1>1 DEF Numbered

LEMMA StartRadixKeeps ==
  ASSUME IInv, StartRadix, UNCHANGED groupVars
  PROVE  IInv'
<1> USE DEF IInv
<1>1. /\ pc = "call" /\ pc' = "count" /\ SetUp
      /\ UNCHANGED <<request, answer, from, pass, offsets, todo>>
      /\ UNCHANGED <<stage, step, at, lk, li>>
  BY DEF StartRadix, radixVars, bitonicVars
<1>2. /\ dtype' = dtype /\ Size' = Size /\ Cells' = Cells /\ Padded' = Padded
      /\ NumStages' = NumStages
  BY <1>1, SameColumn
<1>3. request \in Requests /\ from = 0 /\ pass = 0 /\ dtype \in DTypes
      /\ Size \in Nat /\ Cells = 0 .. Size - 1 /\ radix_passes(dtype) \in {1, 2}
  BY <1>1, RequestType, CellType DEF HostTyped, Phases, Cells
<1>4. HostTyped'
  BY <1>1, <1>2 DEF HostTyped, States
<1>5. Phases'
  BY <1>1, <1>2, <1>3 DEF Phases
<1>6. /\ keys' = [b \in {0, 1} |-> IF b = 0 THEN Padded ELSE [c \in Cells |-> 0]]
      /\ indices' = [b \in {0, 1} |-> [c \in Cells |-> IF b = 0 THEN c ELSE 0]]
  BY <1>1 DEF SetUp
<1>7. Padded \in [Cells -> 0 .. Words(dtype) - 1] /\ 0 \in 0 .. Words(dtype) - 1
  BY <1>3, PaddedType, WordType
<1>8. /\ keys' \in [{0, 1} -> [Cells -> 0 .. Words(dtype) - 1]]
      /\ indices' \in [{0, 1} -> [Cells -> Cells]]
  <2> DEFINE W == 0 .. Words(dtype) - 1
  <2>1. Padded \in [Cells -> W] /\ 0 \in W
    BY <1>7
  <2> HIDE DEF W
  <2>2. keys' \in [{0, 1} -> [Cells -> W]]
    BY <1>6, <2>1
  <2>3. \A c \in Cells : 0 \in Cells
    BY <1>3
  <2>4. indices' \in [{0, 1} -> [Cells -> Cells]]
    BY <1>6, <2>3
  <2> QED BY <2>2, <2>4 DEF W
<1>9. keys'[0] = Padded /\ indices'[0] = [c \in Cells |-> c]
  BY <1>6
<1>10. Whole(Size, Padded, keys'[0], indices'[0])
  BY <1>3, <1>9 DEF Whole
<1>11. Buffers'
  BY <1>1, <1>2, <1>3, <1>8, <1>10 DEF Buffers
<1>12. BlocksTyped' /\ BlocksWhole' /\ Scattered'
  BY <1>1 DEF BlocksTyped, BlocksWhole, InKernel, Scattered
<1>13. Ordered(Size, dtype, keys'[0], indices'[0], 0)
  <2> DEFINE ks == keys'[0]
             is == indices'[0]
             low(w) == RadixKey(dtype, w) % 2 ^ (RADIX_BITS * 0)
  <2>1. \A c \in 0 .. Size - 1 : low(ks[c]) = 0
    <3>1. \A c \in 0 .. Size - 1 : ks[c] \in 0 .. Words(dtype) - 1
      BY <1>3, <1>8
    <3>2. \A w \in 0 .. Words(dtype) - 1 : low(w) = 0
      BY <1>3, DigitType
    <3> QED BY <3>1, <3>2
  <2>2. \A c \in 0 .. Size - 1 : is[c] = c
    BY <1>3, <1>9
  <2> HIDE DEF ks, is
  <2>3. \A b, c \in 0 .. Size - 1 :
          b < c => low(ks[b]) = low(ks[c]) /\ is[b] < is[c]
    BY <2>1, <2>2
  <2> QED BY <2>3 DEF Ordered, ks, is
<1>14. InOrder'
  BY <1>1, <1>2, <1>3, <1>13 DEF InOrder
<1>15. Numbered'
  BY <1>1, GroupUntouched
<1> QED BY <1>4, <1>5, <1>11, <1>12, <1>14, <1>15

\* What the buffers are, once there are any.
LEMMA BufferType ==
  ASSUME IInv, pc # "call"
  PROVE  /\ request \in Requests /\ dtype \in DTypes
         /\ Size \in Nat \ {0} /\ Cells = 0 .. Size - 1
         /\ from \in {0, 1} /\ 1 - from \in {0, 1} /\ 1 - from # from
         /\ DOMAIN keys = {0, 1} /\ DOMAIN indices = {0, 1}
         /\ \A b \in {0, 1} : /\ keys[b] \in [Cells -> 0 .. Words(dtype) - 1]
                              /\ indices[b] \in [Cells -> Cells]
         /\ Whole(Size, Padded, keys[from], indices[from])
<1>1. request \in Requests /\ from \in {0, 1}
  BY DEF IInv, HostTyped
<1>2. 1 - from \in {0, 1} /\ 1 - from # from
  BY <1>1
<1>3. dtype \in DTypes /\ Size \in Nat \ {0} /\ Cells = 0 .. Size - 1
  BY <1>1, RequestType, CellType DEF Cells
<1> DEFINE W == 0 .. Words(dtype) - 1
<1>4. /\ keys \in [{0, 1} -> [Cells -> W]]
      /\ indices \in [{0, 1} -> [Cells -> Cells]]
      /\ Whole(Size, Padded, keys[from], indices[from])
  BY DEF IInv, Buffers
<1> HIDE DEF W
<1>5. /\ DOMAIN keys = {0, 1} /\ DOMAIN indices = {0, 1}
      /\ \A b \in {0, 1} : keys[b] \in [Cells -> W] /\ indices[b] \in [Cells -> Cells]
  BY <1>4
<1> QED BY <1>1, <1>2, <1>3, <1>4, <1>5 DEF W

\* The tables hold the place of every cell.
LEMMA BuildHistogramKeeps ==
  ASSUME IInv, BuildHistogram, UNCHANGED groupVars
  PROVE  IInv'
<1>1. /\ pc = "count" /\ pc' = "scatter" /\ todo' = Cells
      /\ UNCHANGED <<request, answer, keys, indices, from, pass>>
      /\ UNCHANGED <<stage, step, at, lk, li>>
      /\ offsets' = [inBucket |-> [c \in Cells |-> LocalOffset(c)],
                     bucket |-> [d \in 0 .. NUM_BUCKETS - 1 |-> BucketOffset(d)]]
  BY DEF BuildHistogram, bitonicVars
<1>2. /\ dtype' = dtype /\ Size' = Size /\ Cells' = Cells /\ Padded' = Padded
      /\ NumStages' = NumStages
  BY <1>1, SameColumn
<1>3. HostTyped' /\ Phases'
  BY <1>1, <1>2 DEF IInv, HostTyped, Phases, States
<1>4. Buffers'
  BY <1>1, <1>2 DEF IInv, Buffers
<1>5. BlocksTyped' /\ BlocksWhole'
  BY <1>1 DEF BlocksTyped, BlocksWhole, InKernel
<1>6. InOrder'
  BY <1>1, <1>2 DEF IInv, InOrder
<1>7. ASSUME NEW c \in Cells
      PROVE  Position(c)' = Place(Size, dtype, keys[from], pass, c)
  <2> DEFINE ks == keys[from]
             D == [b \in 0 .. Size - 1 |-> Digit(dtype, ks[b], pass)]
  <2>1. /\ dtype \in DTypes /\ Cells = 0 .. Size - 1 /\ pass \in Nat
        /\ ks \in [Cells -> 0 .. Words(dtype) - 1]
    <3>1. pass \in Nat
      BY RequestType DEF IInv, HostTyped
    <3> QED BY <1>1, <3>1, BufferType
  <2>2. \A b \in Cells : DigitAt(b) = D[b]
    BY <2>1 DEF DigitAt
  <2>3. DigitAt(c) \in 0 .. NUM_BUCKETS - 1
    <3>1. ks[c] \in 0 .. Words(dtype) - 1
      BY <2>1
    <3> HIDE DEF ks
    <3>2. Digit(dtype, ks[c], pass) \in 0 .. NUM_BUCKETS - 1
      BY <2>1, <3>1, DigitType
    <3> QED BY <3>2 DEF DigitAt, ks
  <2>4. DigitAt(c)' = DigitAt(c)
    BY <1>1, <1>2 DEF DigitAt
  <2>5. Position(c)' = BucketOffset(DigitAt(c)) + LocalOffset(c)
    <3>1. offsets'.bucket[DigitAt(c)] = BucketOffset(DigitAt(c))
      BY <1>1, <2>3
    <3>2. offsets'.inBucket[c] = LocalOffset(c)
      BY <1>1
    <3> QED BY <2>4, <3>1, <3>2 DEF Position
  <2> HIDE DEF D
  <2>6. /\ BucketOffset(DigitAt(c)) = Cardinality({b \in 0 .. Size - 1 : D[b] < D[c]})
        /\ LocalOffset(c) = Cardinality({b \in 0 .. Size - 1 : b < c /\ D[b] = D[c]})
    <3>1. {b \in Cells : DigitAt(b) < DigitAt(c)} = {b \in 0 .. Size - 1 : D[b] < D[c]}
      BY <2>1, <2>2
    <3>2. {b \in Cells : b < c /\ DigitAt(b) = DigitAt(c)}
            = {b \in 0 .. Size - 1 : b < c /\ D[b] = D[c]}
      BY <2>1, <2>2
    <3> QED BY <3>1, <3>2 DEF BucketOffset, LocalOffset
  <2>7. BucketOffset(DigitAt(c)) + LocalOffset(c) = RankOf(D, Size, c)
    BY <2>6 DEF RankOf
  <2> QED BY <2>5, <2>7 DEF Place, D
<1>8. Scattered'
  BY <1>1, <1>2, <1>7 DEF Scattered
<1>9. Numbered'
  BY <1>1, GroupUntouched DEF IInv
<1> QED BY <1>3, <1>4, <1>5, <1>6, <1>8, <1>9 DEF IInv

LEMMA ScatterKeeps ==
  ASSUME IInv, NEW c \in Cells, Scatter(c), UNCHANGED groupVars
  PROVE  IInv'
<1> DEFINE o == 1 - from
           to(b) == Place(Size, dtype, keys[from], pass, b)
<1>1. /\ pc = "scatter" /\ pc' = pc /\ c \in todo /\ todo' = todo \ {c}
      /\ UNCHANGED <<request, answer, from, pass, offsets>>
      /\ UNCHANGED <<stage, step, at, lk, li>>
      /\ keys' = [keys EXCEPT ![o][Position(c)] = keys[from][c]]
      /\ indices' = [indices EXCEPT ![o][Position(c)] = indices[from][c]]
  BY DEF Scatter, bitonicVars
<1>2. /\ dtype' = dtype /\ Size' = Size /\ Cells' = Cells /\ Padded' = Padded
      /\ NumStages' = NumStages
  BY <1>1, SameColumn
<1>3. /\ dtype \in DTypes /\ Size \in Nat /\ Cells = 0 .. Size - 1
      /\ from \in {0, 1} /\ o \in {0, 1} /\ o # from
      /\ DOMAIN keys = {0, 1} /\ DOMAIN indices = {0, 1}
      /\ \A b \in {0, 1} : /\ keys[b] \in [Cells -> 0 .. Words(dtype) - 1]
                           /\ indices[b] \in [Cells -> Cells]
  BY <1>1, BufferType
<1>4. pass \in Nat
  BY RequestType DEF IInv, HostTyped
<1>5. /\ \A b \in Cells : to(b) \in Cells
      /\ \A a, b \in Cells : to(a) = to(b) => a = b
  <2> DEFINE ks == keys[from]
             W == 0 .. Words(dtype) - 1
  <2>1. ks \in [0 .. Size - 1 -> W]
    BY <1>3
  <2>2. /\ \A b \in 0 .. Size - 1 : Place(Size, dtype, ks, pass, b) \in 0 .. Size - 1
        /\ \A a, b \in 0 .. Size - 1 :
             Place(Size, dtype, ks, pass, a) = Place(Size, dtype, ks, pass, b) => a = b
    <3> HIDE DEF ks
    <3> QED BY <1>3, <1>4, <2>1, PlacesAreCells
  <2> QED BY <1>3, <2>2
<1>6. /\ \A b \in Cells : Position(b) = to(b)
      /\ \A b \in Cells \ todo : /\ keys[o][to(b)] = keys[from][b]
                                 /\ indices[o][to(b)] = indices[from][b]
  BY <1>1 DEF IInv, Scattered
<1> HIDE DEF to, o
<1>7. /\ keys'[from] = keys[from] /\ indices'[from] = indices[from]
      /\ keys'[o] = [keys[o] EXCEPT ![to(c)] = keys[from][c]]
      /\ indices'[o] = [indices[o] EXCEPT ![to(c)] = indices[from][c]]
      /\ DOMAIN keys' = {0, 1} /\ DOMAIN indices' = {0, 1}
  BY <1>1, <1>3, <1>6
<1>8. /\ keys'[o] \in [Cells -> 0 .. Words(dtype) - 1]
      /\ indices'[o] \in [Cells -> Cells]
  <2> DEFINE W == 0 .. Words(dtype) - 1
  <2>1. /\ keys[o] \in [Cells -> W] /\ keys[from] \in [Cells -> W]
        /\ indices[o] \in [Cells -> Cells] /\ indices[from] \in [Cells -> Cells]
        /\ to(c) \in Cells
    BY <1>3, <1>5
  <2> HIDE DEF W
  <2>2. keys'[o] \in [Cells -> W] /\ indices'[o] \in [Cells -> Cells]
    BY <1>7, <2>1
  <2> QED BY <2>2 DEF W
<1>9. /\ keys' \in [{0, 1} -> [Cells -> 0 .. Words(dtype) - 1]]
      /\ indices' \in [{0, 1} -> [Cells -> Cells]]
  <2> DEFINE W == 0 .. Words(dtype) - 1
  <2>1. \A b \in {0, 1} : b = o \/ b = from
    BY <1>3 DEF o
  <2>2. \A b \in {0, 1} : keys'[b] \in [Cells -> W] /\ indices'[b] \in [Cells -> Cells]
    BY <1>3, <1>7, <1>8, <2>1
  <2>3. keys' = [b \in {0, 1} |-> keys'[b]] /\ indices' = [b \in {0, 1} |-> indices'[b]]
    BY <1>1, <1>3
  <2> HIDE DEF W
  <2>4. keys' \in [{0, 1} -> [Cells -> W]] /\ indices' \in [{0, 1} -> [Cells -> Cells]]
    BY <2>2, <2>3
  <2> QED BY <2>4 DEF W
<1>10. HostTyped' /\ Phases'
  BY <1>1, <1>2 DEF IInv, HostTyped, Phases
<1>11. Buffers'
  BY <1>1, <1>2, <1>7, <1>9 DEF IInv, Buffers
<1>12. BlocksTyped' /\ BlocksWhole'
  BY <1>1 DEF BlocksTyped, BlocksWhole, InKernel
<1>13. InOrder'
  BY <1>1, <1>2, <1>7 DEF IInv, InOrder
<1>14. ASSUME NEW b \in Cells
       PROVE  Position(b)' = Place(Size', dtype', keys'[from'], pass', b)
  <2>1. DigitAt(b)' = DigitAt(b)
    BY <1>1, <1>2, <1>7 DEF DigitAt
  <2>2. Position(b)' = Position(b)
    BY <1>1, <2>1 DEF Position
  <2> QED BY <1>1, <1>2, <1>6, <1>7, <2>2 DEF to
<1>15. ASSUME NEW b \in Cells \ todo'
       PROVE  /\ keys'[o][to(b)] = keys[from][b]
              /\ indices'[o][to(b)] = indices[from][b]
  <2>1. DOMAIN keys[o] = Cells /\ DOMAIN indices[o] = Cells
        /\ to(b) \in Cells /\ to(c) \in Cells
    BY <1>3, <1>5
  <2>2. CASE b = c
    BY <1>7, <2>1, <2>2
  <2>3. CASE b # c
    <3>1. to(b) # to(c) /\ b \in Cells \ todo
      BY <1>1, <1>5, <2>3
    <3> QED BY <1>6, <1>7, <2>1, <3>1
  <2> QED BY <2>2, <2>3
<1>16. Scattered'
  <2>1. /\ from' = from /\ pass' = pass /\ keys'[from'] = keys[from]
        /\ indices'[from'] = indices[from]
    BY <1>1, <1>7
  <2>2. \A b \in Cells \ todo' :
          LET p == Place(Size', dtype', keys'[from'], pass', b)
          IN  /\ keys'[1 - from'][p] = keys'[from'][b]
              /\ indices'[1 - from'][p] = indices'[from'][b]
    BY <1>2, <1>15, <2>1 DEF to, o
  <2> QED BY <1>2, <1>14, <2>2 DEF Scattered
<1>17. Numbered'
  BY <1>1, GroupUntouched DEF IInv
<1> QED BY <1>10, <1>11, <1>12, <1>13, <1>16, <1>17 DEF IInv

LEMMA EndPassKeeps ==
  ASSUME IInv, EndPass, UNCHANGED groupVars
  PROVE  IInv'
<1> DEFINE o == 1 - from
           W == 0 .. Words(dtype) - 1
           ks == keys[from]
           is == indices[from]
           kt == keys[o]
           it == indices[o]
<1>1. /\ pc = "scatter" /\ todo = {} /\ from' = o /\ pass' = pass + 1
      /\ pc' = IF MorePasses THEN "count" ELSE "wait"
      /\ UNCHANGED <<request, answer, keys, indices, offsets, todo>>
      /\ UNCHANGED <<stage, step, at, lk, li>>
  BY DEF EndPass, bitonicVars, Swapped
<1>2. /\ dtype' = dtype /\ Size' = Size /\ Cells' = Cells /\ Padded' = Padded
      /\ NumStages' = NumStages
  BY <1>1, SameColumn
<1>3. /\ dtype \in DTypes /\ Size \in Nat /\ Cells = 0 .. Size - 1
      /\ from \in {0, 1} /\ o \in {0, 1}
      /\ ks \in [0 .. Size - 1 -> W] /\ is \in [0 .. Size - 1 -> 0 .. Size - 1]
      /\ kt \in [0 .. Size - 1 -> W] /\ it \in [0 .. Size - 1 -> 0 .. Size - 1]
      /\ Whole(Size, Padded, ks, is)
  BY <1>1, BufferType
<1>4. pass \in Nat /\ pass < radix_passes(dtype) /\ radix_passes(dtype) \in {1, 2}
  BY <1>1, RequestType DEF IInv, HostTyped, Phases
<1>5. Ordered(Size, dtype, ks, is, pass)
  BY <1>1 DEF IInv, InOrder
<1>6. \A c \in 0 .. Size - 1 : /\ kt[Place(Size, dtype, ks, pass, c)] = ks[c]
                               /\ it[Place(Size, dtype, ks, pass, c)] = is[c]
  BY <1>1, <1>3 DEF IInv, Scattered
<1>7. Whole(Size, Padded, kt, it) /\ Ordered(Size, dtype, kt, it, pass + 1)
  <2> HIDE DEF ks, is, kt, it, o
  <2>1. ks \in [0 .. Size - 1 -> 0 .. Words(dtype) - 1] /\ kt \in [0 .. Size - 1 -> 0 .. Words(dtype) - 1]
    BY <1>3
  <2> HIDE DEF W
  <2> QED BY <1>3, <1>4, <1>5, <1>6, <2>1, PassSorts
<1>8. HostTyped'
  <2>1. pass' \in 0 .. radix_passes(dtype)
    BY <1>1, <1>4
  <2>2. pc' \in {"count", "wait"}
    BY <1>1
  <2> QED BY <1>1, <1>2, <1>3, <2>1, <2>2 DEF IInv, HostTyped, States
<1>9. Phases'
  <2>1. pc' = "count" => pass' < radix_passes(dtype)
    BY <1>1 DEF MorePasses
  <2>2. pc' \in {"count", "wait"}
    BY <1>1
  <2> QED BY <1>1, <1>2, <2>1, <2>2 DEF Phases
<1>10. Buffers'
  <2>1. keys'[from'] = kt /\ indices'[from'] = it
    BY <1>1
  <2> HIDE DEF kt, it, ks, is
  <2> QED BY <1>1, <1>2, <1>7, <2>1 DEF IInv, Buffers
<1>11. BlocksTyped' /\ BlocksWhole' /\ Scattered'
  BY <1>1 DEF BlocksTyped, BlocksWhole, InKernel, Scattered
<1>12. InOrder'
  <2>1. keys'[from'] = kt /\ indices'[from'] = it
    BY <1>1
  <2> HIDE DEF kt, it, ks, is
  <2> QED BY <1>1, <1>2, <1>7, <2>1 DEF InOrder
<1>13. Numbered'
  BY <1>1, GroupUntouched DEF IInv
<1> QED BY <1>8, <1>9, <1>10, <1>11, <1>12, <1>13 DEF IInv

\* An answer, or an error: nothing of the buffers changes.
LEMMA AnswersKeep ==
  ASSUME IInv, UNCHANGED groupVars,
         Return \/ FallBack \/ DeviceError \/ StartGather \/ FallBackGroups \/ GroupError
  PROVE  IInv'
<1>1. /\ pc' \in {"done", "failed", "gather"}
      /\ UNCHANGED <<request, keys, indices, from, pass, offsets, todo>>
      /\ UNCHANGED <<stage, step, at, lk, li>>
      /\ Len(answer') <= 1
      /\ pc # "call"
      /\ pc' = "gather" => pc = "wait"
  <2>1. Len(answer) <= 1
    BY DEF IInv, HostTyped
  <2>2. \A x : Len(<<x>>) <= 1
    OBVIOUS
  <2>3. CASE Return
    BY <2>2, <2>3 DEF Return, radixVars, bitonicVars
  <2>4. CASE FallBack
    BY <2>2, <2>4 DEF FallBack, radixVars, bitonicVars
  <2>5. CASE DeviceError
    BY <2>1, <2>5 DEF DeviceError, radixVars, bitonicVars
  <2>6. CASE StartGather
    BY <2>1, <2>6 DEF StartGather, radixVars, bitonicVars
  <2>7. CASE FallBackGroups
    BY <2>2, <2>7 DEF FallBackGroups, radixVars, bitonicVars
  <2>8. CASE GroupError
    BY <2>1, <2>8 DEF GroupError, KernelEnds, radixVars, bitonicVars
  <2> QED BY <2>3, <2>4, <2>5, <2>6, <2>7, <2>8
<1>2. /\ dtype' = dtype /\ Size' = Size /\ Cells' = Cells /\ Padded' = Padded
      /\ NumStages' = NumStages
  BY <1>1, SameColumn
<1>3. HostTyped' /\ Phases'
  BY <1>1, <1>2 DEF IInv, HostTyped, Phases, States
<1>4. Buffers'
  BY <1>1, <1>2 DEF IInv, Buffers
<1>5. BlocksTyped' /\ BlocksWhole' /\ Scattered'
  BY <1>1 DEF BlocksTyped, BlocksWhole, InKernel, Scattered
<1>6. InOrder'
  BY <1>1, <1>2 DEF IInv, InOrder
<1>7. Numbered'
  BY <1>1, GroupUntouched DEF IInv
<1> QED BY <1>3, <1>4, <1>5, <1>6, <1>7 DEF IInv

\* The kernels of a group-by read the sorted buffers and leave them alone.
LEMMA SortUntouched ==
  ASSUME IInv, pc \in {"gather", "lead"}, pc' \in {"lead", "read"},
         UNCHANGED <<request, keys, indices, radixVars, bitonicVars>>, Len(answer') <= 1
  PROVE  /\ HostTyped' /\ Phases' /\ Buffers' /\ BlocksTyped' /\ BlocksWhole'
         /\ Scattered' /\ InOrder'
<1>1. /\ UNCHANGED <<request, keys, indices, from, pass, offsets, todo>>
      /\ UNCHANGED <<stage, step, at, lk, li>>
  BY DEF radixVars, bitonicVars
<1>2. /\ dtype' = dtype /\ Size' = Size /\ Cells' = Cells /\ Padded' = Padded
      /\ NumStages' = NumStages
  BY <1>1, SameColumn
<1>3. HostTyped' /\ Phases'
  BY <1>1, <1>2 DEF IInv, HostTyped, Phases, States
<1>4. Buffers'
  BY <1>1, <1>2 DEF IInv, Buffers
<1>5. BlocksTyped' /\ BlocksWhole' /\ Scattered'
  BY <1>1 DEF BlocksTyped, BlocksWhole, InKernel, Scattered
<1>6. InOrder'
  BY <1>1, <1>2 DEF IInv, InOrder
<1> QED BY <1>3, <1>4, <1>5, <1>6

\* There are as many threads as rows.
LEMMA RowThreadCount ==
  ASSUME IInv
  PROVE  /\ Length \in Nat /\ RowThreads = 0 .. Length - 1
         /\ IsFiniteSet(RowThreads) /\ Cardinality(RowThreads) = Length
<1>1. Length \in Nat /\ RowThreads = 0 .. Length - 1
  BY RequestType DEF IInv, HostTyped, RowThreads
<1>2. /\ IsFiniteSet(0 .. Length - 1)
      /\ Cardinality(0 .. Length - 1) = IF 0 > Length - 1 THEN 0 ELSE (Length - 1) - 0 + 1
  BY <1>1, FS_Interval
<1> QED BY <1>1, <1>2

LEMMA GatherValuesKeeps ==
  ASSUME IInv, GatherValues
  PROVE  IInv'
<1>1. /\ pc = "gather" /\ pc' = "lead" /\ UNCHANGED <<request, answer>>
      /\ UNCHANGED <<keys, indices, radixVars, bitonicVars>>
      /\ values' = [c \in Cells |-> GatheredValue(c)]
      /\ entries' = [g \in RowThreads |-> Junk] /\ number' = [t \in RowThreads |-> Junk]
      /\ active' = RowThreads /\ counter' = 0
  BY DEF GatherValues
<1>2. Length' = Length /\ RowThreads' = RowThreads /\ Cells' = Cells
  BY <1>1, SameColumn
<1>3. /\ HostTyped' /\ Phases' /\ Buffers' /\ BlocksTyped' /\ BlocksWhole'
      /\ Scattered' /\ InOrder'
  <2>1. Len(answer') <= 1
    BY <1>1 DEF IInv, HostTyped
  <2> QED BY <1>1, <2>1, SortUntouched
<1>4. Drawn' = {}
  BY <1>1, <1>2 DEF Drawn
<1>5. counter' = Cardinality(Drawn') /\ counter' \in 0 .. Length'
  <2>1. Cardinality({}) = 0
    BY FS_EmptySet
  <2> QED BY <1>1, <1>2, <1>4, <2>1, RowThreadCount
<1>6. Numbered'
  BY <1>1, <1>2, <1>5 DEF Numbered
<1> QED BY <1>3, <1>6 DEF IInv

LEMMA ReturnAtOnceKeeps ==
  ASSUME IInv, NEW t \in RowThreads, ReturnAtOnce(t) \/ WriteEntry(t)
  PROVE  IInv'
<1>1. /\ pc = "lead" /\ UNCHANGED <<sortVars, values, counter, number>>
      /\ active' = active \ {t} /\ DOMAIN entries' = DOMAIN entries
  BY DEF ReturnAtOnce, WriteEntry
<1>2. /\ pc' = pc /\ UNCHANGED <<request, answer>>
      /\ UNCHANGED <<keys, indices, radixVars, bitonicVars>>
  BY <1>1 DEF sortVars
<1>3. Length' = Length /\ RowThreads' = RowThreads /\ Cells' = Cells
  BY <1>2, SameColumn
<1>4. /\ HostTyped' /\ Phases' /\ Buffers' /\ BlocksTyped' /\ BlocksWhole'
      /\ Scattered' /\ InOrder'
  <2>1. Len(answer') <= 1
    BY <1>2 DEF IInv, HostTyped
  <2> QED BY <1>1, <1>2, <2>1, SortUntouched
<1>5. Drawn' = Drawn
  BY <1>1, <1>3 DEF Drawn
<1>6. Numbered'
  BY <1>1, <1>2, <1>3, <1>5 DEF IInv, Numbered
<1> QED BY <1>4, <1>6 DEF IInv

\* A thread that has no number yet draws one: there are fewer numbers than rows.
LEMMA DrawNumberKeeps ==
  ASSUME IInv, NEW t \in RowThreads, DrawNumber(t)
  PROVE  IInv'
<1>1. /\ pc = "lead" /\ UNCHANGED <<sortVars, values, active, entries>>
      /\ number[t] = Junk /\ number' = [number EXCEPT ![t] = counter]
      /\ counter' = counter + 1
  BY DEF DrawNumber, CounterNext
<1>2. /\ pc' = pc /\ UNCHANGED <<request, answer>>
      /\ UNCHANGED <<keys, indices, radixVars, bitonicVars>>
  BY <1>1 DEF sortVars
<1>3. Length' = Length /\ RowThreads' = RowThreads /\ Cells' = Cells
  BY <1>2, SameColumn
<1>4. /\ HostTyped' /\ Phases' /\ Buffers' /\ BlocksTyped' /\ BlocksWhole'
      /\ Scattered' /\ InOrder'
  <2>1. Len(answer') <= 1
    BY <1>2 DEF IInv, HostTyped
  <2> QED BY <1>1, <1>2, <2>1, SortUntouched
<1>5. /\ counter \in Nat /\ counter = Cardinality(Drawn)
      /\ number \in [RowThreads -> Nat \cup {Junk}]
      /\ \A u \in RowThreads : number[u] = Junk \/ number[u] \in 0 .. counter - 1
      /\ DOMAIN values = Cells /\ DOMAIN entries = RowThreads
      /\ active \subseteq RowThreads
  <2>1. counter \in Nat
    BY RowThreadCount DEF IInv, Numbered
  <2> QED BY <1>1, <2>1 DEF IInv, Numbered
<1>6. counter # Junk
  BY <1>5, JunkAssumption
<1>7. Drawn' = Drawn \cup {t} /\ t \notin Drawn
  BY <1>1, <1>3, <1>5, <1>6 DEF Drawn
<1>8. IsFiniteSet(Drawn) /\ IsFiniteSet(Drawn') /\ Cardinality(Drawn') <= Length
  <2>1. Drawn \subseteq RowThreads /\ Drawn' \subseteq RowThreads
    BY <1>3 DEF Drawn
  <2> QED BY <2>1, RowThreadCount, FS_Subset
<1>9. Cardinality(Drawn') = Cardinality(Drawn) + 1
  BY <1>7, <1>8, FS_AddElement
<1>10. counter' = Cardinality(Drawn') /\ counter' \in 0 .. Length
  BY <1>1, <1>5, <1>8, <1>9, RowThreadCount
<1>11. number' \in [RowThreads -> Nat \cup {Junk}]
  BY <1>1, <1>5
<1>12. ASSUME NEW u \in RowThreads
       PROVE  number'[u] = Junk \/ number'[u] \in 0 .. counter' - 1
  <2>1. CASE u = t
    BY <1>1, <1>5, <2>1
  <2>2. CASE u # t
    <3>1. number'[u] = number[u]
      BY <1>1, <1>5, <2>2
    <3> QED BY <1>1, <1>5, <3>1
  <2> QED BY <2>1, <2>2
<1>13. Numbered'
  BY <1>1, <1>3, <1>5, <1>10, <1>11, <1>12 DEF Numbered
<1> QED BY <1>4, <1>13 DEF IInv

LEMMA ReturnGroupsKeeps ==
  ASSUME IInv, ReturnGroups
  PROVE  IInv'
<1>1. /\ pc = "lead" /\ pc' = "read" /\ request' = request /\ Len(answer') = 1
      /\ UNCHANGED <<keys, indices, radixVars, bitonicVars>> /\ UNCHANGED groupVars
  BY DEF ReturnGroups, KernelEnds
<1>2. /\ Length' = Length /\ RowThreads' = RowThreads /\ Cells' = Cells
      /\ UNCHANGED <<values, counter, active, number, entries>>
  BY <1>1, SameColumn DEF groupVars
<1>3. /\ HostTyped' /\ Phases' /\ Buffers' /\ BlocksTyped' /\ BlocksWhole'
      /\ Scattered' /\ InOrder'
  BY <1>1, SortUntouched
<1>4. Drawn' = Drawn
  BY <1>2 DEF Drawn
<1>5. Numbered'
  BY <1>1, <1>2, <1>4 DEF IInv, Numbered
<1> QED BY <1>3, <1>5 DEF IInv

-----------------------------------------------------------------------------
(* The bitonic network *)

\* Steps up to the end of a stage.
Steps(s) == (s * (s + 1)) \div 2

LEMMA StepCount ==
  ASSUME NEW s \in Nat
  PROVE  /\ Steps(s) \in Nat /\ Steps(s + 1) = Steps(s) + s + 1
         /\ ((s + 1) * (s + 2)) \div 2 = Steps(s + 1)
<1> DEFINE a == s * (s + 1)
           b == (s + 1) * (s + 2)
<1>1. a \in Nat /\ b = a + 2 * (s + 1)
  OBVIOUS
<1>2. (s + 1) * ((s + 1) + 1) = b
  OBVIOUS
<1>3. Steps(s) = a \div 2 /\ Steps(s + 1) = b \div 2
  BY <1>2 DEF Steps
<1> HIDE DEF a, b
<1>4. a \div 2 \in Nat /\ b \div 2 = a \div 2 + s + 1
  BY <1>1
<1>5. b \div 2 = Steps(s + 1)
  BY <1>3
<1> QED BY <1>3, <1>4, <1>5 DEF b

LEMMA StepsGrow ==
  ASSUME NEW s \in Nat, NEW r \in Nat, r <= s
  PROVE  Steps(r) <= Steps(s)
<1> DEFINE a == r * (r + 1)
           b == s * (s + 1)
<1>1. PICK e \in Nat : s = r + e
  <2>1. s - r \in Nat /\ s = r + (s - r)
    OBVIOUS
  <2> QED BY <2>1
<1>2. (r + e) * ((r + e) + 1) = r * (r + 1) + e * (2 * r + e + 1)
  OBVIOUS
<1>3. e * (2 * r + e + 1) \in Nat
  OBVIOUS
<1>4. a \in Nat /\ b \in Nat /\ a <= b
  <2>1. b = a + e * (2 * r + e + 1)
    BY <1>1, <1>2
  <2>2. a \in Nat
    OBVIOUS
  <2> HIDE DEF a, b
  <2> QED BY <1>3, <2>1, <2>2
<1> HIDE DEF a, b
<1>5. a \div 2 <= b \div 2
  BY <1>4
<1> QED BY <1>5 DEF Steps, a, b

\* Every step is in one stage.
LEMMA LocalStageType ==
  ASSUME NEW k \in Nat
  PROVE  /\ LocalStage(k) \in 0 .. k
         /\ Steps(LocalStage(k)) <= k /\ k < Steps(LocalStage(k)) + LocalStage(k) + 1
<1> DEFINE In(s, m) == (s * (s + 1)) \div 2 <= m /\ m < ((s + 1) * (s + 2)) \div 2
           S == {m \in Nat : \E s \in 0 .. m : In(s, m)}
<1>1. ASSUME NEW s \in Nat, NEW m \in Nat
      PROVE  In(s, m) <=> Steps(s) <= m /\ m < Steps(s) + s + 1
  <2>1. (s * (s + 1)) \div 2 = Steps(s)
    BY DEF Steps
  <2>2. ((s + 1) * (s + 2)) \div 2 = Steps(s) + s + 1
    BY StepCount
  <2> QED BY <2>1, <2>2
<1> HIDE DEF In
<1>2. 0 \in S
  <2>1. Steps(0) = 0
    BY DEF Steps
  <2>2. In(0, 0)
    BY <1>1, <2>1
  <2> QED BY <2>2
<1>3. ASSUME NEW m \in Nat, m \in S PROVE m + 1 \in S
  <2>1. PICK s \in 0 .. m : In(s, m)
    BY <1>3
  <2>2. s \in Nat /\ s + 1 \in Nat /\ Steps(s) \in Nat
        /\ Steps(s + 1) = Steps(s) + s + 1
    BY StepCount
  <2>3. Steps(s) <= m /\ m < Steps(s) + s + 1
    BY <1>1, <2>1, <2>2
  <2>4. CASE m + 1 < Steps(s) + s + 1
    <3>1. In(s, m + 1)
      BY <1>1, <2>2, <2>3, <2>4
    <3>2. s \in 0 .. m + 1
      OBVIOUS
    <3> QED BY <3>1, <3>2
  <2>5. CASE m + 1 = Steps(s) + s + 1
    <3>1. In(s + 1, m + 1)
      BY <1>1, <2>2, <2>5
    <3>2. s + 1 \in 0 .. m + 1
      OBVIOUS
    <3> QED BY <3>1, <3>2
  <2> QED BY <2>2, <2>3, <2>4, <2>5
<1>4. \A m \in Nat : m \in S
  <2> HIDE DEF S
  <2> QED BY <1>2, <1>3, SetInduction
<1>5. \E s \in 0 .. k : In(s, k)
  BY <1>4
<1>6. LocalStage(k) = CHOOSE s \in 0 .. k : In(s, k)
  BY DEF LocalStage, In
<1>7. LocalStage(k) \in 0 .. k /\ In(LocalStage(k), k)
  BY <1>5, <1>6
<1>8. LocalStage(k) \in Nat
  BY <1>7
<1> QED BY <1>1, <1>7, <1>8

\* In the memory of a threadgroup cells are compared that are in one block, and
\* at no stage are they further apart than its runs.
LEMMA NetworkType ==
  ASSUME IInv, InKernel, NEW k \in DOMAIN BlockNetwork
  PROVE  LET n == BlockNetwork[k]
         IN  n.stage \in Nat /\ n.step \in Nat /\ n.step < Stages /\ n.step <= n.stage
<1>1. Stages \in Nat
  BY RequestType DEF IInv, HostTyped
<1>2. CASE pc = "local"
  <2> DEFINE s == LocalStage(k)
  <2>1. k \in 0 .. Steps(Stages) - 1
    BY <1>2 DEF BlockNetwork, Steps, Stages
  <2>2. Steps(Stages) \in Nat /\ k \in Nat /\ k < Steps(Stages)
    BY <1>1, <2>1, StepCount
  <2>3. s \in 0 .. k /\ Steps(s) <= k /\ k < Steps(s) + s + 1
    BY <2>2, LocalStageType
  <2>4. BlockNetwork[k] = [stage |-> s, step |-> s - (k - Steps(s))]
    BY <1>2, <2>1 DEF BlockNetwork, Steps, Stages
  <2> HIDE DEF s
  <2>5. s \in Nat /\ Steps(s) \in Nat
    BY <2>3, StepCount
  <2>6. s < Stages
    <3> SUFFICES ASSUME Stages <= s PROVE FALSE
      BY <1>1, <2>5
    <3>1. Steps(Stages) <= Steps(s)
      BY <1>1, <2>5, StepsGrow
    <3> QED BY <2>2, <2>3, <2>5, <3>1
  <2>7. s - (k - Steps(s)) \in 0 .. s
    BY <2>2, <2>3, <2>5
  <2> QED BY <1>1, <2>4, <2>5, <2>6, <2>7
<1>3. CASE pc = "merge"
  <2>1. stage \in Nat /\ Stages <= stage
    <3>1. NumStages \in Nat /\ stage \in 0 .. NumStages
      BY CellType DEF IInv, HostTyped
    <3> QED BY <1>3, <3>1 DEF IInv, Phases
  <2>2. k \in 0 .. Stages - 1
    BY <1>3 DEF BlockNetwork, Stages
  <2>3. BlockNetwork[k] = [stage |-> stage, step |-> Stages - 1 - k]
    BY <1>3, <2>2 DEF BlockNetwork, Stages
  <2> QED BY <1>1, <2>1, <2>2, <2>3
<1> QED BY <1>2, <1>3 DEF InKernel

\* A cell is not exchanged with padding.
LEMMA PaddingStays ==
  ASSUME request \in Requests, NEW s \in Nat, NEW d \in Nat, d <= s,
         NEW t \in Cells, Partner(t, d) \notin Cells,
         NEW ks, ks[t] \in 0 .. Words(dtype) - 1, ks[Partner(t, d)] = MaxWord(dtype)
  PROVE  ~Swaps(ks, t, s, d) /\ ~Swaps(ks, Partner(t, d), s, d)
<1> DEFINE u == Partner(t, d)
           D == 2 ^ d
           E == 2 ^ (s + 1)
<1>1. /\ NumStages \in Nat /\ Size = 2 ^ NumStages /\ Size \in Nat \ {0}
      /\ t \in Nat /\ t < Size
  BY CellType DEF Cells
<1>2. u \in Nat /\ u >= Size
  <2>1. u \in Nat
    BY <1>1, Pairs
  <2>2. u \notin 0 .. Size - 1
    BY DEF Cells
  <2> HIDE DEF u
  <2> QED BY <1>1, <2>1, <2>2
<1>3. NumStages <= d
  <2> SUFFICES ASSUME d < NumStages PROVE FALSE
    BY <1>1
  <2>1. u \div Size = t \div Size
    BY <1>1, PairInBlock
  <2> HIDE DEF u
  <2>2. t \div Size = 0
    BY <1>1, DivSmall
  <2>3. u < Size
    BY <1>1, <1>2, <2>1, <2>2, DivSmall
  <2> QED BY <1>1, <1>2, <2>3
<1>4. D \in Nat \ {0} /\ E \in Nat \ {0} /\ t < D /\ t < E
  <2>1. 2 ^ NumStages <= 2 ^ d /\ 2 ^ NumStages <= 2 ^ (s + 1)
    BY <1>1, <1>3, PowersGrow
  <2>2. D \in Nat \ {0} /\ E \in Nat \ {0}
    BY PowerOfTwo
  <2> QED BY <1>1, <2>1, <2>2
<1>5. t \div D = 0 /\ t \div E = 0
  <2> HIDE DEF D, E
  <2> QED BY <1>1, <1>4, DivSmall
<1>6. Lower(t, d) = t
  BY <1>5 DEF Lower
<1>7. RunAscends(t, s)
  BY <1>5 DEF RunAscends
<1>8. u = t + D
  BY <1>6 DEF Partner
<1>9. Lower(u, d) = t
  BY <1>1, <1>6, Pairs
<1>10. ~Above(dtype, ks[t], ks[t + D])
  <2>1. ks[t + D] = MaxWord(dtype) /\ dtype \in DTypes
    BY <1>8, RequestType
  <2> QED BY <2>1, MaxWordIsLargest
<1> HIDE DEF u
<1>11. ~Swaps(ks, t, s, d) /\ ~Swaps(ks, u, s, d)
  BY <1>6, <1>7, <1>9, <1>10 DEF Swaps
<1> QED BY <1>11 DEF u

\* Whether a pair is exchanged does not depend on which of them is asked.
LEMMA SwapsBoth ==
  ASSUME NEW s, NEW d \in Nat, NEW t \in Nat, NEW ks
  PROVE  Swaps(ks, Partner(t, d), s, d) <=> Swaps(ks, t, s, d)
BY Pairs DEF Swaps

LEMMA StartBitonicKeeps ==
  ASSUME IInv, StartBitonic, UNCHANGED groupVars
  PROVE  IInv'
<1>1. /\ pc = "call" /\ pc' = "local" /\ SetUp
      /\ UNCHANGED <<request, answer, from, pass, offsets, todo, stage, step>>
      /\ at' = [g \in Blocks |-> 0]
      /\ lk' = [t \in Threads |-> MaxWord(dtype)] /\ li' = [t \in Threads |-> t]
  BY DEF StartBitonic, radixVars
<1>2. /\ dtype' = dtype /\ Size' = Size /\ Cells' = Cells /\ Padded' = Padded
      /\ NumStages' = NumStages /\ Blocks' = Blocks /\ Threads' = Threads
  BY <1>1, SameColumn
<1>3. request \in Requests /\ from = 0 /\ pass = 0 /\ dtype \in DTypes
      /\ Size \in Nat /\ Cells = 0 .. Size - 1
  BY <1>1, RequestType, CellType DEF IInv, HostTyped, Phases, Cells
<1>4. HostTyped' /\ Phases'
  BY <1>1, <1>2, <1>3 DEF IInv, HostTyped, States, Phases
<1>5. Buffers'
  <2>1. /\ keys' = [b \in {0, 1} |-> IF b = 0 THEN Padded ELSE [c \in Cells |-> 0]]
        /\ indices' = [b \in {0, 1} |-> [c \in Cells |-> IF b = 0 THEN c ELSE 0]]
    BY <1>1 DEF SetUp
  <2> DEFINE W == 0 .. Words(dtype) - 1
  <2>2. Padded \in [Cells -> W] /\ 0 \in W
    BY <1>3, PaddedType, WordType
  <2> HIDE DEF W
  <2>3. keys' \in [{0, 1} -> [Cells -> W]]
    BY <2>1, <2>2
  <2>4. \A c \in Cells : 0 \in Cells
    BY <1>3
  <2>5. indices' \in [{0, 1} -> [Cells -> Cells]]
    BY <2>1, <2>4
  <2>6. keys'[0] = Padded /\ indices'[0] = [c \in Cells |-> c]
    BY <2>1
  <2>7. Whole(Size, Padded, keys'[0], indices'[0])
    BY <1>3, <2>6 DEF Whole
  <2> QED BY <1>1, <1>2, <1>3, <2>3, <2>5, <2>7 DEF Buffers, W
<1>6. Stored' \in Nat /\ Stored' >= 2
  <2>1. (request \in Requests => NetworkSize \in Nat /\ Stored = NetworkSize + 2)'
    BY StoredSize, PTL
  <2> QED BY <1>1, <1>3, <2>1
<1>7. BlocksTyped'
  <2>1. MaxWord(dtype) \in 0 .. Words(dtype) - 1
    BY <1>3, MaxWordIsLargest
  <2> QED BY <1>1, <1>2, <1>6, <2>1 DEF BlocksTyped
<1>8. BlocksWhole'
  BY <1>1, <1>2, <1>6 DEF BlocksWhole
<1>9. Scattered' /\ InOrder'
  BY <1>1, <1>3 DEF Scattered, InOrder
<1>10. Numbered'
  BY <1>1, GroupUntouched DEF IInv
<1> QED BY <1>4, <1>5, <1>7, <1>8, <1>9, <1>10 DEF IInv

\* What the kernels that sort blocks work on.
LEMMA KernelType ==
  ASSUME IInv, InKernel
  PROVE  /\ request \in Requests /\ dtype \in DTypes /\ from = 0 /\ pass = 0
         /\ Size \in Nat \ {0} /\ Cells = 0 .. Size - 1 /\ Cells \subseteq Threads
         /\ \A t \in Threads : t \in Nat /\ BlockOf(t) \in Blocks
         /\ keys[0] \in [Cells -> 0 .. Words(dtype) - 1] /\ indices[0] \in [Cells -> Cells]
         /\ Whole(Size, Padded, keys[0], indices[0])
         /\ Stored \in Nat /\ Stored >= 2 /\ at \in [Blocks -> 0 .. Stored]
         /\ lk \in [Threads -> 0 .. Words(dtype) - 1] /\ li \in [Threads -> Threads]
         /\ MaxWord(dtype) \in 0 .. Words(dtype) - 1
<1>1. pc \in {"local", "merge"} /\ pc # "call"
  BY DEF InKernel
<1>2. /\ request \in Requests /\ dtype \in DTypes /\ from = 0 /\ pass = 0
      /\ Size \in Nat \ {0} /\ Cells = 0 .. Size - 1
  BY <1>1, BufferType DEF IInv, Phases
<1>3. /\ keys[0] \in [Cells -> 0 .. Words(dtype) - 1] /\ indices[0] \in [Cells -> Cells]
      /\ Whole(Size, Padded, keys[0], indices[0])
  BY <1>1, <1>2, BufferType
<1>4. Cells \subseteq Threads /\ \A t \in Threads : t \in Nat /\ BlockOf(t) \in Blocks
  BY <1>2, BlockType
<1>5. Stored \in Nat /\ Stored >= 2
  BY <1>2, StoredSize
<1>6. /\ at \in [Blocks -> 0 .. Stored]
      /\ lk \in [Threads -> 0 .. Words(dtype) - 1] /\ li \in [Threads -> Threads]
  BY <1>1 DEF IInv, BlocksTyped
<1>7. MaxWord(dtype) \in 0 .. Words(dtype) - 1
  BY <1>2, MaxWordIsLargest
<1> QED BY <1>2, <1>3, <1>4, <1>5, <1>6, <1>7

\* A step of one block: its own memory changes, and what has been done there.
LEMMA BlockStepKeeps ==
  ASSUME IInv, InKernel, NEW g \in Blocks, NEW n \in 0 .. Stored,
         UNCHANGED <<request, answer, pc, radixVars, stage, step>>, UNCHANGED groupVars,
         at' = [at EXCEPT ![g] = n],
         lk' \in [Threads -> 0 .. Words(dtype) - 1], li' \in [Threads -> Threads],
         \A t \in Threads : BlockOf(t) # g => lk'[t] = lk[t] /\ li'[t] = li[t],
         keys' \in [{0, 1} -> [Cells -> 0 .. Words(dtype) - 1]],
         indices' \in [{0, 1} -> [Cells -> Cells]],
         \A c \in Cells : BlockOf(c) # g => indices'[0][c] = indices[0][c],
         Whole(Size, Padded, keys'[0], indices'[0]),
         n < Stored => BlockWhole(g)'
  PROVE  IInv'
<1>1. UNCHANGED <<request, answer, pc, from, pass, offsets, todo, stage, step>>
  BY DEF radixVars
<1>2. /\ dtype' = dtype /\ Size' = Size /\ Cells' = Cells /\ Padded' = Padded
      /\ NumStages' = NumStages /\ Blocks' = Blocks /\ Threads' = Threads
      /\ Stages' = Stages /\ BlockSize' = BlockSize
  BY <1>1, SameColumn
<1>3. pc \in {"local", "merge"} /\ from = 0
  BY KernelType DEF InKernel
<1>4. Stored' = Stored
  <2>1. BlockNetwork' = BlockNetwork
    BY <1>1 DEF BlockNetwork
  <2> QED BY <2>1 DEF Stored
<1>5. HostTyped' /\ Phases'
  BY <1>1, <1>2 DEF IInv, HostTyped, Phases
<1>6. Buffers'
  BY <1>1, <1>2, <1>3 DEF Buffers
<1>7. BlocksTyped'
  <2>1. at' \in [Blocks -> 0 .. Stored]
    BY KernelType
  <2> QED BY <1>1, <1>2, <1>3, <1>4, <2>1 DEF BlocksTyped
<1>8. ASSUME NEW h \in Blocks, at'[h] \in 1 .. Stored - 1 PROVE BlockWhole(h)'
  <2>1. CASE h = g
    <3>1. at'[g] = n
      BY KernelType
    <3> QED BY <1>8, <2>1, <3>1, KernelType
  <2>2. CASE h # g
    <3>1. at[h] = at'[h]
      BY <2>2, KernelType
    <3>2. BlockWhole(h)
      BY <1>8, <3>1 DEF IInv, BlocksWhole
    <3>3. \A t : BlockOf(t)' = BlockOf(t)
      BY <1>2 DEF BlockOf
    <3>4. Cells \subseteq Threads
      BY KernelType
    <3>5. \A t \in Threads : BlockOf(t) = h => lk'[t] = lk[t] /\ li'[t] = li[t]
      BY <2>2
    <3>6. \A c \in Cells : BlockOf(c) = h => indices'[0][c] = indices[0][c]
      BY <2>2
    <3>7. \A c \in Cells : BlockOf(c) = h =>
             \E t \in Cells : BlockOf(t) = h /\ li'[t] = indices'[0][c]
      BY <3>2, <3>4, <3>5, <3>6 DEF BlockWhole
    <3>8. \A t \in Cells : BlockOf(t) = h => li'[t] \in Cells /\ lk'[t] = Padded[li'[t]]
      BY <3>2, <3>4, <3>5 DEF BlockWhole
    <3>9. \A t \in Threads \ Cells : BlockOf(t) = h => lk'[t] = MaxWord(dtype)
      BY <3>2, <3>5 DEF BlockWhole
    <3> QED BY <1>2, <3>3, <3>7, <3>8, <3>9 DEF BlockWhole
  <2> QED BY <2>1, <2>2
<1>9. BlocksWhole'
  BY <1>2, <1>4, <1>8 DEF BlocksWhole
<1>10. Scattered' /\ InOrder'
  <2>1. pass' = 0
    BY <1>1, KernelType
  <2> QED BY <1>1, <1>3, <2>1 DEF Scattered, InOrder
<1>11. Numbered'
  BY <1>1, <1>3, GroupUntouched DEF IInv
<1> QED BY <1>5, <1>6, <1>7, <1>9, <1>10, <1>11 DEF IInv

LEMMA LoadBlockKeeps ==
  ASSUME IInv, NEW g \in Blocks, LoadBlock(g), UNCHANGED groupVars
  PROVE  IInv'
<1> DEFINE W == 0 .. Words(dtype) - 1
<1>1. /\ InKernel /\ at[g] = 0 /\ at' = [at EXCEPT ![g] = 1]
      /\ UNCHANGED <<request, answer, pc, keys, indices, radixVars, stage, step>>
      /\ lk' = [t \in Threads |->
                  IF BlockOf(t) # g THEN lk[t]
                  ELSE IF t < Size THEN keys[0][t] ELSE MaxWord(dtype)]
      /\ li' = [t \in Threads |->
                  IF BlockOf(t) # g THEN li[t]
                  ELSE IF t < Size THEN indices[0][t] ELSE t]
  BY DEF LoadBlock
<1>2. /\ request \in Requests /\ Size \in Nat /\ Cells = 0 .. Size - 1 /\ Cells \subseteq Threads
      /\ \A t \in Threads : t \in Nat
      /\ keys[0] \in [Cells -> W] /\ indices[0] \in [Cells -> Cells]
      /\ Whole(Size, Padded, keys[0], indices[0])
      /\ Stored \in Nat /\ Stored >= 2
      /\ lk \in [Threads -> W] /\ li \in [Threads -> Threads]
      /\ MaxWord(dtype) \in W
  BY <1>1, KernelType
<1>3. /\ keys \in [{0, 1} -> [Cells -> W]]
      /\ indices \in [{0, 1} -> [Cells -> Cells]]
  BY <1>1 DEF IInv, Buffers, InKernel
<1> HIDE DEF W
<1>4. \A t \in Threads : t < Size <=> t \in Cells
  BY <1>2
<1>5. lk' \in [Threads -> W] /\ li' \in [Threads -> Threads]
  <2>1. \A t \in Threads : lk'[t] \in W
    BY <1>1, <1>2, <1>4
  <2>2. \A t \in Threads : li'[t] \in Threads
    BY <1>1, <1>2, <1>4
  <2>3. lk' = [t \in Threads |-> lk'[t]] /\ li' = [t \in Threads |-> li'[t]]
    BY <1>1
  <2> QED BY <2>1, <2>2, <2>3
<1>6. \A t \in Threads : BlockOf(t) # g => lk'[t] = lk[t] /\ li'[t] = li[t]
  BY <1>1
<1>7. \A t \in Cells : BlockOf(t) = g => lk'[t] = keys[0][t] /\ li'[t] = indices[0][t]
  BY <1>1, <1>2, <1>4
<1>8. \A t \in Threads \ Cells : BlockOf(t) = g => lk'[t] = MaxWord(dtype)
  BY <1>1, <1>2, <1>4
<1>9. BlockWhole(g)'
  <2>1. /\ dtype' = dtype /\ Cells' = Cells /\ Padded' = Padded /\ Threads' = Threads
        /\ BlockSize' = BlockSize
    BY <1>1, SameColumn
  <2>2. \A t : BlockOf(t)' = BlockOf(t)
    BY <2>1 DEF BlockOf
  <2>3. indices'[0] = indices[0]
    BY <1>1
  <2>4. \A c \in Cells : BlockOf(c) = g =>
          \E t \in Cells : BlockOf(t) = g /\ li'[t] = indices'[0][c]
    BY <1>7, <2>3
  <2>5. \A t \in Cells : BlockOf(t) = g => li'[t] \in Cells /\ lk'[t] = Padded[li'[t]]
    BY <1>2, <1>7 DEF Whole
  <2> QED BY <1>8, <2>1, <2>2, <2>4, <2>5 DEF BlockWhole
<1>10. 1 \in 0 .. Stored
  BY <1>2
<1>11. /\ keys' \in [{0, 1} -> [Cells -> W]] /\ indices' \in [{0, 1} -> [Cells -> Cells]]
       /\ keys'[0] = keys[0] /\ indices'[0] = indices[0]
  BY <1>1, <1>3
<1> QED BY <1>1, <1>2, <1>5, <1>6, <1>9, <1>10, <1>11, BlockStepKeeps DEF W

\* An exchange within a block keeps what the block holds.
LEMMA StepBlockKeeps ==
  ASSUME IInv, NEW g \in Blocks, StepBlock(g), UNCHANGED groupVars
  PROVE  IInv'
<1> DEFINE W == 0 .. Words(dtype) - 1
           n == BlockNetwork[at[g] - 1]
           s == n.stage
           d == n.step
           T == BlockThreads(g)
           To(t) == Partner(t, d)
           Sw(t) == Swaps(lk, t, s, d)
<1>1. /\ InKernel /\ at[g] - 1 \in DOMAIN BlockNetwork
      /\ lk' = Exchanged(lk, lk, T, s, d) /\ li' = Exchanged(li, lk, T, s, d)
      /\ at' = [at EXCEPT ![g] = at[g] + 1]
      /\ UNCHANGED <<request, answer, pc, keys, indices, radixVars, stage, step>>
  BY DEF StepBlock
<1>2. /\ request \in Requests /\ Size \in Nat /\ Cells = 0 .. Size - 1 /\ Cells \subseteq Threads
      /\ \A t \in Threads : t \in Nat
      /\ keys[0] \in [Cells -> W] /\ indices[0] \in [Cells -> Cells]
      /\ Whole(Size, Padded, keys[0], indices[0])
      /\ Stored \in Nat /\ Stored >= 2
      /\ lk \in [Threads -> W] /\ li \in [Threads -> Threads]
      /\ MaxWord(dtype) \in W
  BY <1>1, KernelType
<1>3. /\ keys \in [{0, 1} -> [Cells -> W]]
      /\ indices \in [{0, 1} -> [Cells -> Cells]]
  BY <1>1 DEF IInv, Buffers, InKernel
<1>4. at[g] \in 1 .. Stored - 2
  <2>1. DOMAIN BlockNetwork = 0 .. NetworkSize - 1
    BY DEF BlockNetwork, NetworkSize, Stages
  <2>2. NetworkSize \in Nat /\ Stored = NetworkSize + 2
    BY <1>2, StoredSize
  <2>3. at[g] \in 0 .. Stored
    BY <1>1, KernelType
  <2> QED BY <1>1, <2>1, <2>2, <2>3
<1>5. s \in Nat /\ d \in Nat /\ d < Stages /\ d <= s /\ Stages \in Nat
  BY <1>1, <1>2, NetworkType, RequestType
<1>6. BlockWhole(g)
  BY <1>1, <1>2, <1>4 DEF IInv, BlocksWhole
<1> HIDE DEF W, n, s, d
<1>7. \A t \in T : /\ To(t) \in T /\ To(To(t)) = t
                   /\ Sw(To(t)) <=> Sw(t)
  <2> SUFFICES ASSUME NEW t \in T
               PROVE  To(t) \in T /\ To(To(t)) = t /\ (Sw(To(t)) <=> Sw(t))
    OBVIOUS
  <2>1. t \in Threads /\ t \in Nat /\ BlockOf(t) = g
    BY <1>2 DEF BlockThreads
  <2>2. To(t) \in Nat /\ To(To(t)) = t
    BY <1>5, <2>1, Pairs
  <2>3. BlockOf(To(t)) = g
    <3>1. Partner(t, d) \div 2 ^ Stages = t \div 2 ^ Stages
      BY <1>5, <2>1, PairInBlock
    <3> QED BY <2>1, <3>1 DEF BlockOf, BlockSize, Stages
  <2>4. To(t) \in T
    <3>1. To(t) \in Threads
      <4> HIDE DEF To
      <4> QED BY <1>2, <2>2, <2>3, BlockType
    <3> QED BY <2>3, <3>1 DEF BlockThreads
  <2>5. Sw(To(t)) <=> Sw(t)
    BY <1>5, <2>1, SwapsBoth
  <2> QED BY <2>2, <2>4, <2>5
<1>8. /\ \A t \in Threads : lk'[t] = IF t \in T /\ Sw(t) THEN lk[To(t)] ELSE lk[t]
      /\ \A t \in Threads : li'[t] = IF t \in T /\ Sw(t) THEN li[To(t)] ELSE li[t]
      /\ lk' = [t \in Threads |-> lk'[t]] /\ li' = [t \in Threads |-> li'[t]]
  <2>1. /\ lk' = [t \in Threads |-> IF t \in T /\ Sw(t) THEN lk[To(t)] ELSE lk[t]]
        /\ li' = [t \in Threads |-> IF t \in T /\ Sw(t) THEN li[To(t)] ELSE li[t]]
    <3>1. DOMAIN lk = Threads /\ DOMAIN li = Threads
      BY <1>2
    <3> QED BY <1>1, <3>1 DEF Exchanged
  <2> HIDE DEF T, To, Sw
  <2> QED BY <2>1
<1>9. T \subseteq Threads /\ \A t \in Threads : t \in T <=> BlockOf(t) = g
  BY DEF BlockThreads
<1>10. \A t \in T : Sw(t) => (t \in Cells <=> To(t) \in Cells)
  <2>1. ASSUME NEW t \in T, t \in Cells, To(t) \notin Cells PROVE ~Sw(t) /\ ~Sw(To(t))
    <3>1. lk[t] \in W /\ lk[To(t)] = MaxWord(dtype)
      <4>1. To(t) \in Threads \ Cells /\ BlockOf(To(t)) = g
        BY <1>7, <1>9, <2>1
      <4> HIDE DEF To
      <4> QED BY <1>2, <1>6, <1>9, <4>1 DEF BlockWhole
    <3> QED BY <1>2, <1>5, <2>1, <3>1, PaddingStays DEF W
  <2>2. ASSUME NEW t \in T, t \notin Cells, To(t) \in Cells PROVE ~Sw(t)
    <3>1. To(t) \in T /\ To(To(t)) = t
      BY <1>7
    <3>2. ~Sw(To(t))
      <4> HIDE DEF To, Sw, T
      <4> QED BY <2>1, <2>2, <3>1
    <3> QED BY <1>7, <3>2
  <2> QED BY <2>1, <2>2
<1> HIDE DEF T, To, Sw
<1>11. lk' \in [Threads -> W] /\ li' \in [Threads -> Threads]
  <2>1. \A t \in Threads : lk'[t] \in W /\ li'[t] \in Threads
    BY <1>2, <1>7, <1>8, <1>9
  <2> QED BY <1>8, <2>1
<1>12. \A t \in Threads : BlockOf(t) # g => lk'[t] = lk[t] /\ li'[t] = li[t]
  BY <1>8, <1>9
<1>13. BlockWhole(g)'
  <2>1. /\ dtype' = dtype /\ Cells' = Cells /\ Padded' = Padded /\ Threads' = Threads
        /\ BlockSize' = BlockSize
    BY <1>1, SameColumn
  <2>2. \A t : BlockOf(t)' = BlockOf(t)
    BY <2>1 DEF BlockOf
  <2>3. indices'[0] = indices[0]
    BY <1>1
  <2>4. ASSUME NEW c \in Cells, BlockOf(c) = g
        PROVE  \E t \in Cells : BlockOf(t) = g /\ li'[t] = indices'[0][c]
    <3>1. PICK t \in Cells : BlockOf(t) = g /\ li[t] = indices[0][c]
      BY <1>6, <2>4 DEF BlockWhole
    <3>2. t \in T /\ t \in Threads
      BY <1>2, <1>9, <3>1
    <3>3. CASE Sw(t)
      <4>1. To(t) \in Cells /\ To(t) \in T /\ Sw(To(t)) /\ To(To(t)) = t
        BY <1>7, <1>10, <3>2, <3>3
      <4>2. BlockOf(To(t)) = g /\ li'[To(t)] = li[t]
        BY <1>8, <1>9, <4>1
      <4> QED BY <2>3, <3>1, <4>1, <4>2
    <3>4. CASE ~Sw(t)
      <4>1. li'[t] = li[t]
        BY <1>8, <3>2, <3>4
      <4> QED BY <2>3, <3>1, <4>1
    <3> QED BY <3>3, <3>4
  <2>5. ASSUME NEW t \in Cells, BlockOf(t) = g
        PROVE  li'[t] \in Cells /\ lk'[t] = Padded[li'[t]]
    <3>1. t \in T /\ t \in Threads
      BY <1>2, <1>9, <2>5
    <3>2. \E u \in Cells : BlockOf(u) = g /\ li'[t] = li[u] /\ lk'[t] = lk[u]
      <4>1. CASE Sw(t)
        <5>1. To(t) \in Cells /\ To(t) \in T
          BY <1>7, <1>10, <3>1, <4>1
        <5> QED BY <1>8, <1>9, <3>1, <4>1, <5>1
      <4>2. CASE ~Sw(t)
        BY <1>8, <2>5, <3>1, <4>2
      <4> QED BY <4>1, <4>2
    <3> QED BY <1>6, <3>2 DEF BlockWhole
  <2>6. ASSUME NEW t \in Threads \ Cells, BlockOf(t) = g
        PROVE  lk'[t] = MaxWord(dtype)
    <3>1. t \in T
      BY <1>9, <2>6
    <3>2. \E u \in Threads \ Cells : BlockOf(u) = g /\ lk'[t] = lk[u]
      <4>1. CASE Sw(t)
        <5>1. To(t) \notin Cells /\ To(t) \in T
          BY <1>7, <1>10, <2>6, <3>1, <4>1
        <5> QED BY <1>8, <1>9, <3>1, <4>1, <5>1
      <4>2. CASE ~Sw(t)
        BY <1>8, <2>6, <3>1, <4>2
      <4> QED BY <4>1, <4>2
    <3> QED BY <1>6, <3>2 DEF BlockWhole
  <2> QED BY <2>1, <2>2, <2>4, <2>5, <2>6 DEF BlockWhole
<1>14. at[g] + 1 \in 0 .. Stored
  BY <1>2, <1>4
<1>15. /\ keys' \in [{0, 1} -> [Cells -> W]] /\ indices' \in [{0, 1} -> [Cells -> Cells]]
       /\ keys'[0] = keys[0] /\ indices'[0] = indices[0]
  BY <1>1, <1>3
<1> QED BY <1>1, <1>2, <1>11, <1>12, <1>13, <1>14, <1>15, BlockStepKeeps DEF W

LEMMA StoreBlockKeeps ==
  ASSUME IInv, NEW g \in Blocks, StoreBlock(g), UNCHANGED groupVars
  PROVE  IInv'
<1> DEFINE W == 0 .. Words(dtype) - 1
<1>1. /\ InKernel /\ at[g] = Stored - 1 /\ at' = [at EXCEPT ![g] = Stored]
      /\ UNCHANGED <<request, answer, pc, radixVars, stage, step, lk, li>>
      /\ keys' = [keys EXCEPT ![0] =
                    [c \in Cells |-> IF BlockOf(c) = g THEN lk[c] ELSE keys[0][c]]]
      /\ indices' = [indices EXCEPT ![0] =
                       [c \in Cells |-> IF BlockOf(c) = g THEN li[c] ELSE indices[0][c]]]
  BY DEF StoreBlock
<1>2. /\ request \in Requests /\ Size \in Nat /\ Cells = 0 .. Size - 1 /\ Cells \subseteq Threads
      /\ keys[0] \in [Cells -> W] /\ indices[0] \in [Cells -> Cells]
      /\ Whole(Size, Padded, keys[0], indices[0])
      /\ Stored \in Nat /\ Stored >= 2
      /\ lk \in [Threads -> W] /\ li \in [Threads -> Threads]
  BY <1>1, KernelType
<1>3. /\ keys \in [{0, 1} -> [Cells -> W]]
      /\ indices \in [{0, 1} -> [Cells -> Cells]]
  BY <1>1 DEF IInv, Buffers, InKernel
<1>4. BlockWhole(g)
  <2>1. at[g] \in 1 .. Stored - 1
    BY <1>1, <1>2
  <2> QED BY <1>1, <2>1 DEF IInv, BlocksWhole
<1> DEFINE kn == [c \in Cells |-> IF BlockOf(c) = g THEN lk[c] ELSE keys[0][c]]
           in == [c \in Cells |-> IF BlockOf(c) = g THEN li[c] ELSE indices[0][c]]
<1>5. kn \in [Cells -> W] /\ in \in [Cells -> Cells]
  <2> HIDE DEF W
  <2>1. \A c \in Cells : lk[c] \in W /\ keys[0][c] \in W /\ indices[0][c] \in Cells
    BY <1>2
  <2>2. \A c \in Cells : BlockOf(c) = g => li[c] \in Cells
    BY <1>4 DEF BlockWhole
  <2> QED BY <2>1, <2>2
<1>6. Whole(Size, Padded, kn, in)
  <2> SUFFICES ASSUME NEW r \in Cells
               PROVE  (\E b \in Cells : in[b] = r) /\ kn[r] = Padded[in[r]]
    BY <1>2 DEF Whole
  <2>1. PICK b \in Cells : indices[0][b] = r
    BY <1>2 DEF Whole
  <2>2. CASE BlockOf(b) = g
    <3>1. PICK t \in Cells : BlockOf(t) = g /\ li[t] = r
      BY <1>4, <2>1, <2>2 DEF BlockWhole
    <3> QED
      <4>1. in[t] = r
        BY <3>1
      <4>2. kn[r] = Padded[in[r]]
        BY <1>2, <1>4 DEF Whole, BlockWhole
      <4> QED BY <4>1, <4>2
  <2>3. CASE BlockOf(b) # g
    <3>1. in[b] = r
      BY <2>1, <2>3
    <3>2. kn[r] = Padded[in[r]]
      BY <1>2, <1>4 DEF Whole, BlockWhole
    <3> QED BY <3>1, <3>2
  <2> QED BY <2>2, <2>3
<1>7. \A c \in Cells : BlockOf(c) # g => in[c] = indices[0][c]
  OBVIOUS
<1>8. keys' = [keys EXCEPT ![0] = kn] /\ indices' = [indices EXCEPT ![0] = in]
  BY <1>1
<1> HIDE DEF kn, in, W
<1>9. /\ keys' \in [{0, 1} -> [Cells -> W]] /\ indices' \in [{0, 1} -> [Cells -> Cells]]
      /\ keys'[0] = kn /\ indices'[0] = in
  BY <1>3, <1>5, <1>8
<1>10. Stored \in 0 .. Stored /\ ~(Stored < Stored)
  BY <1>2
<1>11. \A t \in Threads : BlockOf(t) # g => lk'[t] = lk[t] /\ li'[t] = li[t]
  BY <1>1
<1>12. \A c \in Cells : BlockOf(c) # g => indices'[0][c] = indices[0][c]
  BY <1>7, <1>9
<1>13. lk' \in [Threads -> W] /\ li' \in [Threads -> Threads]
  BY <1>1, <1>2
<1> QED BY <1>1, <1>6, <1>9, <1>10, <1>11, <1>12, <1>13, BlockStepKeeps DEF W

LEMMA EndBlocksKeeps ==
  ASSUME IInv, EndBlocks, UNCHANGED groupVars
  PROVE  IInv'
<1>1. /\ InKernel /\ at' = [g \in Blocks |-> 0]
      /\ UNCHANGED <<request, answer, keys, indices, from, pass, offsets, todo, lk, li>>
      /\ \/ /\ NextStage < NumStages /\ pc' = "global"
            /\ stage' = NextStage /\ step' = NextStage
         \/ pc' = "wait" /\ UNCHANGED <<stage, step>>
  BY DEF EndBlocks, radixVars
<1>2. /\ dtype' = dtype /\ Size' = Size /\ Cells' = Cells /\ Padded' = Padded
      /\ NumStages' = NumStages /\ Blocks' = Blocks /\ Threads' = Threads
      /\ Stages' = Stages
  BY <1>1, SameColumn
<1>3. /\ request \in Requests /\ from = 0 /\ pass = 0 /\ pc # "call"
      /\ lk \in [Threads -> 0 .. Words(dtype) - 1] /\ li \in [Threads -> Threads]
  BY <1>1, KernelType DEF InKernel
<1>4. /\ NumStages \in Nat /\ Stages \in Nat /\ stage \in Nat
      /\ NextStage \in Nat /\ Stages <= NextStage
  <2>1. NumStages \in Nat /\ Stages \in Nat /\ stage \in 0 .. NumStages
    BY <1>3, CellType, RequestType DEF IInv, HostTyped
  <2>2. pc = "merge" => Stages <= stage
    BY DEF IInv, Phases
  <2> QED BY <1>1, <2>1, <2>2 DEF NextStage, InKernel, Stages
<1>5. HostTyped' /\ Phases'
  <2>1. CASE pc' = "wait" /\ UNCHANGED <<stage, step>>
    BY <1>1, <1>2, <2>1 DEF IInv, HostTyped, Phases, States
  <2>2. CASE NextStage < NumStages /\ pc' = "global" /\ stage' = NextStage /\ step' = NextStage
    <3>1. stage' \in 0 .. NumStages /\ step' \in 0 .. stage'
          /\ Stages <= stage' /\ stage' < NumStages
      BY <1>4, <2>2
    <3> QED BY <1>1, <1>2, <1>3, <2>2, <3>1 DEF IInv, HostTyped, Phases, States
  <2> QED BY <1>1, <2>1, <2>2
<1>6. Buffers'
  BY <1>1, <1>2, <1>3 DEF IInv, Buffers
<1>7. BlocksTyped'
  <2>1. (request \in Requests => NetworkSize \in Nat /\ Stored = NetworkSize + 2)'
    BY StoredSize, PTL
  <2>2. Stored' \in Nat
    BY <1>1, <1>3, <2>1
  <2> QED BY <1>1, <1>2, <1>3, <2>2 DEF BlocksTyped
<1>8. BlocksWhole' /\ Scattered' /\ InOrder'
  BY <1>1, <1>3 DEF BlocksWhole, InKernel, Scattered, InOrder
<1>9. Numbered'
  BY <1>1, GroupUntouched DEF IInv
<1> QED BY <1>5, <1>6, <1>7, <1>8, <1>9 DEF IInv

\* An exchange over the whole column keeps what the buffers hold.
LEMMA GlobalStepKeeps ==
  ASSUME IInv, GlobalStep, UNCHANGED groupVars
  PROVE  IInv'
<1> DEFINE W == 0 .. Words(dtype) - 1
           ks == keys[0]
           is == indices[0]
           kn == Exchanged(ks, ks, Cells, stage, step)
           in == Exchanged(is, ks, Cells, stage, step)
           To(t) == Partner(t, step)
           Sw(t) == Swaps(ks, t, stage, step)
<1>1. /\ pc = "global"
      /\ keys' = [keys EXCEPT ![0] = kn] /\ indices' = [indices EXCEPT ![0] = in]
      /\ UNCHANGED <<request, answer, from, pass, offsets, todo, stage, at, lk, li>>
      /\ \/ AnotherGlobalStep /\ step' = step - 1 /\ pc' = pc
         \/ pc' = "merge" /\ step' = step
  BY DEF GlobalStep, radixVars
<1>2. /\ dtype' = dtype /\ Size' = Size /\ Cells' = Cells /\ Padded' = Padded
      /\ NumStages' = NumStages /\ Blocks' = Blocks /\ Threads' = Threads
      /\ Stages' = Stages
  BY <1>1, SameColumn
<1>3. /\ request \in Requests /\ from = 0 /\ pass = 0
      /\ Size \in Nat \ {0} /\ Cells = 0 .. Size - 1
      /\ ks \in [Cells -> W] /\ is \in [Cells -> Cells]
      /\ Whole(Size, Padded, ks, is)
  <2>1. from = 0 /\ pass = 0
    BY <1>1 DEF IInv, Phases
  <2> QED BY <1>1, <2>1, BufferType
<1>4. /\ keys \in [{0, 1} -> [Cells -> W]]
      /\ indices \in [{0, 1} -> [Cells -> Cells]]
  BY <1>1 DEF IInv, Buffers
<1>5. /\ NumStages \in Nat /\ Size = 2 ^ NumStages /\ Stages \in Nat
      /\ stage \in Nat /\ step \in Nat /\ step <= stage /\ stage < NumStages
      /\ Stages <= stage
  <2>1. NumStages \in Nat /\ Size = 2 ^ NumStages /\ Stages \in Nat
    BY <1>3, CellType, RequestType
  <2>2. stage \in 0 .. NumStages /\ step \in 0 .. stage
    BY DEF IInv, HostTyped
  <2>3. Stages <= stage /\ stage < NumStages
    BY <1>1 DEF IInv, Phases
  <2> QED BY <2>1, <2>2, <2>3
<1> HIDE DEF W
<1>6. \A t \in Cells : To(t) \in Cells /\ To(To(t)) = t /\ (Sw(To(t)) <=> Sw(t))
  <2> SUFFICES ASSUME NEW t \in Cells
               PROVE  To(t) \in Cells /\ To(To(t)) = t /\ (Sw(To(t)) <=> Sw(t))
    OBVIOUS
  <2>1. t \in Nat /\ t < Size
    BY <1>3
  <2>2. To(t) \in Nat /\ To(To(t)) = t
    BY <1>5, <2>1, Pairs
  <2>3. Partner(t, step) \div 2 ^ NumStages = t \div 2 ^ NumStages
    BY <1>5, <2>1, PairInBlock
  <2>4. To(t) < Size
    <3>1. t \div Size = 0
      BY <1>3, <2>1, DivSmall
    <3>2. To(t) \div Size = 0
      BY <1>5, <2>3, <3>1
    <3> HIDE DEF To
    <3> QED BY <1>3, <2>2, <3>2, DivSmall
  <2>5. Sw(To(t)) <=> Sw(t)
    BY <1>5, <2>1, SwapsBoth
  <2> HIDE DEF To
  <2> QED BY <1>3, <2>2, <2>4, <2>5
<1>7. /\ \A t \in Cells : kn[t] = IF Sw(t) THEN ks[To(t)] ELSE ks[t]
      /\ \A t \in Cells : in[t] = IF Sw(t) THEN is[To(t)] ELSE is[t]
      /\ kn = [t \in Cells |-> kn[t]] /\ in = [t \in Cells |-> in[t]]
  <2>1. /\ kn = [t \in Cells |-> IF Sw(t) THEN ks[To(t)] ELSE ks[t]]
        /\ in = [t \in Cells |-> IF Sw(t) THEN is[To(t)] ELSE is[t]]
    <3>1. DOMAIN ks = Cells /\ DOMAIN is = Cells
      BY <1>3
    <3> QED BY <3>1 DEF Exchanged
  <2> HIDE DEF kn, in, To, Sw
  <2> QED BY <2>1
<1> HIDE DEF To, Sw, kn, in, ks, is
<1>8. kn \in [Cells -> W] /\ in \in [Cells -> Cells]
  <2>1. \A t \in Cells : kn[t] \in W /\ in[t] \in Cells
    BY <1>3, <1>6, <1>7
  <2> QED BY <1>7, <2>1
<1>9. Whole(Size, Padded, kn, in)
  <2> SUFFICES ASSUME NEW r \in Cells
               PROVE  (\E b \in Cells : in[b] = r) /\ kn[r] = Padded[in[r]]
    BY <1>3 DEF Whole
  <2>1. PICK b \in Cells : is[b] = r
    BY <1>3 DEF Whole
  <2>2. \E a \in Cells : in[a] = r
    <3>1. CASE Sw(b)
      <4>1. To(b) \in Cells /\ Sw(To(b)) /\ To(To(b)) = b
        BY <1>6, <3>1
      <4>2. in[To(b)] = is[b]
        BY <1>7, <4>1
      <4> QED BY <2>1, <4>1, <4>2
    <3>2. CASE ~Sw(b)
      BY <1>7, <2>1, <3>2
    <3> QED BY <3>1, <3>2
  <2>3. \E u \in Cells : in[r] = is[u] /\ kn[r] = ks[u]
    BY <1>6, <1>7
  <2>4. kn[r] = Padded[in[r]]
    BY <1>3, <2>3 DEF Whole
  <2> QED BY <2>2, <2>4
<1>10. HostTyped' /\ Phases'
  <2>1. step' \in 0 .. stage
    BY <1>1, <1>5 DEF AnotherGlobalStep, Stages
  <2>2. pc' \in {"global", "merge"}
    BY <1>1
  <2> QED BY <1>1, <1>2, <1>3, <1>5, <2>1, <2>2 DEF IInv, HostTyped, Phases, States
<1>11. Buffers'
  <2>1. /\ keys' \in [{0, 1} -> [Cells -> W]] /\ indices' \in [{0, 1} -> [Cells -> Cells]]
        /\ keys'[0] = kn /\ indices'[0] = in
    BY <1>1, <1>4, <1>8
  <2> QED BY <1>1, <1>2, <1>3, <1>9, <2>1 DEF Buffers, W
<1>12. BlocksTyped' /\ BlocksWhole'
  <2>1. /\ at \in [Blocks -> 0 .. Stored] /\ \A g \in Blocks : at[g] = 0
        /\ lk \in [Threads -> 0 .. Words(dtype) - 1] /\ li \in [Threads -> Threads]
    BY <1>1 DEF IInv, BlocksTyped
  <2>2. (request \in Requests => NetworkSize \in Nat /\ Stored = NetworkSize + 2)'
    BY StoredSize, PTL
  <2>3. Stored' \in Nat
    BY <1>1, <1>3, <2>2
  <2>4. at' \in [Blocks -> 0 .. Stored'] /\ \A g \in Blocks : at'[g] = 0
    BY <1>1, <2>1, <2>3
  <2>5. BlocksTyped'
    BY <1>1, <1>2, <2>1, <2>4 DEF BlocksTyped
  <2>6. BlocksWhole'
    BY <1>2, <2>4 DEF BlocksWhole
  <2> QED BY <2>5, <2>6
<1>13. Scattered' /\ InOrder'
  BY <1>1, <1>3 DEF Scattered, InOrder
<1>14. Numbered'
  BY <1>1, GroupUntouched DEF IInv
<1> QED BY <1>10, <1>11, <1>12, <1>13, <1>14 DEF IInv

-----------------------------------------------------------------------------
(* Merging networks *)

\* Up, down and up again, or the other way round.
Zigzag(a, b, c, d) ==
  \/ a < b /\ c < b /\ a < d /\ c < d
  \/ b < a /\ d < a /\ b < c /\ d < c

Numbers(v, X) == \A t \in X : v[t] \in Int

\* Two cells are in one part of 2^m cells.
Together(m, b, c) == b \div 2 ^ m = c \div 2 ^ m

\* The cells of X turn at most once in every 2^m, seen as a ring.
BitonicOn(v, X, m) ==
  \A i, j, k, l \in X :
    i < j /\ j < k /\ k < l /\ Together(m, i, l) => ~Zigzag(v[i], v[j], v[k], v[l])

\* The runs of 2^r cells are sorted upwards and downwards by turns.
Ascends(r, b) == (b \div 2 ^ r) % 2 = 0

InOrderOf(v, r, b, c) == IF Ascends(r, b) THEN v[b] <= v[c] ELSE v[c] <= v[b]

\* In each run of 2^r cells the parts of 2^m are in order, upwards and downwards
\* by turns.
PartsOrdered(v, X, r, m) ==
  \A b, c \in X :
    b < c /\ Together(r, b, c) /\ ~Together(m, b, c) => InOrderOf(v, r, b, c)

Merged(v, X, r, m) == BitonicOn(v, X, m) /\ PartsOrdered(v, X, r, m)

Upper(t, d) == Lower(t, d) + 2 ^ d

\* Every pair of cells 2^d apart is compared and exchanged: v becomes w.
PairSorted(v, w, r, a, b) ==
  /\ InOrderOf(w, r, a, b)
  /\ (w[a] = v[a] /\ w[b] = v[b]) \/ (w[a] = v[b] /\ w[b] = v[a])

PairsSorted(v, w, X, r, d) ==
  \A t \in X : /\ Lower(t, d) \in X /\ Upper(t, d) \in X
               /\ PairSorted(v, w, r, Lower(t, d), Upper(t, d))

\* Four pairs, their lower cells in a row and then their upper ones: when the
\* eight turn at most once as a ring, so do the smaller ones and the larger ones.
LEMMA FourPairs ==
  ASSUME NEW a1 \in Int, NEW a2 \in Int, NEW a3 \in Int, NEW a4 \in Int,
         NEW b1 \in Int, NEW b2 \in Int, NEW b3 \in Int, NEW b4 \in Int,
         ~Zigzag(a1, a2, a3, a4), ~Zigzag(a2, a3, a4, b1), ~Zigzag(a1, b2, b3, b4),
         ~Zigzag(b1, b2, b3, b4), ~Zigzag(a1, a2, a3, b4), ~Zigzag(a3, a4, b1, b2),
         NEW x1 \in {a1, b1}, NEW x2 \in {a2, b2}, NEW x3 \in {a3, b3}, NEW x4 \in {a4, b4}
  PROVE  /\ x1 <= a1 /\ x1 <= b1 /\ x2 <= a2 /\ x2 <= b2 /\ x3 <= a3 /\ x3 <= b3
            /\ x4 <= a4 /\ x4 <= b4 => ~Zigzag(x1, x2, x3, x4)
         /\ a1 <= x1 /\ b1 <= x1 /\ a2 <= x2 /\ b2 <= x2 /\ a3 <= x3 /\ b3 <= x3
            /\ a4 <= x4 /\ b4 <= x4 => ~Zigzag(x1, x2, x3, x4)
BY DEF Zigzag

LEMMA DivGrows ==
  ASSUME NEW e \in Nat \ {0}, NEW a \in Nat, NEW b \in Nat, a <= b
  PROVE  a \div e <= b \div e
<1> DEFINE p == a \div e
           q == b \div e
           r == a % e
           s == b % e
<1>1. /\ p \in Nat /\ r \in 0 .. e - 1 /\ a = p * e + r
      /\ q \in Nat /\ s \in 0 .. e - 1 /\ b = q * e + s
  BY DivMod
<1> HIDE DEF p, q, r, s
<1>2. ~(q < p)
  <2> SUFFICES ASSUME q < p PROVE FALSE
    OBVIOUS
  <2>1. q * e + s < p * e + r
    BY <1>1, DigitDecides
  <2> QED BY <1>1, <2>1
<1> QED BY <1>1, <1>2 DEF p, q

\* Cells of one part are in one coarser part.
LEMMA PartOfRun ==
  ASSUME NEW m \in Nat, NEW r \in Nat, m <= r, NEW a \in Nat, NEW b \in Nat,
         Together(m, a, b)
  PROVE  Together(r, a, b)
<1> DEFINE D == 2 ^ m
           F == 2 ^ (r - m)
<1>1. r - m \in Nat /\ m + (r - m) = r
  OBVIOUS
<1>2. D \in Nat \ {0} /\ F \in Nat \ {0} /\ 2 ^ r = D * F
  BY <1>1, PowerOfTwo, PowerOfSum
<1> HIDE DEF D, F
<1>3. a \div (D * F) = (a \div D) \div F /\ b \div (D * F) = (b \div D) \div F
  BY <1>2, DivDiv
<1>4. a \div D = b \div D
  BY DEF D, Together
<1> QED BY <1>2, <1>3, <1>4 DEF Together

\* Parts are intervals.
LEMMA PartConvex ==
  ASSUME NEW m \in Nat, NEW a \in Nat, NEW b \in Nat, NEW c \in Nat, a <= b, b <= c,
         Together(m, a, c)
  PROVE  Together(m, a, b) /\ Together(m, b, c)
<1> DEFINE D == 2 ^ m
           p == a \div D
           q == b \div D
           r == c \div D
<1>1. D \in Nat \ {0}
  BY PowerOfTwo
<1> HIDE DEF D
<1>2. p \in Nat /\ q \in Nat /\ r \in Nat /\ p <= q /\ q <= r
  BY <1>1, DivMod, DivGrows
<1>3. p = r
  BY DEF D, Together
<1> HIDE DEF p, q, r
<1>4. q = p /\ q = r
  BY <1>2, <1>3
<1> QED BY <1>4 DEF p, q, r, D, Together

\* Whoever is in the part of b comes before whoever is in a later part.
LEMMA PartsInLine ==
  ASSUME NEW m \in Nat, NEW a \in Nat, NEW b \in Nat, NEW c \in Nat, NEW e \in Nat,
         b < c, ~Together(m, b, c), Together(m, a, b), Together(m, e, c)
  PROVE  a < e
<1> DEFINE D == 2 ^ m
           p == a \div D
           q == b \div D
           r == c \div D
           s == e \div D
<1>1. D \in Nat \ {0}
  BY PowerOfTwo
<1> HIDE DEF D
<1>2. p \in Nat /\ q \in Nat /\ r \in Nat /\ s \in Nat
  BY <1>1, DivMod
<1>3. q <= r
  <2>1. b <= c
    OBVIOUS
  <2> QED BY <1>1, <2>1, DivGrows
<1>4. p = q /\ s = r /\ q # r
  BY DEF D, Together
<1>5. e <= a => s <= p
  BY <1>1, DivGrows
<1> HIDE DEF p, q, r, s
<1> QED BY <1>2, <1>3, <1>4, <1>5

\* Of two cells in one part of 2^(d + 1), the halves of it.
LEMMA Halves ==
  ASSUME NEW d \in Nat, NEW b \in Nat, NEW c \in Nat, b < c
  PROVE  /\ Together(d, b, c) => c < b + 2 ^ d
         /\ Together(d, b, c) => (Lower(b, d) = b <=> Lower(c, d) = c)
         /\ Together(d + 1, b, c) /\ ~Together(d, b, c) => Lower(b, d) = b /\ Lower(c, d) # c
<1> DEFINE D == 2 ^ d
           E == 2 ^ (d + 1)
           p == b \div D
           r == b % D
           q == c \div D
           s == c % D
<1>1. D \in Nat \ {0} /\ E = D * 2
  BY PowerOfTwo
<1>2. /\ p \in Nat /\ r \in 0 .. D - 1 /\ b = p * D + r
      /\ q \in Nat /\ s \in 0 .. D - 1 /\ c = q * D + s
  <2> HIDE DEF D
  <2> QED BY <1>1, DivMod
<1>3. p <= q
  <2> HIDE DEF D
  <2> QED BY <1>1, DivGrows
<1>4. b \div E = p \div 2 /\ c \div E = q \div 2
  <2>1. \A x \in Nat : x \div E = (x \div D) \div 2
    <3> HIDE DEF D, E
    <3> QED BY <1>1, DivDiv
  <2> QED BY <2>1
<1>5. (Lower(b, d) = b <=> p % 2 = 0) /\ (Lower(c, d) = c <=> q % 2 = 0)
  <2>1. b - D # b /\ c - D # c
    <3> HIDE DEF D
    <3> QED BY <1>1
  <2> QED BY <2>1 DEF Lower
<1> HIDE DEF D, E, p, q, r, s
<1>6. p = q => c < b + D
  <2> SUFFICES ASSUME p = q PROVE c < b + D
    OBVIOUS
  <2> DEFINE z == p * D
  <2>1. z \in Nat /\ b = z + r /\ c = z + s
    BY <1>1, <1>2
  <2> HIDE DEF z
  <2> QED BY <1>1, <1>2, <2>1
<1>7. p = q => (Lower(b, d) = b <=> Lower(c, d) = c)
  BY <1>5
<1>8. b \div E = c \div E /\ p # q => p % 2 = 0 /\ q % 2 # 0
  <2>1. p # q /\ p \div 2 = q \div 2 => p % 2 = 0 /\ q % 2 # 0
    BY <1>2, <1>3
  <2> QED BY <1>4, <2>1
<1>9. b \div E = c \div E /\ p # q => Lower(b, d) = b /\ Lower(c, d) # c
  BY <1>5, <1>8
<1>10. (Together(d, b, c) <=> p = q) /\ (Together(d + 1, b, c) <=> b \div E = c \div E)
  BY DEF Together, p, q, D, E
<1> QED BY <1>6, <1>7, <1>9, <1>10 DEF D

\* What a cell holds after the pairs have been exchanged: one of the two values of
\* its pair, the smaller one in the lower cells of a run upwards.
LEMMA Picked ==
  ASSUME NEW X \in SUBSET Nat, NEW v, NEW w, Numbers(v, X), Numbers(w, X),
         NEW r \in Nat, NEW d \in Nat, d < r, PairsSorted(v, w, X, r, d), NEW t \in X
  PROVE  /\ Lower(t, d) \in X /\ Upper(t, d) \in X
         /\ t = Lower(t, d) \/ t = Upper(t, d)
         /\ Together(d + 1, Lower(t, d), t) /\ Together(d + 1, Upper(t, d), t)
         /\ w[t] \in {v[Lower(t, d)], v[Upper(t, d)]}
         /\ (t = Lower(t, d) <=> Ascends(r, t))
              => w[t] <= v[Lower(t, d)] /\ w[t] <= v[Upper(t, d)]
         /\ ~(t = Lower(t, d) <=> Ascends(r, t))
              => v[Lower(t, d)] <= w[t] /\ v[Upper(t, d)] <= w[t]
<1> DEFINE a == Lower(t, d)
           b == Upper(t, d)
           u == Partner(t, d)
           D == 2 ^ d
<1>1. t \in Nat /\ D \in Nat \ {0} /\ b = a + D
  BY PowerOfTwo DEF Upper
<1>2. {t, u} = {a, b} /\ Together(d + 1, u, t)
  BY <1>1, Pairs DEF Together, Upper
<1>3. a \in X /\ b \in X /\ PairSorted(v, w, r, a, b)
  BY DEF PairsSorted
<1> HIDE DEF a, b, u, D
<1>4. t = a \/ t = b
  BY <1>2
<1>5. Together(d + 1, a, t) /\ Together(d + 1, b, t)
  <2>1. Together(d + 1, t, t)
    BY DEF Together
  <2> QED BY <1>2, <2>1
<1>6. Together(r, a, t)
  <2> DEFINE e == d + 1
  <2>1. e \in Nat /\ e <= r /\ a \in Nat
    BY <1>3
  <2>2. Together(e, a, t)
    BY <1>5
  <2> HIDE DEF e
  <2> QED BY <1>1, <2>1, <2>2, PartOfRun
<1>7. Ascends(r, a) <=> Ascends(r, t)
  BY <1>6 DEF Ascends, Together
<1>8. /\ v[a] \in Int /\ v[b] \in Int /\ w[a] \in Int /\ w[b] \in Int /\ a # b
  BY <1>1, <1>3 DEF Numbers
<1>9. /\ IF Ascends(r, t) THEN w[a] <= w[b] ELSE w[b] <= w[a]
      /\ (w[a] = v[a] /\ w[b] = v[b]) \/ (w[a] = v[b] /\ w[b] = v[a])
  BY <1>3, <1>7 DEF PairSorted, InOrderOf
<1>10. /\ w[t] \in {v[a], v[b]}
       /\ (t = a <=> Ascends(r, t)) => w[t] <= v[a] /\ w[t] <= v[b]
       /\ ~(t = a <=> Ascends(r, t)) => v[a] <= w[t] /\ v[b] <= w[t]
  <2>1. CASE t = a
    BY <1>8, <1>9, <2>1
  <2>2. CASE t = b
    BY <1>8, <1>9, <2>2
  <2> QED BY <1>4, <2>1, <2>2
<1> QED BY <1>3, <1>4, <1>5, <1>10 DEF a, b

\* One step of the network, on cells that are exchanged among themselves: parts
\* are halved, and put in order.
LEMMA HalvesTurnOnce ==
  ASSUME NEW X \in SUBSET Nat, NEW v, NEW w, Numbers(v, X), Numbers(w, X),
         NEW r \in Nat, NEW d \in Nat, d < r,
         PairsSorted(v, w, X, r, d), BitonicOn(v, X, d + 1)
  PROVE  BitonicOn(w, X, d)
<1> SUFFICES ASSUME NEW i \in X, NEW j \in X, NEW k \in X, NEW l \in X,
                    i < j, j < k, k < l, Together(d, i, l)
             PROVE  ~Zigzag(w[i], w[j], w[k], w[l])
  BY DEF BitonicOn
<1> DEFINE D == 2 ^ d
           Lo(t) == Lower(t, d)
           Up(t) == Upper(t, d)
<1>1. D \in Nat \ {0} /\ d \in Nat /\ d + 1 \in Nat /\ i \in Nat /\ j \in Nat /\ k \in Nat /\ l \in Nat
      /\ d <= d + 1 /\ d <= r
  BY PowerOfTwo
<1>2. Together(d, i, j) /\ Together(d, j, l) /\ Together(d, i, k) /\ Together(d, k, l)
  <2>1. i <= j /\ j <= l /\ i <= k /\ k <= l
    BY <1>1
  <2> QED BY <1>1, <2>1, PartConvex
<1>3. Together(d + 1, i, l)
  <2> DEFINE e == d + 1
  <2>1. e \in Nat /\ d <= e
    BY <1>1
  <2> HIDE DEF e
  <2>2. Together(e, i, l)
    BY <1>1, <2>1, PartOfRun
  <2> QED BY <2>2 DEF e
<1>4. Together(r, i, j) /\ Together(r, i, k) /\ Together(r, i, l)
  BY <1>1, <1>2, PartOfRun
<1>5. /\ Ascends(r, j) <=> Ascends(r, i)
      /\ Ascends(r, k) <=> Ascends(r, i)
      /\ Ascends(r, l) <=> Ascends(r, i)
  BY <1>4 DEF Ascends, Together
<1>6. l < i + D
  BY <1>1, Halves
<1>7. \A t \in {j, k, l} : Lo(i) = i <=> Lo(t) = t
  <2>1. i < j /\ i < k /\ i < l
    BY <1>1
  <2> QED BY <1>1, <1>2, <2>1, Halves
<1>8. ASSUME NEW t \in {i, j, k, l}
      PROVE  /\ Lo(t) \in X /\ Up(t) \in X /\ Up(t) = Lo(t) + D
             /\ t = Lo(t) \/ t = Up(t)
             /\ Together(d + 1, Lo(t), t) /\ Together(d + 1, Up(t), t)
             /\ w[t] \in {v[Lo(t)], v[Up(t)]}
             /\ (t = Lo(t) <=> Ascends(r, t)) => w[t] <= v[Lo(t)] /\ w[t] <= v[Up(t)]
             /\ ~(t = Lo(t) <=> Ascends(r, t)) => v[Lo(t)] <= w[t] /\ v[Up(t)] <= w[t]
  <2>1. t \in X
    OBVIOUS
  <2>2. Up(t) = Lo(t) + D
    BY DEF Upper
  <2>3. /\ Lower(t, d) \in X /\ Upper(t, d) \in X
        /\ t = Lower(t, d) \/ t = Upper(t, d)
        /\ Together(d + 1, Lower(t, d), t) /\ Together(d + 1, Upper(t, d), t)
        /\ w[t] \in {v[Lower(t, d)], v[Upper(t, d)]}
        /\ (t = Lower(t, d) <=> Ascends(r, t))
             => w[t] <= v[Lower(t, d)] /\ w[t] <= v[Upper(t, d)]
        /\ ~(t = Lower(t, d) <=> Ascends(r, t))
             => v[Lower(t, d)] <= w[t] /\ v[Upper(t, d)] <= w[t]
    BY <2>1, Picked
  <2> QED BY <2>2, <2>3
<1> HIDE DEF D, Lo, Up
<1>9. /\ Lo(i) < Lo(j) /\ Lo(j) < Lo(k) /\ Lo(k) < Lo(l)
      /\ Lo(l) < Up(i) /\ Up(i) < Up(j) /\ Up(j) < Up(k) /\ Up(k) < Up(l)
  <2>1. Lo(i) \in Nat /\ Lo(j) \in Nat /\ Lo(k) \in Nat /\ Lo(l) \in Nat
    BY <1>8
  <2>2. /\ Up(i) = Lo(i) + D /\ Up(j) = Lo(j) + D /\ Up(k) = Lo(k) + D /\ Up(l) = Lo(l) + D
    BY <1>8
  <2>3. CASE Lo(i) = i
    <3>1. Lo(j) = j /\ Lo(k) = k /\ Lo(l) = l
      BY <1>7, <2>3
    <3> QED BY <1>1, <1>6, <2>2, <2>3, <3>1
  <2>4. CASE Lo(i) # i
    <3>1. Up(i) = i /\ Up(j) = j /\ Up(k) = k /\ Up(l) = l
      BY <1>7, <1>8, <2>4
    <3> QED BY <1>1, <1>6, <2>1, <2>2, <3>1
  <2> QED BY <2>3, <2>4
<1>10. \A p, q \in {Lo(i), Lo(j), Lo(k), Lo(l), Up(i), Up(j), Up(k), Up(l)} : Together(d + 1, p, q)
  <2>1. \A t \in {i, j, k, l} : Together(d + 1, t, l)
    <3>1. i <= j /\ j <= l /\ i <= k /\ k <= l
      BY <1>1
    <3> DEFINE e == d + 1
    <3>2. e \in Nat /\ Together(e, i, l)
      BY <1>1, <1>3
    <3> HIDE DEF e
    <3>3. Together(e, j, l)
      BY <1>1, <3>1, <3>2, PartConvex
    <3>4. Together(e, k, l)
      BY <1>1, <3>1, <3>2, PartConvex
    <3>5. Together(e, l, l)
      BY DEF Together
    <3> QED BY <3>2, <3>3, <3>4, <3>5 DEF e
  <2>2. \A t \in {i, j, k, l} : Together(d + 1, Lo(t), l) /\ Together(d + 1, Up(t), l)
    BY <1>8, <2>1 DEF Together
  <2>3. \A p \in {Lo(i), Lo(j), Lo(k), Lo(l), Up(i), Up(j), Up(k), Up(l)} : Together(d + 1, p, l)
    BY <2>2
  <2> QED BY <2>3 DEF Together
<1>11. ASSUME NEW p \in {Lo(i), Lo(j), Lo(k), Lo(l), Up(i), Up(j), Up(k), Up(l)},
              NEW q \in {Lo(i), Lo(j), Lo(k), Lo(l), Up(i), Up(j), Up(k), Up(l)},
              NEW x \in {Lo(i), Lo(j), Lo(k), Lo(l), Up(i), Up(j), Up(k), Up(l)},
              NEW y \in {Lo(i), Lo(j), Lo(k), Lo(l), Up(i), Up(j), Up(k), Up(l)},
              p < q, q < x, x < y
       PROVE  ~Zigzag(v[p], v[q], v[x], v[y])
  <2>1. p \in X /\ q \in X /\ x \in X /\ y \in X
    BY <1>8
  <2> QED BY <1>10, <1>11, <2>1 DEF BitonicOn
<1>12. /\ Lo(i) \in Nat /\ Lo(j) \in Nat /\ Lo(k) \in Nat /\ Lo(l) \in Nat
       /\ Up(i) \in Nat /\ Up(j) \in Nat /\ Up(k) \in Nat /\ Up(l) \in Nat
  BY <1>8
<1>13. /\ ~Zigzag(v[Lo(i)], v[Lo(j)], v[Lo(k)], v[Lo(l)])
       /\ ~Zigzag(v[Lo(j)], v[Lo(k)], v[Lo(l)], v[Up(i)])
       /\ ~Zigzag(v[Up(i)], v[Up(j)], v[Up(k)], v[Up(l)])
  BY <1>9, <1>11
<1>14. ~Zigzag(v[Lo(i)], v[Up(j)], v[Up(k)], v[Up(l)])
  <2>1. Lo(i) < Up(j)
    BY <1>9, <1>12
  <2> QED BY <1>9, <1>11, <2>1
<1>15. ~Zigzag(v[Lo(i)], v[Lo(j)], v[Lo(k)], v[Up(l)])
  <2>1. Lo(k) < Up(l)
    BY <1>9, <1>12
  <2> QED BY <1>9, <1>11, <2>1
<1>16. ~Zigzag(v[Lo(k)], v[Lo(l)], v[Up(i)], v[Up(j)])
  BY <1>9, <1>11, <1>12
<1>17. /\ v[Lo(i)] \in Int /\ v[Lo(j)] \in Int /\ v[Lo(k)] \in Int /\ v[Lo(l)] \in Int
       /\ v[Up(i)] \in Int /\ v[Up(j)] \in Int /\ v[Up(k)] \in Int /\ v[Up(l)] \in Int
  BY <1>8 DEF Numbers
<1>18. CASE i = Lo(i) <=> Ascends(r, i)
  <2>1. \A t \in {i, j, k, l} : w[t] <= v[Lo(t)] /\ w[t] <= v[Up(t)]
    BY <1>5, <1>7, <1>8, <1>18
  <2>2. \A t \in {i, j, k, l} : w[t] \in {v[Lo(t)], v[Up(t)]}
    BY <1>8
  <2> QED BY <1>13, <1>14, <1>15, <1>16, <1>17, <2>1, <2>2, FourPairs
<1>19. CASE ~(i = Lo(i) <=> Ascends(r, i))
  <2>1. \A t \in {i, j, k, l} : v[Lo(t)] <= w[t] /\ v[Up(t)] <= w[t]
    BY <1>5, <1>7, <1>8, <1>19
  <2>2. \A t \in {i, j, k, l} : w[t] \in {v[Lo(t)], v[Up(t)]}
    BY <1>8
  <2> QED BY <1>13, <1>14, <1>15, <1>16, <1>17, <2>1, <2>2, FourPairs
<1> QED BY <1>18, <1>19

LEMMA HalvesInOrder ==
  ASSUME NEW X \in SUBSET Nat, NEW v, NEW w, Numbers(v, X), Numbers(w, X),
         NEW r \in Nat, NEW d \in Nat, d < r,
         PairsSorted(v, w, X, r, d), Merged(v, X, r, d + 1)
  PROVE  PartsOrdered(w, X, r, d)
<1> SUFFICES ASSUME NEW b \in X, NEW c \in X, b < c, Together(r, b, c), ~Together(d, b, c)
             PROVE  InOrderOf(w, r, b, c)
  BY DEF PartsOrdered
<1> DEFINE D == 2 ^ d
           e == d + 1
           Lo(t) == Lower(t, d)
           Up(t) == Upper(t, d)
<1>1. D \in Nat \ {0} /\ b \in Nat /\ c \in Nat /\ e \in Nat /\ e <= r
  BY PowerOfTwo
<1>2. ASSUME NEW t \in X
      PROVE  /\ Lo(t) \in X /\ Up(t) \in X /\ Up(t) = Lo(t) + D
             /\ t = Lo(t) \/ t = Up(t)
             /\ Together(e, Lo(t), t) /\ Together(e, Up(t), t)
             /\ w[t] \in {v[Lo(t)], v[Up(t)]}
             /\ (t = Lo(t) <=> Ascends(r, t)) => w[t] <= v[Lo(t)] /\ w[t] <= v[Up(t)]
             /\ ~(t = Lo(t) <=> Ascends(r, t)) => v[Lo(t)] <= w[t] /\ v[Up(t)] <= w[t]
  <2>1. Up(t) = Lo(t) + D
    BY DEF Upper
  <2>2. /\ Lower(t, d) \in X /\ Upper(t, d) \in X
        /\ t = Lower(t, d) \/ t = Upper(t, d)
        /\ Together(d + 1, Lower(t, d), t) /\ Together(d + 1, Upper(t, d), t)
        /\ w[t] \in {v[Lower(t, d)], v[Upper(t, d)]}
        /\ (t = Lower(t, d) <=> Ascends(r, t))
             => w[t] <= v[Lower(t, d)] /\ w[t] <= v[Upper(t, d)]
        /\ ~(t = Lower(t, d) <=> Ascends(r, t))
             => v[Lower(t, d)] <= w[t] /\ v[Upper(t, d)] <= w[t]
    BY Picked
  <2> QED BY <2>1, <2>2
<1>3. Ascends(r, c) <=> Ascends(r, b)
  BY DEF Ascends, Together
<1>4. CASE Together(e, b, c)
  <2> DEFINE a == Lo(c)
  <2>1. Lo(b) = b /\ Lo(c) # c
    BY <1>1, <1>4, Halves
  <2>2. c = a + D /\ Up(b) = b + D /\ Up(c) = c /\ a \in X /\ a \in Nat
    BY <1>2, <2>1
  <2>3. Lo(a) = a
    <3>1. Partner(c, d) \in Nat /\ Lower(Partner(c, d), d) = Lower(c, d)
          /\ {c, Partner(c, d)} = {Lower(c, d), Lower(c, d) + 2 ^ d}
      BY <1>1, Pairs
    <3>2. Partner(c, d) = Lower(c, d)
      BY <2>1, <3>1
    <3> QED BY <3>1, <3>2
  <2>4. Together(e, a, b)
    BY <1>2, <1>4, <2>2 DEF Together
  <2>5. Together(d, a, b)
    <3> SUFFICES ASSUME ~Together(d, a, b) PROVE FALSE
      OBVIOUS
    <3>1. Together(e, b, a) /\ ~Together(d, b, a) /\ a # b
      BY <2>4 DEF Together
    <3> HIDE DEF a, Lo
    <3>2. CASE a < b
      <4>1. Lower(b, d) # b
        BY <1>1, <2>2, <2>4, <3>2, Halves
      <4> QED BY <2>1, <4>1 DEF Lo
    <3>3. CASE b < a
      <4>1. Lower(a, d) # a
        BY <1>1, <2>2, <3>1, <3>3, Halves
      <4> QED BY <2>3, <4>1 DEF Lo
    <3> QED BY <1>1, <2>2, <3>1, <3>2, <3>3
  <2>6. (a < b => b < a + D) /\ (b < a => a < b + D)
    <3>1. Together(d, b, a)
      BY <2>5 DEF Together
    <3> HIDE DEF a
    <3> QED BY <1>1, <2>2, <2>5, <3>1, Halves
  <2>7. ~(v[a] < v[b] /\ v[a] < v[b + D] /\ v[c] < v[b] /\ v[c] < v[b + D])
    /\ ~(v[b] < v[a] /\ v[b] < v[c] /\ v[b + D] < v[a] /\ v[b + D] < v[c])
    <3>1. b \in X /\ b + D \in X /\ c \in X
      BY <1>2, <2>2
    <3>2. v[b] \in Int /\ v[b + D] \in Int /\ v[a] \in Int /\ v[c] \in Int
      BY <2>2, <3>1 DEF Numbers
    <3>3. \A p, q, x, y \in {a, b, c, b + D} :
            p < q /\ q < x /\ x < y => ~Zigzag(v[p], v[q], v[x], v[y])
      <4>1. \A p \in {a, b, c, b + D} : p \in X /\ Together(e, p, b)
        <5>1. Together(e, b + D, b) /\ Together(e, b, b) /\ Together(e, c, b) /\ Together(e, a, b)
          BY <1>2, <1>4, <2>2, <2>4 DEF Together
        <5> QED BY <2>2, <3>1, <5>1
      <4>2. \A p, q \in {a, b, c, b + D} : Together(e, p, q)
        BY <4>1 DEF Together
      <4> QED BY <4>1, <4>2 DEF Merged, BitonicOn
    <3> HIDE DEF a
    <3>4. CASE a = b
      BY <2>2, <3>2, <3>4
    <3>5. CASE a < b
      <4>1. a < b /\ b < c /\ c < b + D
        BY <1>1, <2>2, <2>6, <3>5
      <4>2. ~Zigzag(v[a], v[b], v[c], v[b + D])
        BY <3>3, <4>1
      <4> QED BY <3>2, <4>2 DEF Zigzag
    <3>6. CASE b < a
      <4>1. b < a /\ a < b + D /\ b + D < c
        BY <1>1, <2>2, <2>6, <3>6
      <4>2. ~Zigzag(v[b], v[a], v[b + D], v[c])
        BY <3>3, <4>1
      <4> QED BY <3>2, <4>2 DEF Zigzag
    <3> QED BY <1>1, <2>2, <3>4, <3>5, <3>6
  <2>8. /\ v[b] \in Int /\ v[b + D] \in Int /\ v[a] \in Int /\ v[c] \in Int
        /\ w[b] \in {v[b], v[b + D]} /\ w[c] \in {v[a], v[c]}
        /\ Ascends(r, b) => /\ w[b] <= v[b] /\ w[b] <= v[b + D]
                            /\ v[a] <= w[c] /\ v[c] <= w[c]
        /\ ~Ascends(r, b) => /\ v[b] <= w[b] /\ v[b + D] <= w[b]
                             /\ w[c] <= v[a] /\ w[c] <= v[c]
    <3>1. b \in X /\ b + D \in X /\ c \in X
      BY <1>2, <2>2
    <3>2. v[b] \in Int /\ v[b + D] \in Int /\ v[a] \in Int /\ v[c] \in Int
      BY <2>2, <3>1 DEF Numbers
    <3>3. /\ w[b] \in {v[b], v[b + D]}
          /\ Ascends(r, b) => w[b] <= v[b] /\ w[b] <= v[b + D]
          /\ ~Ascends(r, b) => v[b] <= w[b] /\ v[b + D] <= w[b]
      BY <1>2, <2>1, <2>2
    <3>4. /\ w[c] \in {v[a], v[c]}
          /\ Ascends(r, b) => v[a] <= w[c] /\ v[c] <= w[c]
          /\ ~Ascends(r, b) => w[c] <= v[a] /\ w[c] <= v[c]
      BY <1>2, <1>3, <2>1, <2>2
    <3> QED BY <3>2, <3>3, <3>4
  <2> HIDE DEF a
  <2>9. IF Ascends(r, b) THEN w[b] <= w[c] ELSE w[c] <= w[b]
    BY <2>7, <2>8
  <2> QED BY <2>9 DEF InOrderOf
<1>5. CASE ~Together(e, b, c)
  <2>1. PICK p \in X : w[b] = v[p] /\ Together(e, p, b)
    BY <1>2
  <2>2. PICK q \in X : w[c] = v[q] /\ Together(e, q, c)
    BY <1>2
  <2>3. p \in Nat /\ q \in Nat
    BY <2>1, <2>2
  <2> HIDE DEF e
  <2>4. p < q
    BY <1>1, <1>5, <2>1, <2>2, <2>3, PartsInLine
  <2>5. Together(r, p, b) /\ Together(r, q, c)
    BY <1>1, <2>1, <2>2, <2>3, PartOfRun
  <2>6. Together(r, p, q) /\ (Ascends(r, p) <=> Ascends(r, b))
    BY <2>5 DEF Together, Ascends
  <2>7. ~Together(e, p, q)
    BY <1>5, <2>1, <2>2 DEF Together
  <2>8. InOrderOf(v, r, p, q)
    BY <2>4, <2>6, <2>7 DEF Merged, PartsOrdered, e
  <2> QED BY <2>1, <2>2, <2>6, <2>8 DEF InOrderOf
<1> QED BY <1>4, <1>5

LEMMA HalfCleaned ==
  ASSUME NEW X \in SUBSET Nat, NEW v, NEW w, Numbers(v, X), Numbers(w, X),
         NEW r \in Nat, NEW d \in Nat, d < r,
         PairsSorted(v, w, X, r, d), Merged(v, X, r, d + 1)
  PROVE  Merged(w, X, r, d)
BY HalvesTurnOnce, HalvesInOrder DEF Merged

\* An exchange among the cells of X, within parts of 2^m cells, leaves the order of
\* these parts.
LEMMA CoarseStays ==
  ASSUME NEW T \in SUBSET Nat, NEW X \in SUBSET T, NEW v, NEW w, Numbers(v, T), Numbers(w, T),
         NEW r \in Nat, NEW m \in Nat, NEW d \in Nat, d < m, m <= r,
         PairsSorted(v, w, X, r, d), \A t \in T \ X : w[t] = v[t],
         PartsOrdered(v, T, r, m)
  PROVE  PartsOrdered(w, T, r, m)
<1> SUFFICES ASSUME NEW b \in T, NEW c \in T, b < c, Together(r, b, c), ~Together(m, b, c)
             PROVE  InOrderOf(w, r, b, c)
  BY DEF PartsOrdered
<1>1. ASSUME NEW t \in T
      PROVE  \E p \in T : w[t] = v[p] /\ Together(m, p, t) /\ Together(r, p, t)
  <2>1. CASE t \in X
    <3> DEFINE e == d + 1
    <3>1. Numbers(v, X) /\ Numbers(w, X) /\ X \in SUBSET Nat /\ d < r
      BY DEF Numbers
    <3>2. /\ Lower(t, d) \in X /\ Upper(t, d) \in X
          /\ Together(e, Lower(t, d), t) /\ Together(e, Upper(t, d), t)
          /\ w[t] \in {v[Lower(t, d)], v[Upper(t, d)]}
      BY <2>1, <3>1, Picked
    <3>3. PICK p \in X : w[t] = v[p] /\ Together(e, p, t)
      BY <3>2
    <3>4. e \in Nat /\ e <= m /\ e <= r /\ p \in Nat /\ t \in Nat
      BY <2>1, <3>3
    <3> HIDE DEF e
    <3>5. Together(m, p, t)
      BY <3>3, <3>4, PartOfRun
    <3>6. Together(r, p, t)
      BY <3>3, <3>4, PartOfRun
    <3> QED BY <3>3, <3>5, <3>6
  <2>2. CASE t \notin X
    BY <2>2 DEF Together
  <2> QED BY <2>1, <2>2
<1>2. PICK p \in T : w[b] = v[p] /\ Together(m, p, b) /\ Together(r, p, b)
  BY <1>1
<1>3. PICK q \in T : w[c] = v[q] /\ Together(m, q, c) /\ Together(r, q, c)
  BY <1>1
<1>4. b \in Nat /\ c \in Nat /\ p \in Nat /\ q \in Nat
  OBVIOUS
<1>5. p < q
  BY <1>2, <1>3, <1>4, PartsInLine
<1>6. Together(r, p, q) /\ ~Together(m, p, q) /\ (Ascends(r, p) <=> Ascends(r, b))
  BY <1>2, <1>3 DEF Together, Ascends
<1>7. InOrderOf(v, r, p, q)
  BY <1>5, <1>6 DEF PartsOrdered
<1> QED BY <1>2, <1>3, <1>6, <1>7 DEF InOrderOf

\* Within parts of one cell there is nothing to order: runs are sorted.
LEMMA PartsOfOne ==
  ASSUME NEW b \in Nat, NEW c \in Nat
  PROVE  Together(0, b, c) <=> b = c
<1>1. 2 ^ 0 = 1
  BY PowerOfTwo
<1>2. b \div 1 = b /\ c \div 1 = c
  OBVIOUS
<1> QED BY <1>1, <1>2 DEF Together

\* A run upwards and the next one, downwards, turn once.
LEMMA RunsMakeBitonic ==
  ASSUME NEW X \in SUBSET Nat, NEW v, Numbers(v, X), NEW r \in Nat, PartsOrdered(v, X, r, 0)
  PROVE  Merged(v, X, r + 1, r + 1)
<1>1. PartsOrdered(v, X, r + 1, r + 1)
  BY DEF PartsOrdered
<1>2. ASSUME NEW b \in X, NEW c \in X, b < c, Together(r, b, c)
      PROVE  IF Ascends(r, b) THEN v[b] <= v[c] ELSE v[c] <= v[b]
  <2>1. b \in Nat /\ c \in Nat /\ b # c
    BY <1>2
  <2>2. ~Together(0, b, c)
    BY <2>1, PartsOfOne
  <2> QED BY <1>2, <2>2 DEF PartsOrdered, InOrderOf
<1>3. ASSUME NEW i \in X, NEW j \in X, NEW k \in X, NEW l \in X,
             i < j, j < k, k < l, Together(r + 1, i, l)
      PROVE  ~Zigzag(v[i], v[j], v[k], v[l])
  <2> DEFINE R == 2 ^ r
             E == 2 ^ (r + 1)
             P(t) == t \div 2 ^ r
  <2>1. R \in Nat \ {0} /\ E = R * 2
    BY PowerOfTwo
  <2>2. /\ i \in Nat /\ j \in Nat /\ k \in Nat /\ l \in Nat
        /\ i <= j /\ j <= k /\ k <= l
    BY <1>3
  <2>3. \A t \in Nat : t \div E = P(t) \div 2 /\ P(t) \in Nat
    <3>1. \A t \in Nat : t \div E = (t \div R) \div 2 /\ t \div R \in Nat
      <4> HIDE DEF R, E
      <4>1. \A t \in Nat : t \div E = (t \div R) \div 2
        BY <2>1, DivDiv
      <4>2. \A t \in Nat : t \div R \in Nat
        BY <2>1, DivMod
      <4> QED BY <4>1, <4>2
    <3> QED BY <3>1
  <2>4. P(i) <= P(j) /\ P(j) <= P(k) /\ P(k) <= P(l)
    <3>1. i \div R <= j \div R /\ j \div R <= k \div R /\ k \div R <= l \div R
      <4> HIDE DEF R
      <4> QED BY <2>1, <2>2, DivGrows
    <3> QED BY <3>1
  <2>5. P(i) \div 2 = P(l) \div 2
    <3>1. i \div E = l \div E
      BY <1>3 DEF Together
    <3> QED BY <2>2, <2>3, <3>1
  <2>6. \A b, c \in X : (Together(r, b, c) <=> P(b) = P(c)) /\ (Ascends(r, b) <=> P(b) % 2 = 0)
    BY DEF Together, Ascends
  <2>7. P(i) \in Nat /\ P(j) \in Nat /\ P(k) \in Nat /\ P(l) \in Nat
    BY <2>2, <2>3
  <2> HIDE DEF P, R, E
  <2>8. v[i] \in Int /\ v[j] \in Int /\ v[k] \in Int /\ v[l] \in Int
    BY DEF Numbers
  <2>9. CASE P(j) = P(k) /\ Ascends(r, j)
    <3>1. v[j] <= v[k]
      BY <1>2, <1>3, <2>6, <2>9
    <3>2. P(i) = P(j)
      <4>1. P(j) % 2 = 0
        BY <2>6, <2>9
      <4> QED BY <2>4, <2>5, <2>7, <4>1
    <3>3. v[i] <= v[j]
      BY <1>2, <1>3, <2>6, <2>9, <3>2
    <3> QED BY <2>8, <3>1, <3>3 DEF Zigzag
  <2>10. CASE P(j) = P(k) /\ ~Ascends(r, j)
    <3>1. v[k] <= v[j]
      BY <1>2, <1>3, <2>6, <2>10
    <3>2. P(k) = P(l)
      <4>1. P(j) % 2 # 0
        BY <2>6, <2>10
      <4> QED BY <2>4, <2>5, <2>7, <2>10, <4>1
    <3>3. v[l] <= v[k]
      BY <1>2, <1>3, <2>6, <2>10, <3>2
    <3> QED BY <2>8, <3>1, <3>3 DEF Zigzag
  <2>11. CASE P(j) # P(k)
    <3>1. P(i) = P(j) /\ P(k) = P(l) /\ P(j) % 2 = 0 /\ P(k) % 2 # 0
      BY <2>4, <2>5, <2>7, <2>11
    <3>2. v[i] <= v[j]
      BY <1>2, <1>3, <2>6, <3>1
    <3>3. v[l] <= v[k]
      BY <1>2, <1>3, <2>6, <3>1
    <3> QED BY <2>8, <3>2, <3>3 DEF Zigzag
  <2> QED BY <2>9, <2>10, <2>11
<1> QED BY <1>1, <1>3 DEF Merged, BitonicOn

\* What parts are in, and how they turn, depends on the values of the cells alone.
LEMMA MergedAgrees ==
  ASSUME NEW X, NEW v, NEW w, \A t \in X : w[t] = v[t], NEW r, NEW m
  PROVE  /\ PartsOrdered(v, X, r, m) => PartsOrdered(w, X, r, m)
         /\ Merged(v, X, r, m) => Merged(w, X, r, m)
BY DEF PartsOrdered, InOrderOf, Merged, BitonicOn

LEMMA NumberType ==
  ASSUME NEW d \in DTypes
  PROVE  /\ \A w \in 0 .. Words(d) - 1 : Number(d, w) \in Int
         /\ ~IsNaN(d, MaxWord(d))
<1>1. /\ Words(d) \in Nat \ {0} /\ SignBit(d) \in Nat \ {0}
      /\ d = "float32" => SignBit(d) >= 2
  BY WordType
<1>2. ASSUME NEW w \in 0 .. Words(d) - 1 PROVE Number(d, w) \in Int
  <2>1. d \in {"uint8", "int8", "int32", "float32"} /\ w \in Int
    BY <1>1 DEF DTypes
  <2>2. \/ d = "uint8" \/ w < SignBit(d)
        \/ d \in {"int8", "int32"} /\ w >= SignBit(d) /\ d # "uint8"
        \/ d = "float32" /\ w >= SignBit(d)
    BY <1>1, <2>1
  <2>3. Number(d, w) \in {w, w - Words(d), SignBit(d) - w}
    BY <1>1, <2>1, <2>2 DEF Number
  <2> QED BY <1>1, <2>1, <2>3
<1>3. ~IsNaN(d, MaxWord(d))
  <2> SUFFICES ASSUME d = "float32" PROVE MaxWord(d) % SignBit(d) # SignBit(d) - 1
    BY DEF IsNaN
  <2>1. MaxWord(d) = SignBit(d) - 2
    BY DEF MaxWord
  <2> DEFINE b == SignBit(d)
  <2>2. b \in Nat \ {0} /\ b >= 2
    BY <1>1
  <2> HIDE DEF b
  <2>3. (b - 2) % b = b - 2
    <3> DEFINE x == b - 2
               q == x \div b
               r == x % b
    <3>1. x \in Nat /\ x < b
      BY <2>2
    <3> HIDE DEF x
    <3>2. q = 0 /\ q \in Nat /\ r \in 0 .. b - 1 /\ x = q * b + r
      BY <2>2, <3>1, DivSmall, DivMod
    <3> HIDE DEF q, r
    <3>3. x = r
      BY <2>2, <3>1, <3>2
    <3> QED BY <3>3 DEF x, r
  <2> QED BY <2>1, <2>2, <2>3 DEF b
<1> QED BY <1>2, <1>3

\* Comparing and exchanging sorts the pairs, when no word is NaN.
LEMMA ExchangeSorts ==
  ASSUME request \in Requests, NEW s \in Nat, NEW d \in Nat, NEW X \in SUBSET Nat,
         \A t \in X : Partner(t, d) \in X,
         NEW ks, \A t \in X : ks[t] \in 0 .. Words(dtype) - 1 /\ ~IsNaN(dtype, ks[t]),
         NEW v, \A t \in X : v[t] = Number(dtype, ks[t]),
         NEW w, \A t \in X : w[t] = IF Swaps(ks, t, s, d) THEN v[Partner(t, d)] ELSE v[t]
  PROVE  PairsSorted(v, w, X, s + 1, d)
<1> SUFFICES ASSUME NEW t \in X
             PROVE  /\ Lower(t, d) \in X /\ Upper(t, d) \in X
                    /\ PairSorted(v, w, s + 1, Lower(t, d), Upper(t, d))
  BY DEF PairsSorted
<1> DEFINE a == Lower(t, d)
           b == Upper(t, d)
           u == Partner(t, d)
           D == 2 ^ d
<1>1. t \in Nat /\ D \in Nat \ {0} /\ b = a + D
  BY PowerOfTwo DEF Upper
<1>2. {t, u} = {a, b} /\ u \in X /\ Lower(u, d) = a /\ a \in Nat
  BY <1>1, Pairs DEF Upper
<1>3. a # b
  <2> HIDE DEF a, b, D
  <2> QED BY <1>1, <1>2
<1>4. a \in X /\ b \in X /\ Lower(a, d) = a /\ Lower(b, d) = a
  <2> HIDE DEF b, u, D
  <2>1. (a = t \/ a = u) /\ (b = t \/ b = u)
    BY <1>2
  <2> QED BY <1>2, <2>1
<1>5. Partner(a, d) = b /\ Partner(b, d) = a
  <2>1. Partner(a, d) = a + D
    BY <1>4 DEF Partner
  <2>2. Partner(b, d) = b - D
    BY <1>3, <1>4 DEF Partner
  <2> HIDE DEF a, b, D
  <2> QED BY <1>1, <1>2, <2>1, <2>2
<1>6. /\ Swaps(ks, a, s, d) <=> IF Ascends(s + 1, a) THEN Above(dtype, ks[a], ks[b])
                                                     ELSE Above(dtype, ks[b], ks[a])
      /\ Swaps(ks, b, s, d) <=> Swaps(ks, a, s, d)
  <2>1. ks[b] = ks[a + D]
    BY <1>1
  <2> QED BY <1>4, <2>1 DEF Swaps, RunAscends, Ascends
<1>7. /\ dtype \in DTypes /\ v[a] \in Int /\ v[b] \in Int
      /\ v[a] = Number(dtype, ks[a]) /\ v[b] = Number(dtype, ks[b])
  <2>1. dtype \in DTypes
    BY RequestType
  <2>2. ks[a] \in 0 .. Words(dtype) - 1 /\ ks[b] \in 0 .. Words(dtype) - 1
    BY <1>4
  <2>3. v[a] = Number(dtype, ks[a]) /\ v[b] = Number(dtype, ks[b])
    BY <1>4
  <2> QED BY <2>1, <2>2, <2>3, NumberType
<1>8. /\ Above(dtype, ks[a], ks[b]) <=> v[a] > v[b]
      /\ Above(dtype, ks[b], ks[a]) <=> v[b] > v[a]
  <2>1. ~IsNaN(dtype, ks[a]) /\ ~IsNaN(dtype, ks[b])
    BY <1>4
  <2> QED BY <1>7, <2>1 DEF Above
<1>9. /\ w[a] = IF Swaps(ks, a, s, d) THEN v[b] ELSE v[a]
      /\ w[b] = IF Swaps(ks, b, s, d) THEN v[a] ELSE v[b]
  BY <1>4, <1>5
<1> HIDE DEF a, b, u, D
<1>10. PairSorted(v, w, s + 1, a, b)
  BY <1>6, <1>7, <1>8, <1>9 DEF PairSorted, InOrderOf
<1> QED BY <1>4, <1>10 DEF a, b

-----------------------------------------------------------------------------
(* What the network has done *)

LEMMA LocalStageIs ==
  ASSUME NEW k \in Nat, NEW s \in Nat, Steps(s) <= k, k < Steps(s) + s + 1
  PROVE  LocalStage(k) = s
<1> DEFINE r == LocalStage(k)
<1>1. r \in Nat /\ Steps(r) <= k /\ k < Steps(r) + r + 1
  BY LocalStageType
<1> HIDE DEF r
<1>2. /\ Steps(r) \in Nat /\ Steps(r + 1) = Steps(r) + r + 1
      /\ Steps(s) \in Nat /\ Steps(s + 1) = Steps(s) + s + 1
  BY <1>1, StepCount
<1>3. ~(r < s)
  <2> SUFFICES ASSUME r < s PROVE FALSE
    OBVIOUS
  <2>1. r + 1 \in Nat /\ r + 1 <= s
    BY <1>1
  <2>2. Steps(r + 1) <= Steps(s)
    BY <2>1, StepsGrow
  <2> QED BY <1>1, <1>2, <2>2
<1>4. ~(s < r)
  <2> SUFFICES ASSUME s < r PROVE FALSE
    OBVIOUS
  <2>1. s + 1 \in Nat /\ s + 1 <= r
    BY <1>1
  <2>2. Steps(s + 1) <= Steps(r)
    BY <1>1, <2>1, StepsGrow
  <2> QED BY <1>1, <1>2, <2>2
<1> QED BY <1>1, <1>3, <1>4 DEF r

\* The distance of the k-th step in the memory of a threadgroup.
LocalDistance(k) == LocalStage(k) - (k - Steps(LocalStage(k)))

\* After k steps in the memory of a threadgroup the cells of X are in sorted runs,
\* or in the parts that the stage has come to.
LocallyMerged(v, X, k) ==
  IF LocalDistance(k) = LocalStage(k)
    THEN PartsOrdered(v, X, LocalStage(k), 0)
    ELSE Merged(v, X, LocalStage(k) + 1, LocalDistance(k) + 1)

\* The steps of a stage go down to neighbours, and then the next stage begins.
LEMMA LocalDistanceType ==
  ASSUME NEW k \in Nat
  PROVE  /\ LocalStage(k) \in Nat /\ LocalDistance(k) \in 0 .. LocalStage(k)
         /\ LocalDistance(k) # 0 => /\ LocalStage(k + 1) = LocalStage(k)
                                    /\ LocalDistance(k + 1) = LocalDistance(k) - 1
         /\ LocalDistance(k) = 0 => /\ LocalStage(k + 1) = LocalStage(k) + 1
                                    /\ LocalDistance(k + 1) = LocalStage(k) + 1
<1> DEFINE s == LocalStage(k)
           d == LocalDistance(k)
<1>1. s \in Nat /\ Steps(s) <= k /\ k < Steps(s) + s + 1 /\ d = s - (k - Steps(s))
  BY LocalStageType DEF LocalDistance
<1> HIDE DEF s, d
<1>2. /\ Steps(s) \in Nat /\ Steps(s + 1) = Steps(s) + s + 1 /\ Steps(s + 1) \in Nat
  BY <1>1, StepCount
<1>3. d \in 0 .. s /\ (d = 0 <=> k + 1 = Steps(s + 1)) /\ k + 1 \in Nat /\ s + 1 \in Nat
  BY <1>1, <1>2
<1>4. d # 0 => LocalStage(k + 1) = s
  <2> DEFINE l == k + 1
  <2>1. d # 0 => l < Steps(s) + s + 1
    BY <1>1, <1>2, <1>3
  <2>2. l \in Nat /\ Steps(s) <= l
    BY <1>1, <1>2
  <2> HIDE DEF l
  <2>3. d # 0 => LocalStage(l) = s
    BY <1>1, <2>1, <2>2, LocalStageIs
  <2> QED BY <2>3 DEF l
<1>5. d = 0 => LocalStage(k + 1) = s + 1
  <2> DEFINE l == k + 1
             r == s + 1
  <2>1. d = 0 => l = Steps(r)
    BY <1>3
  <2>2. l \in Nat /\ r \in Nat /\ Steps(r) \in Nat
    BY <1>2, <1>3
  <2> HIDE DEF l, r
  <2>3. d = 0 => Steps(r) <= l /\ l < Steps(r) + r + 1
    BY <2>1, <2>2
  <2>4. d = 0 => LocalStage(l) = r
    BY <2>2, <2>3, LocalStageIs
  <2> QED BY <2>4 DEF l, r
<1>6. d # 0 => LocalDistance(k + 1) = d - 1
  BY <1>1, <1>2, <1>4 DEF LocalDistance
<1>7. d = 0 => LocalDistance(k + 1) = s + 1
  BY <1>1, <1>2, <1>3, <1>5 DEF LocalDistance
<1> QED BY <1>1, <1>3, <1>4, <1>5, <1>6, <1>7 DEF s, d

LEMMA LocalStepMerges ==
  ASSUME NEW k \in Nat, NEW X \in SUBSET Nat, NEW v, NEW w, Numbers(v, X), Numbers(w, X),
         LocallyMerged(v, X, k), PairsSorted(v, w, X, LocalStage(k) + 1, LocalDistance(k))
  PROVE  LocallyMerged(w, X, k + 1)
<1> DEFINE s == LocalStage(k)
           d == LocalDistance(k)
           r == s + 1
<1>1. s \in Nat /\ d \in Nat /\ d < r /\ r \in Nat /\ d <= s
  BY LocalDistanceType
<1>2. Merged(v, X, r, d + 1)
  <2>1. CASE d = s
    <3>1. PartsOrdered(v, X, s, 0)
      BY <2>1 DEF LocallyMerged
    <3> HIDE DEF s, d
    <3>2. Merged(v, X, s + 1, s + 1)
      BY <1>1, <3>1, RunsMakeBitonic
    <3> QED BY <2>1, <3>2
  <2>2. CASE d # s
    BY <2>2 DEF LocallyMerged
  <2> QED BY <2>1, <2>2
<1>3. PairsSorted(v, w, X, r, d)
  OBVIOUS
<1> HIDE DEF s, d, r
<1>4. Merged(w, X, r, d)
  BY <1>1, <1>2, <1>3, HalfCleaned
<1>5. CASE d # 0
  <2>1. LocalStage(k + 1) = s /\ LocalDistance(k + 1) = d - 1
    BY <1>5, LocalDistanceType DEF s, d
  <2>2. d - 1 # s /\ (d - 1) + 1 = d
    BY <1>1
  <2> QED BY <1>4, <2>1, <2>2 DEF LocallyMerged, r
<1>6. CASE d = 0
  <2>1. LocalStage(k + 1) = r /\ LocalDistance(k + 1) = r
    BY <1>6, LocalDistanceType DEF s, d, r
  <2>2. PartsOrdered(w, X, r, 0)
    BY <1>4, <1>6 DEF Merged
  <2> QED BY <2>1, <2>2 DEF LocallyMerged
<1> QED BY <1>5, <1>6

LEMMA LocalBegins ==
  ASSUME NEW X \in SUBSET Nat, NEW v
  PROVE  LocallyMerged(v, X, 0)
<1>1. Steps(0) = 0
  BY DEF Steps
<1>2. LocalStage(0) = 0
  BY <1>1, LocalStageIs
<1>3. LocalDistance(0) = 0
  BY <1>1, <1>2 DEF LocalDistance
<1>4. PartsOrdered(v, X, 0, 0)
  BY DEF PartsOrdered
<1> QED BY <1>2, <1>3, <1>4 DEF LocallyMerged

\* All stages of a block are done: the block is one run.
LEMMA LocalEnds ==
  ASSUME NEW n \in Nat, NEW X, NEW v, LocallyMerged(v, X, Steps(n))
  PROVE  PartsOrdered(v, X, n, 0)
<1>1. Steps(n) \in Nat /\ Steps(n) < Steps(n) + n + 1
  <2>1. Steps(n) \in Nat
    BY StepCount
  <2> QED BY <2>1
<1>2. LocalStage(Steps(n)) = n
  BY <1>1, LocalStageIs
<1>3. LocalDistance(Steps(n)) = n
  BY <1>1, <1>2 DEF LocalDistance
<1> QED BY <1>2, <1>3 DEF LocallyMerged

-----------------------------------------------------------------------------
(* The state of the network *)

\* No row is NaN, but for the rows that a sort takes for nulls.
Comparable(q) ==
  \A i \in DOMAIN q.words : IsNaN(q.dtype, q.words[i]) => q.op = "sort" /\ i \notin q.valid

\* The columns that go through a network hold numbers.
NetworksCompareNumbers ==
  \A q \in Requests : q.op # "groupby" /\ Len(q.words) < q.bitonic_max_n => Comparable(q)

PaddedNumbers == \A c \in Cells : ~IsNaN(dtype, Padded[c])

InNetwork == pc \in {"local", "global", "merge"}

\* Where the key of a cell is now: a block that has been loaded and not yet stored
\* is in the memory of its threadgroup.
Current(t) ==
  IF InKernel /\ at[BlockOf(t)] \in 1 .. Stored - 1 THEN lk[t]
  ELSE IF t \in Cells THEN keys[0][t] ELSE MaxWord(dtype)

Shown == [t \in Threads |-> Number(dtype, Current(t))]

\* The steps that a block has taken.
DoneIn(g) == IF at[g] = 0 THEN 0 ELSE IF at[g] = Stored THEN NetworkSize ELSE at[g] - 1

\* How far the column has been sorted.
Sorting ==
  /\ InNetwork => PaddedNumbers
  /\ pc = "local" => \A g \in Blocks : LocallyMerged(Shown, BlockThreads(g), DoneIn(g))
  /\ pc = "global" =>
       /\ Stages <= step /\ Merged(Shown, Cells, stage + 1, step + 1)
       /\ step = stage => PartsOrdered(Shown, Cells, stage, 0)
  /\ pc = "merge" =>
       /\ PartsOrdered(Shown, Threads, stage + 1, Stages)
       /\ \A g \in Blocks : Merged(Shown, BlockThreads(g), stage + 1, Stages - DoneIn(g))
  /\ pc = "wait" /\ pass = 0 =>
       \A b, c \in Cells : b < c => Number(dtype, keys[0][b]) <= Number(dtype, keys[0][c])

LEMMA NetworkIs ==
  ASSUME IInv, InKernel, NEW k \in DOMAIN BlockNetwork
  PROVE  /\ k \in 0 .. NetworkSize - 1 /\ NetworkSize \in Nat
         /\ pc = "local" => /\ BlockNetwork[k].stage = LocalStage(k)
                            /\ BlockNetwork[k].step = LocalDistance(k)
         /\ pc = "merge" => /\ BlockNetwork[k].stage = stage
                            /\ BlockNetwork[k].step = Stages - 1 - k
<1>1. DOMAIN BlockNetwork = 0 .. NetworkSize - 1
  BY DEF BlockNetwork, NetworkSize, Stages
<1>2. NetworkSize \in Nat
  BY StoredSize DEF IInv, HostTyped
<1>3. k \in 0 .. NetworkSize - 1
  BY <1>1
<1>4. CASE pc = "local"
  <2>1. BlockNetwork[k] = [stage |-> LocalStage(k), step |-> LocalDistance(k)]
    BY <1>3, <1>4 DEF BlockNetwork, NetworkSize, Steps, Stages, LocalDistance
  <2> QED BY <1>2, <1>3, <1>4, <2>1
<1>5. CASE pc = "merge"
  <2>1. BlockNetwork[k] = [stage |-> stage, step |-> Stages - 1 - k]
    BY <1>3, <1>5 DEF BlockNetwork, NetworkSize, Stages
  <2> QED BY <1>2, <1>3, <1>5, <2>1
<1> QED BY <1>4, <1>5 DEF InKernel

\* What is sorted are words, and numbers.
LEMMA CurrentType ==
  ASSUME IInv, InNetwork, PaddedNumbers, NEW t \in Threads
  PROVE  /\ Current(t) \in 0 .. Words(dtype) - 1 /\ ~IsNaN(dtype, Current(t))
         /\ Number(dtype, Current(t)) \in Int /\ Shown[t] = Number(dtype, Current(t))
<1>1. pc # "call" /\ dtype \in DTypes /\ from = 0
  BY BufferType DEF InNetwork, IInv, Phases
<1>2. /\ Size \in Nat \ {0} /\ Cells = 0 .. Size - 1
      /\ keys[0] \in [Cells -> 0 .. Words(dtype) - 1] /\ indices[0] \in [Cells -> Cells]
      /\ Whole(Size, Padded, keys[0], indices[0])
  BY <1>1, BufferType
<1>3. /\ MaxWord(dtype) \in 0 .. Words(dtype) - 1 /\ ~IsNaN(dtype, MaxWord(dtype))
      /\ \A w \in 0 .. Words(dtype) - 1 : Number(dtype, w) \in Int
  BY <1>1, MaxWordIsLargest, NumberType
<1>4. Current(t) \in 0 .. Words(dtype) - 1 /\ ~IsNaN(dtype, Current(t))
  <2>1. CASE InKernel /\ at[BlockOf(t)] \in 1 .. Stored - 1
    <3>1. BlockOf(t) \in Blocks /\ lk \in [Threads -> 0 .. Words(dtype) - 1]
      BY <2>1, KernelType
    <3>2. BlockWhole(BlockOf(t))
      BY <2>1, <3>1 DEF IInv, BlocksWhole
    <3>3. ~IsNaN(dtype, lk[t])
      BY <1>3, <3>2 DEF BlockWhole, PaddedNumbers
    <3> QED BY <2>1, <3>1, <3>3 DEF Current
  <2>2. CASE ~(InKernel /\ at[BlockOf(t)] \in 1 .. Stored - 1)
    <3>1. CASE t \in Cells
      <4>1. keys[0][t] \in 0 .. Words(dtype) - 1 /\ keys[0][t] = Padded[indices[0][t]]
            /\ indices[0][t] \in Cells
        BY <1>2, <3>1 DEF Whole
      <4> QED BY <2>2, <3>1, <4>1 DEF Current, PaddedNumbers
    <3>2. CASE t \notin Cells
      BY <1>3, <2>2, <3>2 DEF Current
    <3> QED BY <3>1, <3>2
  <2> QED BY <2>1, <2>2
<1> QED BY <1>3, <1>4 DEF Shown

LEMMA ThreadsAreCells ==
  ASSUME request \in Requests, Stages <= NumStages
  PROVE  Threads = Cells
<1> DEFINE B == BlockSize
           F == 2 ^ (NumStages - Stages)
           m == (Size + B - 1) \div B
<1>1. Stages \in Nat /\ NumStages \in Nat /\ Size = 2 ^ NumStages /\ Cells = 0 .. Size - 1
  BY RequestType, CellType DEF Cells
<1>2. NumStages - Stages \in Nat /\ Stages + (NumStages - Stages) = NumStages
  BY <1>1
<1>3. B \in Nat \ {0} /\ F \in Nat \ {0} /\ Size = B * F
  <2>1. B = 2 ^ Stages
    BY DEF BlockSize, Stages
  <2> QED BY <1>1, <1>2, <2>1, PowerOfTwo, PowerOfSum
<1>4. m = F
  <2> HIDE DEF B, F
  <2> DEFINE x == Size + B - 1
             q == x \div B
             r == x % B
  <2>1. x \in Nat /\ x = F * B + (B - 1) /\ B - 1 \in 0 .. B - 1
    BY <1>3
  <2> HIDE DEF x
  <2>2. q \in Nat /\ r \in 0 .. B - 1 /\ x = q * B + r
    BY <1>3, <2>1, DivMod
  <2> HIDE DEF q, r
  <2>3. q = F
    BY <1>3, <2>1, <2>2, DivUnique
  <2> QED BY <2>3 DEF q, x
<1>5. Cardinality(Blocks) = F
  <2>1. Blocks = 0 .. F - 1
    BY <1>4 DEF Blocks
  <2> HIDE DEF F
  <2>2. Cardinality(0 .. F - 1) = IF 0 > F - 1 THEN 0 ELSE (F - 1) - 0 + 1
    BY <1>3, FS_Interval
  <2> QED BY <1>3, <2>1, <2>2
<1>6. Threads = 0 .. F * B - 1
  BY <1>5 DEF Threads
<1>7. F * B = Size
  <2> HIDE DEF F, B
  <2> QED BY <1>3
<1> QED BY <1>1, <1>6, <1>7

\* A step of a kernel that leaves every key where it is.
LEMMA KeysStay ==
  ASSUME IInv, Sorting, InKernel,
         UNCHANGED <<request, pc, stage, step>>,
         Shown' = Shown, \A g \in Blocks : DoneIn(g)' = DoneIn(g)
  PROVE  Sorting'
<1>1. /\ dtype' = dtype /\ Cells' = Cells /\ Padded' = Padded /\ Blocks' = Blocks
      /\ Threads' = Threads /\ BlockSize' = BlockSize /\ Stages' = Stages
  BY SameColumn
<1>2. \A g : BlockThreads(g)' = BlockThreads(g)
  BY <1>1 DEF BlockThreads, BlockOf
<1>3. pc \in {"local", "merge"} /\ InNetwork
  BY DEF InKernel, InNetwork
<1>4. PaddedNumbers'
  BY <1>1, <1>3 DEF Sorting, PaddedNumbers
<1>5. CASE pc = "local"
  <2>1. \A g \in Blocks : LocallyMerged(Shown, BlockThreads(g), DoneIn(g))
    BY <1>5 DEF Sorting
  <2>2. (\A g \in Blocks : LocallyMerged(Shown, BlockThreads(g), DoneIn(g)))'
    BY <1>1, <1>2, <2>1
  <2> QED BY <1>4, <1>5, <2>2 DEF Sorting
<1>6. CASE pc = "merge"
  <2>1. /\ PartsOrdered(Shown, Threads, stage + 1, Stages)
        /\ \A g \in Blocks : Merged(Shown, BlockThreads(g), stage + 1, Stages - DoneIn(g))
    BY <1>6 DEF Sorting
  <2>2. (/\ PartsOrdered(Shown, Threads, stage + 1, Stages)
         /\ \A g \in Blocks : Merged(Shown, BlockThreads(g), stage + 1, Stages - DoneIn(g)))'
    BY <1>1, <1>2, <2>1
  <2> QED BY <1>4, <1>6, <2>2 DEF Sorting
<1> QED BY <1>3, <1>5, <1>6

LEMMA KernelStays ==
  ASSUME UNCHANGED <<request, pc, stage>>
  PROVE  /\ dtype' = dtype /\ Cells' = Cells /\ Size' = Size /\ Padded' = Padded
         /\ Blocks' = Blocks /\ Threads' = Threads /\ Stages' = Stages /\ NumStages' = NumStages
         /\ Stored' = Stored /\ NetworkSize' = NetworkSize
         /\ (InKernel' <=> InKernel)
         /\ \A t : BlockOf(t)' = BlockOf(t)
         /\ \A g : BlockThreads(g)' = BlockThreads(g)
<1>1. /\ dtype' = dtype /\ Cells' = Cells /\ Size' = Size /\ Padded' = Padded
      /\ Blocks' = Blocks /\ Threads' = Threads /\ Stages' = Stages /\ NumStages' = NumStages
      /\ BlockSize' = BlockSize
  BY SameColumn
<1>2. Stored' = Stored
  <2>1. BlockNetwork' = BlockNetwork
    BY DEF BlockNetwork
  <2> QED BY <2>1 DEF Stored
<1>3. NetworkSize' = NetworkSize /\ (InKernel' <=> InKernel)
  BY <1>1 DEF NetworkSize, InKernel
<1>4. \A t : BlockOf(t)' = BlockOf(t)
  BY <1>1 DEF BlockOf
<1>5. \A g : BlockThreads(g)' = BlockThreads(g)
  BY <1>1, <1>4 DEF BlockThreads
<1> QED BY <1>1, <1>2, <1>3, <1>4, <1>5

LEMMA LoadBlockSorts ==
  ASSUME IInv, Sorting, NEW g \in Blocks, LoadBlock(g)
  PROVE  Sorting'
<1>1. /\ InKernel /\ at[g] = 0 /\ at' = [at EXCEPT ![g] = 1]
      /\ UNCHANGED <<request, pc, keys, stage, step>>
      /\ lk' = [t \in Threads |->
                  IF BlockOf(t) # g THEN lk[t]
                  ELSE IF t < Size THEN keys[0][t] ELSE MaxWord(dtype)]
  BY DEF LoadBlock
<1>2. /\ Size \in Nat /\ Cells = 0 .. Size - 1
      /\ \A t \in Threads : t \in Nat /\ BlockOf(t) \in Blocks
      /\ Stored \in Nat /\ Stored >= 2 /\ at \in [Blocks -> 0 .. Stored]
  BY <1>1, KernelType
<1>3. /\ dtype' = dtype /\ Cells' = Cells /\ Threads' = Threads
      /\ Stored' = Stored /\ NetworkSize' = NetworkSize /\ InKernel'
      /\ \A t : BlockOf(t)' = BlockOf(t)
  BY <1>1, KernelStays
<1>4. \A h \in Blocks : at'[h] = IF h = g THEN 1 ELSE at[h]
  BY <1>1, <1>2
<1>5. ASSUME NEW t \in Threads PROVE Current(t)' = Current(t)
  <2>1. t < Size <=> t \in Cells
    BY <1>2
  <2>2. BlockOf(t) \in Blocks
    BY <1>2
  <2>3. CASE BlockOf(t) = g
    <3>1. Current(t) = IF t \in Cells THEN keys[0][t] ELSE MaxWord(dtype)
      BY <1>1, <2>3 DEF Current
    <3>2. at'[BlockOf(t)] \in 1 .. Stored - 1
      BY <1>2, <1>4, <2>3
    <3>3. Current(t)' = lk'[t]
      BY <1>3, <3>2 DEF Current
    <3>4. lk'[t] = IF t < Size THEN keys[0][t] ELSE MaxWord(dtype)
      BY <1>1, <2>3
    <3> QED BY <2>1, <3>1, <3>3, <3>4
  <2>4. CASE BlockOf(t) # g
    <3>1. at'[BlockOf(t)] = at[BlockOf(t)] /\ lk'[t] = lk[t]
      BY <1>1, <1>4, <2>2, <2>4
    <3> QED BY <1>1, <1>3, <3>1 DEF Current
  <2> QED BY <2>3, <2>4
<1>6. Shown' = Shown
  BY <1>3, <1>5 DEF Shown
<1>7. \A h \in Blocks : DoneIn(h)' = DoneIn(h)
  BY <1>1, <1>2, <1>3, <1>4 DEF DoneIn
<1> QED BY <1>1, <1>6, <1>7, KeysStay

LEMMA StoreBlockSorts ==
  ASSUME IInv, Sorting, NEW g \in Blocks, StoreBlock(g)
  PROVE  Sorting'
<1>1. /\ InKernel /\ at[g] = Stored - 1 /\ at' = [at EXCEPT ![g] = Stored]
      /\ UNCHANGED <<request, pc, stage, step, lk>>
      /\ keys' = [keys EXCEPT ![0] =
                    [c \in Cells |-> IF BlockOf(c) = g THEN lk[c] ELSE keys[0][c]]]
  BY DEF StoreBlock
<1>2. /\ Cells \subseteq Threads /\ request \in Requests
      /\ \A t \in Threads : t \in Nat /\ BlockOf(t) \in Blocks
      /\ Stored \in Nat /\ Stored >= 2 /\ at \in [Blocks -> 0 .. Stored]
  BY <1>1, KernelType
<1>3. /\ dtype' = dtype /\ Cells' = Cells /\ Threads' = Threads
      /\ Stored' = Stored /\ NetworkSize' = NetworkSize /\ InKernel'
      /\ \A t : BlockOf(t)' = BlockOf(t)
  BY <1>1, KernelStays
<1>4. \A h \in Blocks : at'[h] = IF h = g THEN Stored ELSE at[h]
  BY <1>1, <1>2
<1>5. \A c \in Cells : keys'[0][c] = IF BlockOf(c) = g THEN lk[c] ELSE keys[0][c]
  <2>1. 0 \in DOMAIN keys
    <3>1. pc # "call"
      BY <1>1 DEF InKernel
    <3> QED BY <3>1, BufferType
  <2> QED BY <1>1, <2>1
<1>6. at[g] \in 1 .. Stored - 1 /\ BlockWhole(g)
  <2>1. at[g] \in 1 .. Stored - 1
    BY <1>1, <1>2
  <2> QED BY <1>1, <2>1 DEF IInv, BlocksWhole
<1>7. ASSUME NEW t \in Threads PROVE Current(t)' = Current(t)
  <2>1. BlockOf(t) \in Blocks
    BY <1>2
  <2>2. CASE BlockOf(t) = g
    <3>1. Current(t) = lk[t]
      BY <1>1, <1>6, <2>2 DEF Current
    <3>2. at'[BlockOf(t)] \notin 1 .. Stored - 1
      BY <1>2, <1>4, <2>2
    <3>3. Current(t)' = IF t \in Cells THEN keys'[0][t] ELSE MaxWord(dtype)
      BY <1>3, <3>2 DEF Current
    <3>4. t \notin Cells => lk[t] = MaxWord(dtype)
      BY <1>6, <2>2 DEF BlockWhole
    <3> QED BY <1>5, <2>2, <3>1, <3>3, <3>4
  <2>3. CASE BlockOf(t) # g
    <3>1. at'[BlockOf(t)] = at[BlockOf(t)] /\ lk'[t] = lk[t]
          /\ (t \in Cells => keys'[0][t] = keys[0][t])
      BY <1>1, <1>4, <1>5, <2>1, <2>3
    <3> QED BY <1>1, <1>3, <3>1 DEF Current
  <2> QED BY <2>2, <2>3
<1>8. Shown' = Shown
  BY <1>3, <1>7 DEF Shown
<1>9. \A h \in Blocks : DoneIn(h)' = DoneIn(h)
  <2>1. Stored = NetworkSize + 2 /\ NetworkSize \in Nat
    BY <1>2, StoredSize
  <2> QED BY <1>1, <1>2, <1>3, <1>4, <2>1 DEF DoneIn
<1> QED BY <1>1, <1>8, <1>9, KeysStay

LEMMA StepBlockSorts ==
  ASSUME IInv, Sorting, NEW g \in Blocks, StepBlock(g)
  PROVE  Sorting'
<1> DEFINE k == at[g] - 1
           s == BlockNetwork[k].stage
           d == BlockNetwork[k].step
           X == BlockThreads(g)
           v == Shown
           w == Shown'
<1>1. /\ InKernel /\ k \in DOMAIN BlockNetwork
      /\ lk' = Exchanged(lk, lk, X, s, d)
      /\ at' = [at EXCEPT ![g] = at[g] + 1]
      /\ UNCHANGED <<request, pc, keys, stage, step>>
  BY DEF StepBlock
<1>2. /\ request \in Requests /\ Cells \subseteq Threads
      /\ \A t \in Threads : t \in Nat /\ BlockOf(t) \in Blocks
      /\ Stored \in Nat /\ Stored >= 2 /\ at \in [Blocks -> 0 .. Stored]
      /\ lk \in [Threads -> 0 .. Words(dtype) - 1]
  BY <1>1, KernelType
<1>3. /\ dtype' = dtype /\ Cells' = Cells /\ Threads' = Threads /\ Blocks' = Blocks
      /\ Stored' = Stored /\ NetworkSize' = NetworkSize /\ InKernel' /\ Stages' = Stages
      /\ Padded' = Padded
      /\ \A t : BlockOf(t)' = BlockOf(t)
      /\ \A h : BlockThreads(h)' = BlockThreads(h)
  BY <1>1, KernelStays
<1>4. \A h \in Blocks : at'[h] = IF h = g THEN at[g] + 1 ELSE at[h]
  BY <1>1, <1>2
<1>5. /\ Stored = NetworkSize + 2 /\ NetworkSize \in Nat
      /\ k \in Nat /\ k < NetworkSize
      /\ at[g] \in 1 .. Stored - 2 /\ at[g] = k + 1
  <2>1. Stored = NetworkSize + 2 /\ NetworkSize \in Nat /\ k \in 0 .. NetworkSize - 1
    BY <1>1, <1>2, StoredSize, NetworkIs
  <2>2. at[g] \in 0 .. Stored
    BY <1>2
  <2> QED BY <2>1, <2>2
<1>6. s \in Nat /\ d \in Nat /\ d < Stages /\ d <= s /\ Stages \in Nat
  BY <1>1, <1>2, NetworkType, RequestType
<1>7. InNetwork /\ PaddedNumbers /\ pc \in {"local", "merge"}
  BY <1>1 DEF InKernel, InNetwork, Sorting
<1>8. X \in SUBSET Nat /\ X \subseteq Threads /\ \A t \in Threads : t \in X <=> BlockOf(t) = g
  BY <1>2 DEF BlockThreads
<1>9. \A t \in X : Partner(t, d) \in X
  <2> SUFFICES ASSUME NEW t \in X PROVE Partner(t, d) \in X
    OBVIOUS
  <2> DEFINE u == Partner(t, d)
  <2>1. t \in Nat /\ BlockOf(t) = g
    BY <1>8
  <2> HIDE DEF s, d, X
  <2>2. u \in Nat
    BY <1>6, <2>1, Pairs
  <2>3. u \div 2 ^ Stages = t \div 2 ^ Stages
    BY <1>6, <2>1, PairInBlock
  <2> HIDE DEF u
  <2>4. BlockOf(u) = g
    BY <2>1, <2>3 DEF BlockOf, BlockSize, Stages
  <2>5. u \in Threads
    BY <1>2, <2>2, <2>4, BlockType
  <2> QED BY <1>8, <2>4, <2>5 DEF u
<1>10. ASSUME NEW t \in X
       PROVE  /\ Current(t) = lk[t] /\ Current(t)' = lk'[t]
              /\ lk'[t] = IF Swaps(lk, t, s, d) THEN lk[Partner(t, d)] ELSE lk[t]
  <2>1. t \in Threads /\ BlockOf(t) = g
    BY <1>8
  <2>2. at'[g] \in 1 .. Stored - 1 /\ at[g] \in 1 .. Stored - 1
    BY <1>4, <1>5
  <2>3. Current(t) = lk[t]
    BY <1>1, <2>1, <2>2 DEF Current
  <2>4. Current(t)' = lk'[t]
    BY <1>3, <2>1, <2>2 DEF Current
  <2>5. t \in DOMAIN lk
    BY <1>2, <2>1
  <2>6. lk'[t] = IF t \in X /\ Swaps(lk, t, s, d) THEN lk[Partner(t, d)] ELSE lk[t]
    <3> HIDE DEF s, d, X
    <3> QED BY <1>1, <2>5 DEF Exchanged
  <2> QED BY <2>3, <2>4, <2>6
<1> HIDE DEF s, d, k
<1>11. ASSUME NEW t \in Threads
       PROVE  /\ v[t] = Number(dtype, Current(t)) /\ v[t] \in Int
              /\ w[t] = Number(dtype, Current(t)')
              /\ t \notin X => w[t] = v[t]
  <2>1. v[t] = Number(dtype, Current(t)) /\ v[t] \in Int
    BY <1>7, CurrentType
  <2>2. w[t] = Number(dtype, Current(t)')
    BY <1>3 DEF Shown
  <2>3. t \notin X => Current(t)' = Current(t)
    <3> SUFFICES ASSUME t \notin X PROVE Current(t)' = Current(t)
      OBVIOUS
    <3>1. BlockOf(t) # g /\ BlockOf(t) \in Blocks
      BY <1>2, <1>8
    <3>2. at'[BlockOf(t)] = at[BlockOf(t)]
      BY <1>4, <3>1
    <3>3. lk'[t] = lk[t]
      <4>1. t \in DOMAIN lk
        BY <1>2
      <4> QED BY <1>1, <4>1 DEF Exchanged
    <3> QED BY <1>1, <1>3, <3>2, <3>3 DEF Current
  <2> QED BY <2>1, <2>2, <2>3
<1>12. \A t \in X : /\ lk[t] \in 0 .. Words(dtype) - 1 /\ ~IsNaN(dtype, lk[t])
                    /\ v[t] = Number(dtype, lk[t])
  <2> SUFFICES ASSUME NEW t \in X
               PROVE  /\ lk[t] \in 0 .. Words(dtype) - 1 /\ ~IsNaN(dtype, lk[t])
                      /\ v[t] = Number(dtype, lk[t])
    OBVIOUS
  <2>1. t \in Threads /\ Current(t) = lk[t]
    BY <1>8, <1>10
  <2> QED BY <1>7, <1>11, <2>1, CurrentType
<1>13. \A t \in X : w[t] = IF Swaps(lk, t, s, d) THEN v[Partner(t, d)] ELSE v[t]
  <2> SUFFICES ASSUME NEW t \in X
               PROVE  w[t] = IF Swaps(lk, t, s, d) THEN v[Partner(t, d)] ELSE v[t]
    OBVIOUS
  <2>1. w[t] = Number(dtype, lk'[t])
    BY <1>8, <1>10, <1>11
  <2>2. v[t] = Number(dtype, lk[t]) /\ v[Partner(t, d)] = Number(dtype, lk[Partner(t, d)])
    BY <1>9, <1>12
  <2> QED BY <1>10, <2>1, <2>2
<1> HIDE DEF X, v, w
<1>14. PairsSorted(v, w, X, s + 1, d)
  BY <1>2, <1>6, <1>8, <1>9, <1>12, <1>13, ExchangeSorts
<1>15. Numbers(v, X) /\ Numbers(w, X) /\ Numbers(v, Threads) /\ Numbers(w, Threads)
  <2>1. \A t \in Threads : v[t] \in Int
    BY <1>11
  <2>2. \A t \in Threads : w[t] \in Int
    <3>1. \A t \in X : w[t] \in Int
      BY <1>8, <1>9, <1>13, <2>1
    <3> QED BY <1>11, <2>1, <3>1
  <2> QED BY <1>8, <2>1, <2>2 DEF Numbers
<1>16. /\ DoneIn(g) = k /\ DoneIn(g)' = k + 1
       /\ \A h \in Blocks : h # g => DoneIn(h)' = DoneIn(h)
  <2>1. DoneIn(g) = k
    BY <1>5 DEF DoneIn
  <2>2. DoneIn(g)' = k + 1
    BY <1>3, <1>4, <1>5 DEF DoneIn
  <2>3. \A h \in Blocks : h # g => DoneIn(h)' = DoneIn(h)
    BY <1>3, <1>4 DEF DoneIn
  <2> QED BY <2>1, <2>2, <2>3
<1>17. \A h \in Blocks : h # g => \A t \in BlockThreads(h) : w[t] = v[t]
  <2> SUFFICES ASSUME NEW h \in Blocks, h # g, NEW t \in BlockThreads(h) PROVE w[t] = v[t]
    OBVIOUS
  <2>1. t \in Threads /\ BlockOf(t) # g
    BY DEF BlockThreads
  <2> QED BY <1>8, <1>11, <2>1
<1>18. PaddedNumbers'
  BY <1>3, <1>7 DEF PaddedNumbers
<1>19. CASE pc = "local"
  <2>1. s = LocalStage(k) /\ d = LocalDistance(k)
    BY <1>1, <1>19, NetworkIs DEF s, d, k
  <2>2. LocallyMerged(v, X, k)
    BY <1>16, <1>19 DEF Sorting, v, X
  <2>3. LocallyMerged(w, X, k + 1)
    BY <1>5, <1>8, <1>14, <1>15, <2>1, <2>2, LocalStepMerges
  <2>4. ASSUME NEW h \in Blocks, h # g
        PROVE  LocallyMerged(w, BlockThreads(h), DoneIn(h))
    <3>1. LocallyMerged(v, BlockThreads(h), DoneIn(h))
      BY <1>19 DEF Sorting, v
    <3> QED BY <1>17, <2>4, <3>1, MergedAgrees DEF LocallyMerged
  <2>5. ASSUME NEW h \in Blocks PROVE LocallyMerged(w, BlockThreads(h), DoneIn(h)')
    BY <1>16, <2>3, <2>4 DEF X
  <2>6. (\A h \in Blocks : LocallyMerged(Shown, BlockThreads(h), DoneIn(h)))'
    BY <1>3, <2>5 DEF w
  <2> QED BY <1>1, <1>18, <1>19, <2>6 DEF Sorting
<1>20. CASE pc = "merge"
  <2> DEFINE r == stage + 1
  <2>1. s = stage /\ d = Stages - 1 - k /\ NetworkSize = Stages
    BY <1>1, <1>20, NetworkIs DEF s, d, k, NetworkSize
  <2>2. d < r /\ d < Stages /\ Stages <= r /\ r \in Nat /\ stage \in Nat
    <3>1. Stages <= stage
      BY <1>20 DEF IInv, Phases
    <3> QED BY <1>6, <2>1, <3>1
  <2>3. PartsOrdered(v, Threads, r, Stages) /\ Merged(v, X, r, d + 1)
    <3>1. Stages - k = d + 1
      BY <1>5, <1>6, <2>1
    <3> QED BY <1>16, <1>20, <3>1 DEF Sorting, v, X
  <2>4. PairsSorted(v, w, X, r, d)
    BY <1>14, <2>1
  <2> HIDE DEF r
  <2>5. Merged(w, X, r, d)
    BY <1>6, <1>8, <1>15, <2>2, <2>3, <2>4, HalfCleaned
  <2>6. PartsOrdered(w, Threads, r, Stages)
    <3>1. Threads \in SUBSET Nat /\ X \in SUBSET Threads /\ \A t \in Threads \ X : w[t] = v[t]
      BY <1>2, <1>8, <1>11
    <3> QED BY <1>6, <1>15, <2>2, <2>3, <2>4, <3>1, CoarseStays
  <2>7. ASSUME NEW h \in Blocks PROVE Merged(w, BlockThreads(h), r, Stages - DoneIn(h)')
    <3>1. CASE h = g
      <4>1. Stages - DoneIn(g)' = d
        BY <1>5, <1>6, <1>16, <2>1
      <4> QED BY <2>5, <3>1, <4>1 DEF X
    <3>2. CASE h # g
      <4>1. Merged(v, BlockThreads(h), r, Stages - DoneIn(h))
        BY <1>20 DEF Sorting, v, r
      <4> QED BY <1>16, <1>17, <3>2, <4>1, MergedAgrees
    <3> QED BY <3>1, <3>2
  <2>8. (/\ PartsOrdered(Shown, Threads, stage + 1, Stages)
         /\ \A h \in Blocks : Merged(Shown, BlockThreads(h), stage + 1, Stages - DoneIn(h)))'
    BY <1>1, <1>3, <2>6, <2>7 DEF w, r
  <2> QED BY <1>1, <1>18, <1>20, <2>8 DEF Sorting
<1> QED BY <1>7, <1>19, <1>20

LEMMA MergedWithin ==
  ASSUME NEW X, NEW Y, X \subseteq Y, NEW v, NEW r, NEW m
  PROVE  /\ PartsOrdered(v, Y, r, m) => PartsOrdered(v, X, r, m)
         /\ Merged(v, Y, r, m) => Merged(v, X, r, m)
BY DEF PartsOrdered, Merged, BitonicOn

\* When all blocks of a kernel are stored, runs of the next stage's size are there.
LEMMA BlocksMakeRuns ==
  ASSUME IInv, Sorting, InKernel, \A g \in Blocks : at[g] = Stored
  PROVE  /\ NextStage \in Nat /\ Stages <= NextStage
         /\ PartsOrdered(Shown, Threads, NextStage, 0)
         /\ \A t \in Threads :
              Shown[t] = Number(dtype, IF t \in Cells THEN keys[0][t] ELSE MaxWord(dtype))
<1>1. /\ request \in Requests /\ Stored \in Nat /\ Stored >= 2
      /\ \A t \in Threads : t \in Nat /\ BlockOf(t) \in Blocks
  BY KernelType
<1>2. Stages \in Nat /\ NetworkSize \in Nat
  BY <1>1, RequestType, StoredSize
<1>3. \A g \in Blocks : DoneIn(g) = NetworkSize
  BY <1>1 DEF DoneIn
<1>4. \A g \in Blocks, t \in Threads : t \in BlockThreads(g) <=> BlockOf(t) = g
  BY DEF BlockThreads
<1>5. \A b, c : BlockOf(b) = BlockOf(c) <=> Together(Stages, b, c)
  BY DEF BlockOf, BlockSize, Stages, Together
<1>6. ASSUME NEW t \in Threads
      PROVE  Shown[t] = Number(dtype, IF t \in Cells THEN keys[0][t] ELSE MaxWord(dtype))
  <2>1. at[BlockOf(t)] \notin 1 .. Stored - 1
    BY <1>1
  <2> QED BY <2>1 DEF Shown, Current
<1>7. CASE pc = "local"
  <2>1. NextStage = Stages /\ NetworkSize = Steps(Stages)
    BY <1>7 DEF NextStage, NetworkSize, Stages, Steps
  <2>2. ASSUME NEW g \in Blocks PROVE PartsOrdered(Shown, BlockThreads(g), Stages, 0)
    <3>1. LocallyMerged(Shown, BlockThreads(g), Steps(Stages))
      BY <1>3, <1>7, <2>1 DEF Sorting
    <3> DEFINE n == Stages
    <3>2. n \in Nat /\ LocallyMerged(Shown, BlockThreads(g), Steps(n))
      BY <1>2, <3>1
    <3> HIDE DEF n
    <3>3. PartsOrdered(Shown, BlockThreads(g), n, 0)
      BY <3>2, LocalEnds
    <3> QED BY <3>3 DEF n
  <2>3. ASSUME NEW b \in Threads, NEW c \in Threads,
               b < c, Together(Stages, b, c), ~Together(0, b, c)
        PROVE  InOrderOf(Shown, Stages, b, c)
    <3>1. BlockOf(b) \in Blocks /\ BlockOf(b) = BlockOf(c)
      BY <1>1, <1>5, <2>3
    <3>2. b \in BlockThreads(BlockOf(b)) /\ c \in BlockThreads(BlockOf(b))
      BY <1>4, <3>1
    <3> QED BY <2>2, <2>3, <3>1, <3>2 DEF PartsOrdered
  <2>4. PartsOrdered(Shown, Threads, Stages, 0)
    BY <2>3 DEF PartsOrdered
  <2> QED BY <1>2, <1>6, <2>1, <2>4
<1>8. CASE pc = "merge"
  <2> DEFINE r == stage + 1
  <2>1. NextStage = r /\ NetworkSize = Stages
    BY <1>8 DEF NextStage, NetworkSize
  <2>2. r \in Nat /\ Stages <= r
    <3>1. stage \in 0 .. NumStages /\ NumStages \in Nat /\ Stages <= stage
      BY <1>1, <1>8, CellType DEF IInv, HostTyped, Phases
    <3> QED BY <1>2, <3>1
  <2>3. PartsOrdered(Shown, Threads, r, Stages)
    BY <1>8 DEF Sorting
  <2>4. ASSUME NEW g \in Blocks PROVE PartsOrdered(Shown, BlockThreads(g), r, 0)
    <3>1. Stages - DoneIn(g) = 0
      BY <1>2, <1>3, <2>1
    <3>2. Merged(Shown, BlockThreads(g), stage + 1, Stages - DoneIn(g))
      BY <1>8 DEF Sorting
    <3> QED BY <3>1, <3>2 DEF Merged
  <2> HIDE DEF r
  <2>5. ASSUME NEW b \in Threads, NEW c \in Threads,
               b < c, Together(r, b, c), ~Together(0, b, c)
        PROVE  InOrderOf(Shown, r, b, c)
    <3>1. CASE Together(Stages, b, c)
      <4>1. BlockOf(b) \in Blocks /\ BlockOf(b) = BlockOf(c)
        BY <1>1, <1>5, <3>1
      <4>2. b \in BlockThreads(BlockOf(b)) /\ c \in BlockThreads(BlockOf(b))
        BY <1>4, <4>1
      <4> QED BY <2>4, <2>5, <4>1, <4>2 DEF PartsOrdered
    <3>2. CASE ~Together(Stages, b, c)
      BY <2>3, <2>5, <3>2 DEF PartsOrdered
    <3> QED BY <3>1, <3>2
  <2>6. PartsOrdered(Shown, Threads, r, 0)
    BY <2>5 DEF PartsOrdered
  <2> QED BY <1>6, <2>1, <2>2, <2>6
<1> QED BY <1>7, <1>8 DEF InKernel

LEMMA EndBlocksSorts ==
  ASSUME IInv, Sorting, EndBlocks
  PROVE  Sorting'
<1>1. /\ InKernel /\ \A g \in Blocks : at[g] = Stored
      /\ UNCHANGED <<request, keys, pass>>
      /\ \/ /\ NextStage < NumStages /\ pc' = "global"
            /\ stage' = NextStage /\ step' = NextStage
         \/ ~(NextStage < NumStages) /\ pc' = "wait"
  BY DEF EndBlocks, radixVars
<1>2. /\ NextStage \in Nat /\ Stages <= NextStage
      /\ PartsOrdered(Shown, Threads, NextStage, 0)
      /\ \A t \in Threads :
           Shown[t] = Number(dtype, IF t \in Cells THEN keys[0][t] ELSE MaxWord(dtype))
  BY <1>1, BlocksMakeRuns
<1>3. /\ dtype' = dtype /\ Cells' = Cells /\ Padded' = Padded
      /\ Threads' = Threads /\ Stages' = Stages
  BY <1>1, SameColumn
<1>4. /\ request \in Requests /\ Size \in Nat \ {0} /\ Cells = 0 .. Size - 1
      /\ Cells \subseteq Threads /\ \A t \in Threads : t \in Nat
  BY <1>1, KernelType
<1>5. PaddedNumbers /\ InNetwork
  BY <1>1 DEF InKernel, InNetwork, Sorting
<1>6. PaddedNumbers'
  BY <1>3, <1>5 DEF PaddedNumbers
<1>7. PartsOrdered(Shown, Cells, NextStage, 0)
  BY <1>2, <1>4, MergedWithin
<1>8. CASE pc' = "global"
  <2>1. stage' = NextStage /\ step' = NextStage
    BY <1>1, <1>8
  <2>2. Shown' = Shown
    <3>1. ASSUME NEW t \in Threads
          PROVE  Current(t)' = IF t \in Cells THEN keys[0][t] ELSE MaxWord(dtype)
      BY <1>1, <1>3, <1>8 DEF Current, InKernel
    <3>2. Shown' = [t \in Threads |-> Number(dtype, Current(t)')]
      BY <1>3 DEF Shown
    <3>3. DOMAIN Shown = Threads /\ Shown = [t \in Threads |-> Shown[t]]
      BY DEF Shown
    <3> QED BY <1>2, <3>1, <3>2, <3>3
  <2>3. Numbers(Shown, Cells) /\ Cells \in SUBSET Nat
    BY <1>4, <1>5, CurrentType DEF Numbers
  <2>4. Merged(Shown, Cells, NextStage + 1, NextStage + 1)
    <3> DEFINE n == NextStage
    <3>1. n \in Nat /\ PartsOrdered(Shown, Cells, n, 0)
      BY <1>2, <1>7
    <3> HIDE DEF n
    <3>2. Merged(Shown, Cells, n + 1, n + 1)
      BY <2>3, <3>1, RunsMakeBitonic
    <3> QED BY <3>2 DEF n
  <2>5. (/\ Stages <= step /\ Merged(Shown, Cells, stage + 1, step + 1)
         /\ step = stage => PartsOrdered(Shown, Cells, stage, 0))'
    BY <1>2, <1>3, <1>7, <2>1, <2>2, <2>4
  <2> QED BY <1>6, <1>8, <2>5 DEF Sorting
<1>9. CASE pc' = "wait"
  <2>1. ~(NextStage < NumStages) /\ NumStages \in Nat /\ Size = 2 ^ NumStages
    BY <1>1, <1>4, <1>9, CellType
  <2>2. ASSUME NEW b \in Cells, NEW c \in Cells, b < c
        PROVE  Number(dtype, keys[0][b]) <= Number(dtype, keys[0][c])
    <3> DEFINE n == NextStage
               E == 2 ^ NextStage
    <3>1. E \in Nat \ {0} /\ Size <= E
      <4>1. n \in Nat /\ NumStages <= n
        BY <1>2, <2>1
      <4> QED BY <2>1, <4>1, PowersGrow, PowerOfTwo
    <3>2. b \in Nat /\ c \in Nat /\ b < E /\ c < E /\ b # c
      <4> HIDE DEF E
      <4> QED BY <1>4, <2>2, <3>1
    <3>3. b \div E = 0 /\ c \div E = 0
      <4> HIDE DEF E
      <4> QED BY <3>1, <3>2, DivSmall
    <3>4. Together(NextStage, b, c) /\ Ascends(NextStage, b)
      BY <3>3 DEF Together, Ascends
    <3>5. ~Together(0, b, c)
      BY <3>2, PartsOfOne
    <3>6. Shown[b] <= Shown[c]
      BY <1>7, <2>2, <3>4, <3>5 DEF PartsOrdered, InOrderOf
    <3> QED BY <1>2, <1>4, <3>6
  <2>3. (\A b, c \in Cells : b < c => Number(dtype, keys[0][b]) <= Number(dtype, keys[0][c]))'
    BY <1>1, <1>3, <2>2
  <2> QED BY <1>9, <2>3 DEF Sorting, InNetwork
<1> QED BY <1>1, <1>8, <1>9

LEMMA GlobalStepSorts ==
  ASSUME IInv, Sorting, GlobalStep
  PROVE  Sorting'
<1> DEFINE ks == keys[0]
           v == Shown
           w == Shown'
           r == stage + 1
<1>1. /\ pc = "global"
      /\ keys' = [keys EXCEPT ![0] = Exchanged(ks, ks, Cells, stage, step)]
      /\ UNCHANGED <<request, stage, at, lk>>
      /\ \/ AnotherGlobalStep /\ step' = step - 1 /\ pc' = pc
         \/ ~AnotherGlobalStep /\ pc' = "merge" /\ step' = step
  BY DEF GlobalStep
<1>2. /\ dtype' = dtype /\ Cells' = Cells /\ Padded' = Padded /\ Blocks' = Blocks
      /\ Threads' = Threads /\ BlockSize' = BlockSize /\ Stages' = Stages
  BY <1>1, SameColumn
<1>3. /\ request \in Requests /\ Size \in Nat \ {0} /\ Cells = 0 .. Size - 1
      /\ 0 \in DOMAIN keys /\ ks \in [Cells -> 0 .. Words(dtype) - 1]
  BY <1>1, BufferType
<1>4. /\ NumStages \in Nat /\ Size = 2 ^ NumStages /\ Stages \in Nat
      /\ stage \in Nat /\ step \in Nat /\ step <= stage /\ stage < NumStages
      /\ Stages <= stage /\ Stages <= step /\ r \in Nat /\ step < r
  <2>1. NumStages \in Nat /\ Size = 2 ^ NumStages /\ Stages \in Nat
    BY <1>3, CellType, RequestType
  <2>2. stage \in 0 .. NumStages /\ step \in 0 .. stage
    BY DEF IInv, HostTyped
  <2>3. Stages <= stage /\ stage < NumStages /\ Stages <= step
    BY <1>1 DEF IInv, Phases, Sorting
  <2> QED BY <2>1, <2>2, <2>3
<1>5. Threads = Cells /\ Cells \in SUBSET Nat
  <2>1. Stages <= NumStages
    BY <1>4
  <2> QED BY <1>3, <2>1, ThreadsAreCells
<1>6. PaddedNumbers /\ InNetwork /\ Merged(v, Cells, r, step + 1)
  BY <1>1 DEF Sorting, InNetwork
<1>7. \A t \in Cells : Partner(t, step) \in Cells
  <2> SUFFICES ASSUME NEW t \in Cells PROVE Partner(t, step) \in Cells
    OBVIOUS
  <2> DEFINE u == Partner(t, step)
  <2>1. t \in Nat /\ t < Size
    BY <1>3
  <2>2. u \in Nat
    BY <1>4, <2>1, Pairs
  <2>3. u \div 2 ^ NumStages = t \div 2 ^ NumStages
    BY <1>4, <2>1, PairInBlock
  <2> HIDE DEF u
  <2>4. t \div Size = 0
    BY <1>3, <2>1, DivSmall
  <2>5. u \div Size = 0
    BY <1>4, <2>3, <2>4
  <2>6. u < Size
    BY <1>3, <2>2, <2>5, DivSmall
  <2> QED BY <1>3, <2>2, <2>6 DEF u
<1>8. ASSUME NEW t \in Cells
      PROVE  /\ ks[t] \in 0 .. Words(dtype) - 1 /\ ~IsNaN(dtype, ks[t])
             /\ v[t] = Number(dtype, ks[t]) /\ v[t] \in Int
  <2>1. Current(t) = ks[t]
    BY <1>1 DEF Current, InKernel
  <2> QED BY <1>5, <1>6, <2>1, CurrentType
<1>9. \A g \in Blocks : at'[g] = 0
  BY <1>1 DEF IInv, BlocksTyped
<1>10. ASSUME NEW t \in Cells PROVE Current(t)' = keys'[0][t]
  <2>1. BlockOf(t) \in Blocks
    BY <1>3, <1>5, BlockType
  <2>2. BlockOf(t)' = BlockOf(t)
    BY <1>2 DEF BlockOf
  <2>3. at'[BlockOf(t)] = 0
    BY <1>9, <2>1
  <2>4. at'[BlockOf(t)] \notin 1 .. Stored' - 1
    BY <2>3
  <2> QED BY <1>2, <2>2, <2>4 DEF Current
<1>11. ASSUME NEW t \in Cells
       PROVE  w[t] = IF Swaps(ks, t, stage, step) THEN v[Partner(t, step)] ELSE v[t]
  <2>1. w[t] = Number(dtype, keys'[0][t])
    BY <1>2, <1>5, <1>10 DEF Shown
  <2>2. keys'[0][t] = IF Swaps(ks, t, stage, step) THEN ks[Partner(t, step)] ELSE ks[t]
    <3>1. keys'[0] = Exchanged(ks, ks, Cells, stage, step)
      BY <1>1, <1>3
    <3>2. DOMAIN ks = Cells
      BY <1>3
    <3> HIDE DEF ks
    <3> QED BY <3>1, <3>2 DEF Exchanged
  <2>3. Partner(t, step) \in Cells
    BY <1>7
  <2> QED BY <1>8, <2>1, <2>2, <2>3
<1> HIDE DEF ks, v, w, r
<1>12. PairsSorted(v, w, Cells, r, step)
  <2>1. PairsSorted(v, w, Cells, stage + 1, step)
    BY <1>3, <1>4, <1>5, <1>7, <1>8, <1>11, ExchangeSorts
  <2> QED BY <2>1 DEF r
<1>13. Numbers(v, Cells) /\ Numbers(w, Cells)
  <2>1. \A t \in Cells : w[t] \in Int
    BY <1>7, <1>8, <1>11
  <2> QED BY <1>8, <2>1 DEF Numbers
<1>14. Merged(w, Cells, r, step)
  BY <1>4, <1>5, <1>6, <1>12, <1>13, HalfCleaned
<1>15. PaddedNumbers'
  BY <1>2, <1>6 DEF PaddedNumbers
<1>16. CASE AnotherGlobalStep /\ step' = step - 1 /\ pc' = pc
  <2>1. Stages <= step' /\ step' + 1 = step /\ step' # stage
    BY <1>4, <1>16 DEF AnotherGlobalStep, Stages
  <2>2. (/\ Stages <= step /\ Merged(Shown, Cells, stage + 1, step + 1)
         /\ step = stage => PartsOrdered(Shown, Cells, stage, 0))'
    BY <1>1, <1>2, <1>14, <2>1 DEF w, r
  <2> QED BY <1>1, <1>15, <1>16, <2>2 DEF Sorting
<1>17. CASE ~AnotherGlobalStep /\ pc' = "merge" /\ step' = step
  <2>1. step = Stages
    BY <1>4, <1>17 DEF AnotherGlobalStep, Stages
  <2>2. Merged(w, Cells, r, Stages) /\ PartsOrdered(w, Threads, r, Stages)
    BY <1>5, <1>14, <2>1 DEF Merged
  <2>3. ASSUME NEW g \in Blocks
        PROVE  Merged(w, BlockThreads(g), r, Stages) /\ DoneIn(g)' = 0
    <3>1. BlockThreads(g) \subseteq Cells
      BY <1>5 DEF BlockThreads
    <3>2. DoneIn(g)' = 0
      BY <1>9 DEF DoneIn
    <3> QED BY <2>2, <3>1, <3>2, MergedWithin
  <2>4. \A g : BlockThreads(g)' = BlockThreads(g)
    BY <1>2 DEF BlockThreads, BlockOf
  <2>5. Stages - 0 = Stages
    BY <1>4
  <2>6. (/\ PartsOrdered(Shown, Threads, stage + 1, Stages)
         /\ \A g \in Blocks : Merged(Shown, BlockThreads(g), stage + 1, Stages - DoneIn(g)))'
    BY <1>1, <1>2, <2>2, <2>3, <2>4, <2>5 DEF w, r
  <2> QED BY <1>15, <1>17, <2>6 DEF Sorting
<1> QED BY <1>1, <1>16, <1>17

LEMMA StartBitonicSorts ==
  ASSUME NetworksCompareNumbers, IInv, StartBitonic
  PROVE  Sorting'
<1>1. /\ Length < request.bitonic_max_n /\ request.op # "groupby"
      /\ pc' = "local" /\ request' = request /\ at' = [g \in Blocks |-> 0]
  BY DEF StartBitonic
<1>2. /\ dtype' = dtype /\ Cells' = Cells /\ Padded' = Padded /\ Blocks' = Blocks
      /\ Threads' = Threads /\ BlockSize' = BlockSize
  BY <1>1, SameColumn
<1>3. request \in Requests /\ Length \in Nat /\ dtype \in DTypes /\ Cells \subseteq Nat
      /\ DOMAIN request.words = 1 .. Length
  <2>1. request \in Requests
    BY DEF IInv, HostTyped
  <2>2. DOMAIN request.words = 1 .. Length
    BY <2>1, RequestType DEF Rows
  <2> QED BY <2>1, <2>2, RequestType, CellType DEF Cells
<1>4. Comparable(request)
  BY <1>1, <1>3 DEF NetworksCompareNumbers, Length
<1>5. PaddedNumbers
  <2> SUFFICES ASSUME NEW c \in Cells PROVE ~IsNaN(dtype, Padded[c])
    BY DEF PaddedNumbers
  <2>1. ~IsNaN(dtype, MaxWord(dtype))
    BY <1>3, NumberType
  <2>2. CASE c < Length
    <3>1. c + 1 \in DOMAIN request.words
      BY <1>3, <2>2
    <3>2. ~IsNaN(dtype, SentinelWord(c + 1))
      BY <1>4, <2>1, <3>1 DEF Comparable, SentinelWord, dtype
    <3> QED BY <2>2, <3>2 DEF Padded
  <2>3. CASE ~(c < Length)
    BY <2>1, <2>3 DEF Padded
  <2> QED BY <2>2, <2>3
<1>6. PaddedNumbers'
  BY <1>2, <1>5 DEF PaddedNumbers
<1>7. ASSUME NEW g \in Blocks PROVE LocallyMerged(Shown', BlockThreads(g), 0) /\ DoneIn(g)' = 0
  <2>1. BlockThreads(g) \in SUBSET Nat
    BY <1>3, BlockType DEF BlockThreads
  <2>2. DoneIn(g)' = 0
    BY <1>1 DEF DoneIn
  <2> QED BY <2>1, <2>2, LocalBegins
<1>8. \A g : BlockThreads(g)' = BlockThreads(g)
  BY <1>2 DEF BlockThreads, BlockOf
<1>9. (\A g \in Blocks : LocallyMerged(Shown, BlockThreads(g), DoneIn(g)))'
  BY <1>2, <1>7, <1>8
<1> QED BY <1>1, <1>6, <1>9 DEF Sorting

\* Whatever else happens is not in the network.
LEMMA ElsewhereSorts ==
  ASSUME pc' \notin {"local", "global", "merge"}, pc' = "wait" => pass' # 0
  PROVE  Sorting'
BY DEF Sorting, InNetwork

LEMMA StutteringSorts ==
  ASSUME Sorting, UNCHANGED allVars
  PROVE  Sorting'
<1>1. UNCHANGED <<request, pc, keys, pass, stage, step, at, lk>>
  BY DEF allVars, sortVars, radixVars, bitonicVars
<1>2. /\ dtype' = dtype /\ Cells' = Cells /\ Padded' = Padded
      /\ Blocks' = Blocks /\ Threads' = Threads /\ Stages' = Stages
      /\ Stored' = Stored /\ NetworkSize' = NetworkSize
      /\ (InKernel' <=> InKernel)
      /\ \A t : BlockOf(t)' = BlockOf(t)
      /\ \A g : BlockThreads(g)' = BlockThreads(g)
  BY <1>1, KernelStays
<1>3. Shown' = Shown
  <2>1. \A t : Current(t)' = Current(t)
    BY <1>1, <1>2 DEF Current
  <2> QED BY <1>2, <2>1 DEF Shown
<1>4. \A g : DoneIn(g)' = DoneIn(g)
  BY <1>1, <1>2 DEF DoneIn
<1> QED BY <1>1, <1>2, <1>3, <1>4 DEF Sorting, InNetwork, PaddedNumbers

LEMMA StepsSort ==
  ASSUME NetworksCompareNumbers, IInv, Sorting, GroupNext
  PROVE  Sorting'
<1>1. CASE SortStep
  <2>1. ASSUME NEW g \in Blocks, LoadBlock(g) \/ StepBlock(g) \/ StoreBlock(g) PROVE Sorting'
    BY <2>1, LoadBlockSorts, StepBlockSorts, StoreBlockSorts
  <2>2. ASSUME NEW c \in Cells, Scatter(c) PROVE Sorting'
    BY <2>2, ElsewhereSorts DEF Scatter
  <2>3. CASE EndPass
    <3>1. pass \in Nat
      <4>1. request \in Requests /\ pass \in 0 .. radix_passes(dtype)
        BY DEF IInv, HostTyped
      <4> QED BY <4>1, RequestType
    <3>2. pass' # 0
      BY <2>3, <3>1 DEF EndPass
    <3> QED BY <2>3, <3>2, ElsewhereSorts DEF EndPass
  <2>4. CASE StartRadix \/ BuildHistogram \/ Return \/ FallBack
    BY <2>4, ElsewhereSorts DEF StartRadix, BuildHistogram, Return, FallBack
  <2> QED BY <1>1, <2>1, <2>2, <2>3, <2>4, StartBitonicSorts, EndBlocksSorts, GlobalStepSorts
          DEF SortStep
<1>2. CASE GroupStep
  <2>1. ASSUME NEW t \in RowThreads, ReturnAtOnce(t) \/ DrawNumber(t) \/ WriteEntry(t)
        PROVE  Sorting'
    <3>1. pc' = "lead"
      BY <2>1 DEF ReturnAtOnce, DrawNumber, WriteEntry, sortVars
    <3> QED BY <3>1, ElsewhereSorts
  <2>2. CASE StartGather \/ GatherValues \/ ReturnGroups \/ FallBackGroups
    BY <2>2, ElsewhereSorts DEF StartGather, GatherValues, ReturnGroups, FallBackGroups
  <2> QED BY <1>2, <2>1, <2>2 DEF GroupStep
<1>3. CASE DeviceErrors
  BY <1>3, ElsewhereSorts DEF DeviceErrors, DeviceError, GroupError
<1>4. CASE AllDone
  BY <1>4, StutteringSorts DEF AllDone
<1> QED BY <1>1, <1>2, <1>3, <1>4 DEF GroupNext, Progress

-----------------------------------------------------------------------------
(* Columns that are sorted as pandas sorts them *)

\* No value is NaN, and only a sort looks at the mask.  A network may be asked for
\* row numbers only of words below the one that pads; a radix sort leaves its
\* answer in the first buffers after two passes.
Sortable(q) ==
  /\ \A i \in q.valid : ~IsNaN(q.dtype, q.words[i])
  /\ q.op # "sort" => q.valid = DOMAIN q.words
  /\ IF q.op # "groupby" /\ Len(q.words) < q.bitonic_max_n
       THEN q.op = "argsort" => \A i \in DOMAIN q.words : q.words[i] # MaxWord(q.dtype)
       ELSE radix_passes(q.dtype) = 2

SortableColumns == RADIX_BITS > 1 /\ \A q \in Requests : Sortable(q)

LEMMA SortablesCompare == SortableColumns => NetworksCompareNumbers
<1> SUFFICES ASSUME SortableColumns, NEW q \in Requests, NEW i \in DOMAIN q.words,
                    IsNaN(q.dtype, q.words[i])
             PROVE  q.op = "sort" /\ i \notin q.valid
  BY DEF NetworksCompareNumbers, Comparable
<1>1. Sortable(q)
  BY DEF SortableColumns
<1>2. i \notin q.valid
  BY <1>1 DEF Sortable
<1> QED BY <1>1, <1>2 DEF Sortable

\* The sign bit is none of the last two bits.
LEMMA SignBitIsHigh ==
  ASSUME RADIX_BITS > 1, NEW d \in DTypes, radix_passes(d) = 2
  PROVE  SignBit(d) > 2
<1>1. RADIX_BITS \in Nat
  BY RadixAssumption
<1>2. WordBits(d) = RADIX_BITS + RADIX_BITS
  BY <1>1 DEF WordBits
<1>3. PICK e \in Nat : WordBits(d) = (e + 1) + 1
  <2>1. WordBits(d) - 2 \in Nat /\ WordBits(d) = ((WordBits(d) - 2) + 1) + 1
    BY <1>1, <1>2
  <2> QED BY <2>1
<1>4. 1 <= e
  BY <1>1, <1>2, <1>3
<1>5. 2 ^ 1 = 2
  <2>1. 2 ^ (0 + 1) = 2 * 2 ^ 0 /\ 2 ^ 0 = 1 /\ 0 + 1 = 1
    BY PowerOfTwo, ZerothPower
  <2> QED BY <2>1
<1>6. 2 <= 2 ^ e /\ 2 ^ e \in Nat
  BY <1>4, <1>5, PowersGrow, PowerOfTwo
<1>7. 2 ^ ((e + 1) + 1) = 2 * 2 ^ (e + 1) /\ 2 ^ (e + 1) = 2 * 2 ^ e
  BY PowerOfTwo
<1>8. Words(d) = 2 ^ ((e + 1) + 1)
  BY <1>3 DEF Words, WordBits
<1>9. Words(d) = 2 * SignBit(d) /\ SignBit(d) \in Nat
  BY WordType
<1> DEFINE p == 2 ^ e
<1>10. p \in Nat /\ 2 <= p /\ 2 * SignBit(d) = 2 * (2 * p)
  BY <1>6, <1>7, <1>8, <1>9
<1> HIDE DEF p
<1> QED BY <1>9, <1>10

\* The number of a word, with and without its sign bit.
LEMMA NumberIs ==
  ASSUME NEW d \in DTypes, NEW w \in 0 .. Words(d) - 1
  PROVE  Number(d, w) = IF d = "uint8" \/ w < SignBit(d) THEN w
                        ELSE IF d = "float32" THEN SignBit(d) - w ELSE w - Words(d)
<1>1. d \in {"uint8", "int8", "int32", "float32"} /\ w \in Nat /\ SignBit(d) \in Nat
  BY WordType DEF DTypes
<1>2. CASE d = "uint8" \/ w < SignBit(d)
  <2>1. ~(w >= SignBit(d)) \/ d = "uint8"
    BY <1>1, <1>2
  <2> QED BY <1>1, <1>2, <2>1 DEF Number
<1>3. CASE ~(d = "uint8" \/ w < SignBit(d))
  <2>1. w >= SignBit(d)
    BY <1>1, <1>3
  <2> QED BY <1>1, <1>3, <2>1 DEF Number
<1> QED BY <1>2, <1>3

LEMMA RadixKeyIs ==
  ASSUME NEW d \in DTypes, radix_passes(d) = 2, NEW w \in 0 .. Words(d) - 1
  PROVE  RadixKey(d, w) = IF w < SignBit(d) THEN w + SignBit(d)
                          ELSE IF d = "float32" THEN Words(d) - 1 - w ELSE w - SignBit(d)
<1> DEFINE W == Words(d)
           s == SignBit(d)
<1>1. d \in {"int32", "float32"} /\ w \in 0 .. W - 1 /\ s \in Nat \ {0} /\ W = 2 * s
      /\ W \in Nat \ {0}
  BY WordType DEF DTypes, radix_passes
<1>2. CASE d = "float32"
  <2>1. w < s \/ w >= s
    <3> HIDE DEF s, W
    <3> QED BY <1>1
  <2>2. ~(w < s /\ w >= s)
    <3> HIDE DEF s, W
    <3> QED BY <1>1
  <2> QED BY <1>2, <2>1, <2>2 DEF RadixKey
<1>3. CASE d = "int32"
  <2>1. RadixKey(d, w) = (w + s) % W
    BY <1>3 DEF RadixKey
  <2> HIDE DEF s, W
  <2>2. CASE w < s
    <3>1. w + s \in 0 .. W - 1 /\ w + s \in Int /\ w + s = W * 0 + (w + s)
      BY <1>1, <2>2
    <3>2. (w + s) % W = w + s
      <4> DEFINE a == w + s
      <4> HIDE DEF a
      <4> QED BY <1>1, <3>1, ModUnique DEF a
    <3> QED BY <1>3, <2>1, <2>2, <3>2 DEF s, W
  <2>3. CASE ~(w < s)
    <3>1. w - s \in 0 .. W - 1 /\ w + s \in Int /\ w + s = W * 1 + (w - s)
      BY <1>1, <2>3
    <3>2. (w + s) % W = w - s
      <4> DEFINE a == w + s
                 r == w - s
      <4>1. r \in 0 .. W - 1 /\ a \in Int /\ a = W * 1 + r
        BY <3>1
      <4> HIDE DEF a, r
      <4>2. a % W = r
        BY <1>1, <4>1, ModUnique
      <4> QED BY <4>2 DEF a, r
    <3> QED BY <1>3, <2>1, <2>3, <3>2 DEF s, W
  <2> QED BY <2>2, <2>3
<1> QED BY <1>1, <1>2, <1>3

\* The last word without a sign bit is NaN.
LEMMA NoNaN ==
  ASSUME NEW d \in DTypes, d = "float32", NEW w \in 0 .. Words(d) - 1, ~IsNaN(d, w)
  PROVE  w # SignBit(d) - 1
<1> DEFINE s == SignBit(d)
<1> SUFFICES ASSUME w = s - 1 PROVE FALSE
  OBVIOUS
<1>1. s \in Nat \ {0}
  BY WordType
<1>2. s - 1 \in 0 .. s - 1 /\ w \in Int /\ w = s * 0 + (s - 1)
  BY <1>1
<1>3. w % s = s - 1
  <2> HIDE DEF s
  <2> QED BY <1>1, <1>2, ModUnique
<1> QED BY <1>3 DEF IsNaN

\* The word that pads is above all others, but for NaN.
LEMMA MaxIsOnly ==
  ASSUME RADIX_BITS > 1, NEW d \in DTypes, NEW w \in 0 .. Words(d) - 1,
         ~IsNaN(d, w), w # MaxWord(d)
  PROVE  Number(d, w) < Number(d, MaxWord(d))
<1> DEFINE W == Words(d)
           s == SignBit(d)
           m == MaxWord(d)
<1>1. /\ W \in Nat \ {0} /\ s \in Nat \ {0} /\ W = 2 * s /\ w \in 0 .. W - 1
      /\ m \in 0 .. W - 1 /\ w # m
  BY WordType, MaxWordIsLargest
<1>2. d \in {"uint8", "int8", "int32", "float32"}
  BY DEF DTypes
<1>3. d = "float32" => s > 2 /\ w # s - 1
  BY SignBitIsHigh, NoNaN DEF radix_passes
<1>4. m = IF d = "uint8" THEN W - 1 ELSE IF d = "float32" THEN s - 2 ELSE s - 1
  BY <1>2 DEF MaxWord
<1>5. Number(d, w) = IF d = "uint8" \/ w < s THEN w ELSE IF d = "float32" THEN s - w ELSE w - W
  BY NumberIs
<1>6. Number(d, m) = IF d = "uint8" \/ m < s THEN m ELSE IF d = "float32" THEN s - m ELSE m - W
  <2> HIDE DEF m
  <2> QED BY <1>1, NumberIs
<1>7. Number(d, m) = m
  <2> HIDE DEF W, s, m
  <2> QED BY <1>1, <1>2, <1>3, <1>4, <1>6
<1>8. Number(d, w) < m
  <2> HIDE DEF W, s, m
  <2> QED BY <1>1, <1>2, <1>3, <1>4, <1>5
<1> QED BY <1>7, <1>8

\* The unsigned keys are in the order of the numbers.
LEMMA KeysFollowNumbers ==
  ASSUME NEW d \in DTypes, radix_passes(d) = 2,
         NEW v \in 0 .. Words(d) - 1, ~IsNaN(d, v), NEW w \in 0 .. Words(d) - 1
  PROVE  /\ RadixKey(d, v) \in 0 .. Words(d) - 1
         /\ RadixKey(d, v) <= RadixKey(d, MaxWord(d))
         /\ RadixKey(d, v) <= RadixKey(d, w) => Number(d, v) <= Number(d, w)
<1> DEFINE W == Words(d)
           s == SignBit(d)
           m == MaxWord(d)
<1>1. /\ W \in Nat \ {0} /\ s \in Nat \ {0} /\ W = 2 * s /\ v \in 0 .. W - 1 /\ w \in 0 .. W - 1
      /\ m \in 0 .. W - 1
  BY WordType, MaxWordIsLargest
<1>2. d \in {"int32", "float32"}
  BY DEF DTypes, radix_passes
<1>3. d = "float32" => s >= 2 /\ v # s - 1
  BY WordType, NoNaN
<1>4. m = IF d = "float32" THEN s - 2 ELSE s - 1
  BY <1>2 DEF MaxWord
<1>5. /\ RadixKey(d, v) = IF v < s THEN v + s ELSE IF d = "float32" THEN W - 1 - v ELSE v - s
      /\ RadixKey(d, w) = IF w < s THEN w + s ELSE IF d = "float32" THEN W - 1 - w ELSE w - s
  BY RadixKeyIs
<1>6. RadixKey(d, m) = IF m < s THEN m + s ELSE IF d = "float32" THEN W - 1 - m ELSE m - s
  <2> HIDE DEF m
  <2> QED BY <1>1, RadixKeyIs
<1>7. /\ Number(d, v) = IF v < s THEN v ELSE IF d = "float32" THEN s - v ELSE v - W
      /\ Number(d, w) = IF w < s THEN w ELSE IF d = "float32" THEN s - w ELSE w - W
  BY <1>2, NumberIs
<1> HIDE DEF W, s, m
<1>8. RadixKey(d, v) \in 0 .. W - 1
  BY <1>1, <1>2, <1>5
<1>9. RadixKey(d, v) <= RadixKey(d, m)
  BY <1>1, <1>2, <1>3, <1>4, <1>5, <1>6
<1>10. RadixKey(d, v) <= RadixKey(d, w) => Number(d, v) <= Number(d, w)
  BY <1>1, <1>2, <1>5, <1>7
<1> QED BY <1>8, <1>9, <1>10 DEF W, m

\* Numbers are below the number of words.
LEMMA NumberBelow ==
  ASSUME NEW d \in DTypes, NEW w \in 0 .. Words(d) - 1
  PROVE  Number(d, w) \in Int /\ Number(d, w) < Words(d)
<1>1. Words(d) \in Nat /\ SignBit(d) \in Nat /\ w \in 0 .. Words(d) - 1
  BY WordType
<1> QED BY <1>1, NumberIs

-----------------------------------------------------------------------------
(* Lists in order *)

\* A one-to-one correspondence counts.
LEMMA SameCount ==
  ASSUME NEW S, IsFiniteSet(S), NEW T, NEW f \in [S -> T],
         \A x, y \in S : f[x] = f[y] => x = y, \A y \in T : \E x \in S : f[x] = y
  PROVE  IsFiniteSet(T) /\ Cardinality(T) = Cardinality(S)
<1>1. f \in Bijection(S, T)
  BY DEF Bijection, Injection, Surjection, IsInjective
<1>2. ExistsBijection(S, T)
  BY <1>1 DEF ExistsBijection
<1> QED BY <1>2, FS_Bijection

\* A list of the numbers to n that begins with those of V.
Listing(n, row, V) ==
  /\ row \in [1 .. n -> 1 .. n]
  /\ \A p, r \in 1 .. n : row[p] = row[r] => p = r
  /\ \A i \in 1 .. n : \E p \in 1 .. n : row[p] = i
  /\ V \in SUBSET (1 .. n)
  /\ \A p, r \in 1 .. n : p < r /\ row[r] \in V => row[p] \in V

CountOf(words, places, w) == Cardinality({p \in places : words[p] = w})

LEMMA ListingBegins ==
  ASSUME NEW n \in Nat, NEW row, NEW V, Listing(n, row, V)
  PROVE  /\ IsFiniteSet(V) /\ Cardinality(V) \in 0 .. n
         /\ \A p \in 1 .. n : p <= Cardinality(V) <=> row[p] \in V
         /\ \A i \in V : \E p \in 1 .. Cardinality(V) : row[p] = i
<1> DEFINE K == {c \in 0 .. n : c + 1 \in 1 .. n /\ row[c + 1] \in V}
           k == Cardinality(K)
<1>1. k \in 0 .. n + 1 /\ K = 0 .. k - 1
  <2>1. K \in SUBSET (0 .. n)
    OBVIOUS
  <2>2. ASSUME NEW c \in K, NEW b \in 0 .. c PROVE b \in K
    <3>1. c \in 0 .. n /\ c + 1 \in 1 .. n /\ row[c + 1] \in V
      OBVIOUS
    <3>2. b \in 0 .. n /\ b + 1 \in 1 .. n /\ (b = c \/ b + 1 < c + 1)
      BY <3>1
    <3>3. row[b + 1] \in V
      BY <3>1, <3>2 DEF Listing
    <3> QED BY <3>2, <3>3
  <2>3. \A c \in K : 0 .. c \subseteq K
    BY <2>2
  <2> HIDE DEF K
  <2> QED BY <2>1, <2>3, InitialSegment
<1>2. IsFiniteSet(K)
  <2>1. IsFiniteSet(0 .. n)
    BY FS_Interval
  <2>2. K \in SUBSET (0 .. n)
    OBVIOUS
  <2> HIDE DEF K
  <2> QED BY <2>1, <2>2, FS_Subset
<1>3. IsFiniteSet(V) /\ Cardinality(V) = k
  <2> DEFINE f == [c \in K |-> row[c + 1]]
  <2>1. f \in [K -> V]
    OBVIOUS
  <2>2. \A b, c \in K : f[b] = f[c] => b = c
    <3> SUFFICES ASSUME NEW b \in K, NEW c \in K, row[b + 1] = row[c + 1] PROVE b = c
      OBVIOUS
    <3>1. b + 1 \in 1 .. n /\ c + 1 \in 1 .. n /\ b \in Int /\ c \in Int
      OBVIOUS
    <3>2. b + 1 = c + 1
      BY <3>1 DEF Listing
    <3> QED BY <3>1, <3>2
  <2>3. \A i \in V : \E c \in K : f[c] = i
    <3> SUFFICES ASSUME NEW i \in V PROVE \E c \in K : row[c + 1] = i
      OBVIOUS
    <3>1. PICK p \in 1 .. n : row[p] = i
      BY DEF Listing
    <3>2. p - 1 \in 0 .. n /\ (p - 1) + 1 = p
      OBVIOUS
    <3>3. p - 1 \in K
      BY <3>1, <3>2
    <3> QED BY <3>1, <3>2, <3>3
  <2> HIDE DEF f, K
  <2> QED BY <1>2, <2>1, <2>2, <2>3, SameCount
<1>4. \A p \in 1 .. n : p <= k <=> row[p] \in V
  <2> SUFFICES ASSUME NEW p \in 1 .. n PROVE p <= k <=> row[p] \in V
    OBVIOUS
  <2>1. p - 1 \in 0 .. n /\ (p - 1) + 1 = p
    OBVIOUS
  <2>2. p - 1 \in K <=> row[p] \in V
    BY <2>1
  <2> HIDE DEF K
  <2>3. p - 1 \in 0 .. k - 1 <=> p <= k
    <3> HIDE DEF k
    <3> QED BY <1>1
  <2> QED BY <1>1, <2>2, <2>3
<1>5. k <= n
  <2> SUFFICES ASSUME k = n + 1 PROVE FALSE
    <3> HIDE DEF k
    <3> QED BY <1>1
  <2>1. n \in K
    <3> HIDE DEF K, k
    <3> QED BY <1>1
  <2> QED BY <2>1
<1>6. \A i \in V : \E p \in 1 .. k : row[p] = i
  <2> SUFFICES ASSUME NEW i \in V PROVE \E p \in 1 .. k : row[p] = i
    OBVIOUS
  <2>1. PICK p \in 1 .. n : row[p] = i
    BY DEF Listing
  <2>2. p <= k
    BY <1>4, <2>1
  <2> HIDE DEF k
  <2> QED BY <1>1, <2>1, <2>2
<1> HIDE DEF k, K
<1> QED BY <1>1, <1>3, <1>4, <1>5, <1>6

\* What it begins with occurs there as often as in the column.
LEMMA ListingCounts ==
  ASSUME NEW n \in Nat, NEW row, NEW V, Listing(n, row, V), NEW words, NEW w
  PROVE  Cardinality({p \in 1 .. Cardinality(V) : words[row[p]] = w}) = CountOf(words, V, w)
<1> DEFINE k == Cardinality(V)
           P == {p \in 1 .. k : words[row[p]] = w}
           I == {i \in V : words[i] = w}
           f == [p \in P |-> row[p]]
<1>1. /\ k \in 0 .. n
      /\ \A p \in 1 .. n : p <= k <=> row[p] \in V
      /\ \A i \in V : \E p \in 1 .. k : row[p] = i
  BY ListingBegins
<1> HIDE DEF k
<1>2. f \in [P -> I]
  BY <1>1
<1>3. \A p, r \in P : f[p] = f[r] => p = r
  BY <1>1 DEF Listing
<1>4. \A i \in I : \E p \in P : f[p] = i
  BY <1>1
<1>5. IsFiniteSet(P)
  <2>1. IsFiniteSet(1 .. k)
    BY <1>1, FS_Interval
  <2>2. P \in SUBSET (1 .. k)
    OBVIOUS
  <2> HIDE DEF P
  <2> QED BY <2>1, <2>2, FS_Subset
<1>6. Cardinality(I) = Cardinality(P)
  <2> HIDE DEF P, I, f
  <2> QED BY <1>2, <1>3, <1>4, <1>5, SameCount
<1> QED BY <1>6 DEF CountOf, k

\* How many of the numbers E come before the i-th.
RankIn(n, E, i) == Cardinality({j \in 1 .. n : E[j] < E[i] \/ (E[j] = E[i] /\ j < i)})

LEMMA RankCounts ==
  ASSUME NEW n \in Nat, NEW E \in [1 .. n -> Int], NEW i \in 1 .. n
  PROVE  RankIn(n, E, i) = RankOf([c \in 0 .. n - 1 |-> E[c + 1]], n, i - 1)
<1> DEFINE D == [c \in 0 .. n - 1 |-> E[c + 1]]
           A == {b \in 0 .. n - 1 : D[b] < D[i - 1]}
           B == {b \in 0 .. n - 1 : b < i - 1 /\ D[b] = D[i - 1]}
           J == {j \in 1 .. n : E[j] < E[i] \/ (E[j] = E[i] /\ j < i)}
           f == [b \in A \cup B |-> b + 1]
<1>1. i - 1 \in 0 .. n - 1 /\ (i - 1) + 1 = i
  OBVIOUS
<1>2. /\ \A b \in 0 .. n - 1 : b + 1 \in 1 .. n /\ D[b] = E[b + 1] /\ D[b] \in Int
      /\ D[i - 1] = E[i] /\ E[i] \in Int
  BY <1>1
<1>3. IsFiniteSet(A) /\ IsFiniteSet(B)
  <2>1. IsFiniteSet(0 .. n - 1)
    BY FS_Interval
  <2>2. A \in SUBSET (0 .. n - 1) /\ B \in SUBSET (0 .. n - 1)
    OBVIOUS
  <2> HIDE DEF A, B
  <2> QED BY <2>1, <2>2, FS_Subset
<1>4. A \cap B = {}
  <2> HIDE DEF D
  <2> QED BY <1>2
<1>5. f \in [A \cup B -> J]
  <2> SUFFICES ASSUME NEW b \in A \cup B PROVE b + 1 \in J
    OBVIOUS
  <2>1. b \in 0 .. n - 1 /\ (D[b] < D[i - 1] \/ (b < i - 1 /\ D[b] = D[i - 1]))
    OBVIOUS
  <2>2. b + 1 \in 1 .. n /\ D[b] = E[b + 1] /\ D[i - 1] = E[i]
    BY <1>2, <2>1
  <2> HIDE DEF D
  <2>3. E[b + 1] < E[i] \/ (E[b + 1] = E[i] /\ b + 1 < i)
    <3>1. b < i - 1 => b + 1 < i
      BY <2>1
    <3> QED BY <2>1, <2>2, <3>1
  <2> QED BY <2>2, <2>3
<1>6. \A b, c \in A \cup B : f[b] = f[c] => b = c
  <2>1. \A b \in A \cup B : b \in Int
    OBVIOUS
  <2> HIDE DEF A, B
  <2> QED BY <2>1
<1>7. \A j \in J : \E b \in A \cup B : f[b] = j
  <2> SUFFICES ASSUME NEW j \in J PROVE j - 1 \in A \cup B /\ (j - 1) + 1 = j
    OBVIOUS
  <2>1. j \in 1 .. n /\ (E[j] < E[i] \/ (E[j] = E[i] /\ j < i))
    OBVIOUS
  <2>2. j - 1 \in 0 .. n - 1 /\ (j - 1) + 1 = j
    BY <2>1
  <2>3. D[j - 1] = E[j] /\ D[i - 1] = E[i]
    BY <1>2, <2>2
  <2> HIDE DEF D
  <2>4. D[j - 1] < D[i - 1] \/ (j - 1 < i - 1 /\ D[j - 1] = D[i - 1])
    <3>1. j < i => j - 1 < i - 1
      BY <2>1
    <3> QED BY <2>1, <2>3, <3>1
  <2> QED BY <2>2, <2>4
<1>8. IsFiniteSet(A \cup B) /\ Cardinality(A \cup B) = Cardinality(A) + Cardinality(B)
  <2> HIDE DEF A, B
  <2>1. IsFiniteSet(A \cup B)
        /\ Cardinality(A \cup B) = Cardinality(A) + Cardinality(B) - Cardinality(A \cap B)
    BY <1>3, FS_Union
  <2>2. Cardinality(A) \in Nat /\ Cardinality(B) \in Nat
    BY <1>3, FS_CardinalityType
  <2>3. Cardinality(A \cap B) = 0
    BY <1>4, FS_EmptySet
  <2> QED BY <2>1, <2>2, <2>3
<1>9. Cardinality(J) = Cardinality(A \cup B)
  <2> HIDE DEF A, B, J, f
  <2> QED BY <1>5, <1>6, <1>7, <1>8, SameCount
<1> QED BY <1>8, <1>9 DEF RankOf, RankIn

\* Every rank is taken once, in the order of the numbers.
LEMMA RanksOrder ==
  ASSUME NEW n \in Nat, NEW E \in [1 .. n -> Int], NEW pos \in [1 .. n -> Int],
         \A i \in 1 .. n : pos[i] = 1 + RankIn(n, E, i)
  PROVE  /\ \A i \in 1 .. n : pos[i] \in 1 .. n
         /\ \A i, j \in 1 .. n : pos[i] = pos[j] => i = j
         /\ \A p \in 1 .. n : \E i \in 1 .. n : pos[i] = p
         /\ \A i, j \in 1 .. n : pos[i] < pos[j] => E[i] <= E[j]
<1> DEFINE D == [c \in 0 .. n - 1 |-> E[c + 1]]
           place == [c \in 0 .. n - 1 |-> RankOf(D, n, c)]
<1>0. D \in [0 .. n - 1 -> Int] /\ \A c \in 0 .. n - 1 : place[c] = RankOf(D, n, c)
  OBVIOUS
<1>14. DOMAIN place = 0 .. n - 1 /\ place = [c \in 0 .. n - 1 |-> place[c]]
  OBVIOUS
<1>15. \A i \in 1 .. n : i - 1 \in 0 .. n - 1 /\ D[i - 1] = E[i] /\ E[i] \in Int
  <2> SUFFICES ASSUME NEW i \in 1 .. n PROVE i - 1 \in 0 .. n - 1 /\ D[i - 1] = E[i]
    OBVIOUS
  <2>1. i - 1 \in 0 .. n - 1 /\ (i - 1) + 1 = i
    OBVIOUS
  <2> QED BY <2>1
<1>16. \A i \in 1 .. n : RankIn(n, E, i) = RankOf(D, n, i - 1)
  BY RankCounts
<1> HIDE DEF place, D
<1>17. \A c \in 0 .. n - 1 : place[c] \in 0 .. n - 1
  BY <1>0, Ranks
<1>18. \A b, c \in 0 .. n - 1 : place[b] < place[c] <=> D[b] < D[c] \/ (D[b] = D[c] /\ b < c)
  BY <1>0, Ranks
<1>19. \A b, c \in 0 .. n - 1 : place[b] = place[c] => b = c
  <2> SUFFICES ASSUME NEW b \in 0 .. n - 1, NEW c \in 0 .. n - 1, place[b] = place[c]
               PROVE  b = c
    OBVIOUS
  <2>1. place[b] \in Int /\ place[c] \in Int
    BY <1>17
  <2>2. ~(place[b] < place[c]) /\ ~(place[c] < place[b])
    BY <2>1
  <2>3. ~(D[b] < D[c]) /\ ~(D[c] < D[b]) /\ D[b] \in Int /\ D[c] \in Int
    BY <1>0, <1>18, <2>2
  <2>4. D[b] = D[c]
    BY <2>3
  <2>5. ~(b < c) /\ ~(c < b)
    BY <1>18, <2>2, <2>4
  <2> QED BY <2>5
<1>1. place \in [0 .. n - 1 -> 0 .. n - 1]
  BY <1>14, <1>17
<1>2. \A c \in 0 .. n - 1 : \E a \in 0 .. n - 1 : place[a] = c
  BY <1>1, <1>19, OneToOneIsOnto
<1>3. \A i \in 1 .. n : i - 1 \in 0 .. n - 1 /\ pos[i] = 1 + place[i - 1]
  BY <1>0, <1>15, <1>16
<1>5. \A i \in 1 .. n : pos[i] \in 1 .. n
  <2> SUFFICES ASSUME NEW i \in 1 .. n PROVE pos[i] \in 1 .. n
    OBVIOUS
  <2>1. place[i - 1] \in 0 .. n - 1 /\ pos[i] = 1 + place[i - 1]
    BY <1>3, <1>17
  <2> QED BY <2>1
<1>6. \A i, j \in 1 .. n : pos[i] = pos[j] => i = j
  <2> SUFFICES ASSUME NEW i \in 1 .. n, NEW j \in 1 .. n, pos[i] = pos[j] PROVE i = j
    OBVIOUS
  <2> DEFINE a == i - 1
             b == j - 1
  <2>1. a \in 0 .. n - 1 /\ b \in 0 .. n - 1 /\ pos[i] = 1 + place[a] /\ pos[j] = 1 + place[b]
        /\ (a = b => i = j)
    BY <1>3
  <2> HIDE DEF a, b
  <2>2. place[a] \in Int /\ place[b] \in Int
    BY <1>17, <2>1
  <2>3. place[a] = place[b]
    <3>1. 1 + place[a] = 1 + place[b]
      BY <2>1
    <3> DEFINE x == place[a]
               y == place[b]
    <3>2. x \in Int /\ y \in Int /\ 1 + x = 1 + y
      BY <2>2, <3>1
    <3> HIDE DEF x, y
    <3>3. x = y
      BY <3>2
    <3> QED BY <3>3 DEF x, y
  <2> QED BY <1>19, <2>1, <2>3
<1>7. \A p \in 1 .. n : \E i \in 1 .. n : pos[i] = p
  <2> SUFFICES ASSUME NEW p \in 1 .. n PROVE \E i \in 1 .. n : pos[i] = p
    OBVIOUS
  <2>1. p - 1 \in 0 .. n - 1
    OBVIOUS
  <2>2. PICK a \in 0 .. n - 1 : place[a] = p - 1
    BY <1>2, <2>1
  <2> DEFINE i == a + 1
  <2>3. i \in 1 .. n /\ i - 1 = a
    OBVIOUS
  <2> HIDE DEF i
  <2>4. pos[i] = 1 + place[a]
    BY <1>3, <2>3
  <2>5. pos[i] = p
    BY <2>2, <2>4
  <2> QED BY <2>3, <2>5
<1>8. ASSUME NEW i \in 1 .. n, NEW j \in 1 .. n, pos[i] < pos[j] PROVE E[i] <= E[j]
  <2> DEFINE a == i - 1
             b == j - 1
  <2>1. a \in 0 .. n - 1 /\ b \in 0 .. n - 1 /\ pos[i] = 1 + place[a] /\ pos[j] = 1 + place[b]
    BY <1>3
  <2>2. D[a] = E[i] /\ D[b] = E[j] /\ E[i] \in Int /\ E[j] \in Int
    BY <1>15
  <2> HIDE DEF a, b
  <2>3. place[a] < place[b]
    <3>1. 1 + place[a] < 1 + place[b]
      BY <1>8, <2>1
    <3> DEFINE x == place[a]
               y == place[b]
    <3>2. x \in Int /\ y \in Int /\ 1 + x < 1 + y
      BY <1>17, <2>1, <3>1
    <3> HIDE DEF x, y
    <3>3. x < y
      BY <3>2
    <3> QED BY <3>3 DEF x, y
  <2>4. D[a] < D[b] \/ D[a] = D[b]
    BY <1>18, <2>1, <2>3
  <2> QED BY <2>2, <2>4
<1> QED BY <1>5, <1>6, <1>7, <1>8

-----------------------------------------------------------------------------
(* Right answers *)

\* SortedColumn, of a call q and what it is answered.
Lacks(q, i) == i \notin q.valid \/ IsNaN(q.dtype, q.words[i])

NotAfter(q, i, j) ==
  Lacks(q, j) \/ (~Lacks(q, i) /\ ~Above(q.dtype, q.words[i], q.words[j]))

SortsValues(q, a) ==
  /\ a.valid = 1 .. Cardinality(q.valid)
  /\ \A p, r \in a.valid : p < r => ~Above(q.dtype, a.words[p], a.words[r])
  /\ \A w \in 0 .. Words(q.dtype) - 1 :
       CountOf(a.words, a.valid, w) = CountOf(q.words, q.valid, w)

SortsRows(q, a) ==
  /\ {a.words[p] + 1 : p \in DOMAIN q.words} = DOMAIN q.words
  /\ \A p, r \in DOMAIN q.words : p < r => NotAfter(q, a.words[p] + 1, a.words[r] + 1)

SortsColumn(q, a) ==
  /\ DOMAIN a.words = DOMAIN q.words
  /\ IF q.op = "argsort" THEN SortsRows(q, a) ELSE SortsValues(q, a)

\* What SortedColumn is told of the sort inside a group-by.
KeyAnswer ==
  IF ~GroupBy THEN answer
  ELSE IF pc = "gather" \/ values # << >> THEN <<DeviceAnswer>>
  ELSE IF pc = "done" THEN <<Result!PandasAnswer>> ELSE << >>

LEMMA SameWords ==
  /\ \A d, w : Result!IsNaN(d, w) <=> IsNaN(d, w)
  /\ \A d, w : KeySort!IsNaN(d, w) <=> IsNaN(d, w)
  /\ \A d, a, b : Result!Above(d, a, b) <=> Above(d, a, b)
  /\ \A d, a, b : KeySort!Above(d, a, b) <=> Above(d, a, b)
  /\ \A d : KeySort!Words(d) = Words(d)
  /\ \A S : Result!Cardinality(S) = Cardinality(S)
  /\ \A S : KeySort!Cardinality(S) = Cardinality(S)
<1>1. \A d : Result!Words(d) = Words(d) /\ KeySort!Words(d) = Words(d)
  BY DEF Words, Result!Words, KeySort!Words, radix_passes, Result!radix_passes,
         KeySort!radix_passes
<1>2. \A d : Result!SignBit(d) = SignBit(d) /\ KeySort!SignBit(d) = SignBit(d)
  BY <1>1 DEF SignBit, Result!SignBit, KeySort!SignBit
<1>3. \A d, w : (Result!IsNaN(d, w) <=> IsNaN(d, w)) /\ (KeySort!IsNaN(d, w) <=> IsNaN(d, w))
  BY <1>2 DEF IsNaN, Result!IsNaN, KeySort!IsNaN
<1>4. \A d, w : Result!Number(d, w) = Number(d, w) /\ KeySort!Number(d, w) = Number(d, w)
  BY <1>1, <1>2 DEF Number, Result!Number, KeySort!Number
<1>5. \A d, a, b : (Result!Above(d, a, b) <=> Above(d, a, b))
                   /\ (KeySort!Above(d, a, b) <=> Above(d, a, b))
  BY <1>3, <1>4 DEF Above, Result!Above, KeySort!Above
<1>6. \A S : Result!Cardinality(S) = Cardinality(S) /\ KeySort!Cardinality(S) = Cardinality(S)
  BY DEF Cardinality, Result!Cardinality, KeySort!Cardinality
<1> QED BY <1>1, <1>3, <1>5, <1>6

LEMMA KeySortIs ==
  /\ KeySort!Init <=> KeyAnswer = << >>
  /\ KeySort!vars = <<request, KeyAnswer>>
  /\ KeySort!Answered <=> Len(KeyAnswer) = 1 /\ SortsColumn(request, KeyAnswer[1])
<1>1. /\ KeySort!Init <=> KeyAnswer = << >>
      /\ KeySort!vars = <<request, KeyAnswer>>
  BY DEF KeySort!Init, KeySort!vars, KeyAnswer
<1>2. \A i : KeySort!Missing(i) <=> Lacks(request, i)
  BY SameWords DEF KeySort!Missing, Lacks
<1>3. \A i, j : KeySort!MayPrecede(i, j) <=> NotAfter(request, i, j)
  BY <1>2, SameWords DEF KeySort!MayPrecede, NotAfter
<1>4. \A a : KeySort!SortingRows(a) <=> SortsRows(request, a)
  BY <1>3 DEF KeySort!SortingRows, SortsRows, KeySort!Rows
<1>5. \A words, P, w : KeySort!Occurrences(words, P, w) = CountOf(words, P, w)
  BY SameWords DEF KeySort!Occurrences, CountOf
<1>6. \A a : KeySort!SortedValues(a) <=> SortsValues(request, a)
  BY <1>5, SameWords DEF KeySort!SortedValues, KeySort!Ascending, SortsValues
<1>7. KeySort!Answered <=> Len(KeyAnswer) = 1 /\ SortsColumn(request, KeyAnswer[1])
  BY <1>4, <1>6 DEF KeySort!Answered, KeyAnswer, SortsColumn, KeySort!Rows
<1> QED BY <1>1, <1>7

\* The column and its rows.
LEMMA ColumnType ==
  ASSUME request \in Requests
  PROVE  /\ Length \in Nat /\ DOMAIN request.words = 1 .. Length /\ dtype \in DTypes
         /\ dtype = request.dtype
         /\ \A i \in 1 .. Length : request.words[i] \in 0 .. Words(dtype) - 1
         /\ request.valid \in SUBSET (1 .. Length)
<1>1. Length \in Nat /\ DOMAIN request.words = 1 .. Length /\ dtype \in DTypes
      /\ dtype = request.dtype
  BY RequestType DEF Rows, dtype
<1>2. request.words \in Seq(0 .. Words(dtype) - 1) /\ Length = Len(request.words)
  BY RequestType DEF Length
<1>3. \A i \in 1 .. Length : request.words[i] \in 0 .. Words(dtype) - 1
  <2> DEFINE w == request.words
             W == 0 .. Words(dtype) - 1
  <2>1. w \in Seq(W) /\ Length = Len(w)
    BY <1>2
  <2> HIDE DEF w, W
  <2>2. \A i \in 1 .. Length : w[i] \in W
    BY <1>1, <2>1
  <2> QED BY <2>2 DEF w, W
<1>4. request.valid \subseteq DOMAIN request.words
  BY RequestAssumption
<1> QED BY <1>1, <1>3, <1>4

\* Rows that are missing come last.
SortKey(q, i) == IF Lacks(q, i) THEN Words(q.dtype) ELSE Number(q.dtype, q.words[i])

LEMMA KeyDecides ==
  ASSUME request \in Requests, NEW i \in 1 .. Length, NEW j \in 1 .. Length
  PROVE  /\ SortKey(request, i) \in Int
         /\ NotAfter(request, i, j) <=> SortKey(request, i) <= SortKey(request, j)
<1> DEFINE v == request.words[i]
           w == request.words[j]
           W == Words(dtype)
           a == Number(dtype, v)
           b == Number(dtype, w)
<1>1. dtype \in DTypes /\ dtype = request.dtype /\ v \in 0 .. Words(dtype) - 1 /\ w \in 0 .. Words(dtype) - 1
  BY ColumnType
<1>2. W \in Nat /\ a \in Int /\ b \in Int /\ a < W /\ b < W
  <2>1. W \in Nat
    BY <1>1, WordType
  <2> HIDE DEF v, w
  <2> QED BY <1>1, <2>1, NumberBelow
<1>3. /\ SortKey(request, i) = IF Lacks(request, i) THEN W ELSE a
      /\ SortKey(request, j) = IF Lacks(request, j) THEN W ELSE b
  BY <1>1 DEF SortKey
<1>4. ~Lacks(request, i) /\ ~Lacks(request, j) => (Above(dtype, v, w) <=> a > b)
  BY <1>1 DEF Lacks, Above
<1>5. NotAfter(request, i, j) <=>
        Lacks(request, j) \/ (~Lacks(request, i) /\ ~Above(dtype, v, w))
  BY <1>1 DEF NotAfter
<1> HIDE DEF W, a, b, v, w
<1> QED BY <1>2, <1>3, <1>4, <1>5

\* pandas lists the rows in the order of their keys.
LEMMA PandasOrder ==
  ASSUME request \in Requests
  PROVE  /\ \A p \in 1 .. Length : Result!RowAt(p) \in 1 .. Length
         /\ \A p, q \in 1 .. Length : Result!RowAt(p) = Result!RowAt(q) => p = q
         /\ \A i \in 1 .. Length : \E p \in 1 .. Length : Result!RowAt(p) = i
         /\ \A p, q \in 1 .. Length : p < q =>
              SortKey(request, Result!RowAt(p)) <= SortKey(request, Result!RowAt(q))
<1> DEFINE n == Length
           E == [i \in 1 .. n |-> SortKey(request, i)]
           pos == [i \in 1 .. n |-> 1 + RankIn(n, E, i)]
<1>1. n \in Nat /\ Result!Rows = 1 .. n
  BY ColumnType DEF Result!Rows
<1>2. E \in [1 .. n -> Int]
  BY KeyDecides
<1>3. ASSUME NEW i \in 1 .. n PROVE RankIn(n, E, i) \in Nat
  <2>1. IsFiniteSet(1 .. n)
    BY <1>1, FS_Interval
  <2> DEFINE J == {j \in 1 .. n : E[j] < E[i] \/ (E[j] = E[i] /\ j < i)}
  <2>2. J \in SUBSET (1 .. n) /\ RankIn(n, E, i) = Cardinality(J)
    BY DEF RankIn
  <2> HIDE DEF J
  <2> QED BY <2>1, <2>2, FS_Subset, FS_CardinalityType
<1>4. pos \in [1 .. n -> Int]
  BY <1>3
<1>5. ASSUME NEW i \in 1 .. n PROVE Result!Rank(i) = pos[i]
  <2> DEFINE J == {j \in 1 .. n : E[j] < E[i] \/ (E[j] = E[i] /\ j < i)}
             K == {j \in Result!Rows : \/ ~Result!MayPrecede(i, j)
                                       \/ Result!MayPrecede(j, i) /\ j < i}
  <2>1. ASSUME NEW j \in 1 .. n
        PROVE  (~Result!MayPrecede(i, j) \/ (Result!MayPrecede(j, i) /\ j < i))
                 <=> (E[j] < E[i] \/ (E[j] = E[i] /\ j < i))
    <3>1. /\ Result!MayPrecede(i, j) <=> NotAfter(request, i, j)
          /\ Result!MayPrecede(j, i) <=> NotAfter(request, j, i)
      BY SameWords DEF Result!MayPrecede, Result!Missing, NotAfter, Lacks
    <3>2. /\ E[i] = SortKey(request, i) /\ E[j] = SortKey(request, j)
          /\ E[i] \in Int /\ E[j] \in Int
      BY <1>2
    <3>3. /\ NotAfter(request, i, j) <=> SortKey(request, i) <= SortKey(request, j)
          /\ NotAfter(request, j, i) <=> SortKey(request, j) <= SortKey(request, i)
      BY KeyDecides
    <3> DEFINE x == E[i]
               y == E[j]
    <3>4. /\ x \in Int /\ y \in Int
          /\ NotAfter(request, i, j) <=> x <= y
          /\ NotAfter(request, j, i) <=> y <= x
      BY <3>2, <3>3
    <3>5. (~Result!MayPrecede(i, j) \/ (Result!MayPrecede(j, i) /\ j < i))
            <=> (y < x \/ (y = x /\ j < i))
      <4> HIDE DEF x, y
      <4> QED BY <3>1, <3>4
    <3> QED BY <3>5
  <2>2. K = J
    <3> HIDE DEF E
    <3> QED BY <1>1, <2>1
  <2>3. Result!Rank(i) = 1 + Cardinality(K)
    BY SameWords DEF Result!Rank
  <2> QED BY <2>2, <2>3 DEF RankIn
<1>6. \A i \in 1 .. n : pos[i] = 1 + RankIn(n, E, i)
  OBVIOUS
<1> HIDE DEF E, pos, n
<1>7. /\ \A i \in 1 .. n : pos[i] \in 1 .. n
      /\ \A i, j \in 1 .. n : pos[i] = pos[j] => i = j
      /\ \A p \in 1 .. n : \E i \in 1 .. n : pos[i] = p
      /\ \A i, j \in 1 .. n : pos[i] < pos[j] => E[i] <= E[j]
  BY <1>1, <1>2, <1>4, <1>6, RanksOrder
<1>8. ASSUME NEW p \in 1 .. n
      PROVE  Result!RowAt(p) \in 1 .. n /\ pos[Result!RowAt(p)] = p
  <2>1. \E i \in Result!Rows : Result!Rank(i) = p
    BY <1>1, <1>5, <1>7
  <2>2. Result!RowAt(p) \in Result!Rows /\ Result!Rank(Result!RowAt(p)) = p
    BY <2>1 DEF Result!RowAt
  <2> QED BY <1>1, <1>5, <2>2
<1>9. \A p, q \in 1 .. n : Result!RowAt(p) = Result!RowAt(q) => p = q
  <2> SUFFICES ASSUME NEW p \in 1 .. n, NEW q \in 1 .. n, Result!RowAt(p) = Result!RowAt(q)
               PROVE  p = q
    OBVIOUS
  <2>1. pos[Result!RowAt(p)] = p /\ pos[Result!RowAt(q)] = q
    BY <1>8
  <2> QED BY <2>1
<1>10. ASSUME NEW i \in 1 .. n PROVE \E p \in 1 .. n : Result!RowAt(p) = i
  <2>1. pos[i] \in 1 .. n
    BY <1>7
  <2> QED BY <1>7, <1>8, <2>1
<1>11. ASSUME NEW p \in 1 .. n, NEW q \in 1 .. n, p < q
       PROVE  SortKey(request, Result!RowAt(p)) <= SortKey(request, Result!RowAt(q))
  <2> DEFINE i == Result!RowAt(p)
             j == Result!RowAt(q)
  <2>1. i \in 1 .. n /\ j \in 1 .. n /\ pos[i] = p /\ pos[j] = q
    BY <1>8
  <2> HIDE DEF i, j
  <2>2. E[i] <= E[j]
    BY <1>7, <1>11, <2>1
  <2>3. E[i] = SortKey(request, i) /\ E[j] = SortKey(request, j)
    BY <2>1 DEF E
  <2> QED BY <2>2, <2>3 DEF i, j
<1> QED BY <1>8, <1>9, <1>10, <1>11 DEF n

\* pandas' own answer is right.
LEMMA PandasSorts ==
  ASSUME request \in Requests, Sortable(request)
  PROVE  SortsColumn(request, Result!PandasAnswer)
<1> DEFINE n == Length
           V == request.valid
           k == Cardinality(V)
           row == [p \in 1 .. n |-> Result!RowAt(p)]
           a == Result!PandasAnswer
<1>1. /\ n \in Nat /\ DOMAIN request.words = 1 .. n /\ Result!Rows = 1 .. n /\ Rows = 1 .. n
      /\ V \in SUBSET (1 .. n) /\ dtype = request.dtype
  BY ColumnType DEF Result!Rows, Rows
<1>2. \A i : Lacks(request, i) <=> i \notin V
  BY DEF Sortable, Lacks
<1>3. /\ row \in [1 .. n -> 1 .. n]
      /\ \A p, q \in 1 .. n : row[p] = row[q] => p = q
      /\ \A i \in 1 .. n : \E p \in 1 .. n : row[p] = i
      /\ \A p, q \in 1 .. n : p < q => SortKey(request, row[p]) <= SortKey(request, row[q])
  <2>1. \A p \in 1 .. n : row[p] = Result!RowAt(p)
    OBVIOUS
  <2>2. row = [p \in 1 .. n |-> row[p]]
    OBVIOUS
  <2> HIDE DEF row
  <2>3. /\ \A p \in 1 .. n : row[p] \in 1 .. n
        /\ \A p, q \in 1 .. n : row[p] = row[q] => p = q
        /\ \A i \in 1 .. n : \E p \in 1 .. n : row[p] = i
        /\ \A p, q \in 1 .. n : p < q => SortKey(request, row[p]) <= SortKey(request, row[q])
    BY <2>1, PandasOrder
  <2> QED BY <2>2, <2>3
<1>4. /\ request.op = "argsort" => a.words = [p \in 1 .. n |-> row[p] - 1]
      /\ request.op # "argsort" =>
           a.words = [p \in 1 .. n |-> request.words[row[p]]] /\ a.valid = 1 .. k
  BY <1>1, SameWords DEF Result!PandasAnswer
<1> HIDE DEF row, a, n
<1>5. \A p, q \in 1 .. n : p < q => NotAfter(request, row[p], row[q])
  <2> SUFFICES ASSUME NEW p \in 1 .. n, NEW q \in 1 .. n, p < q
               PROVE  NotAfter(request, row[p], row[q])
    OBVIOUS
  <2>1. row[p] \in 1 .. Length /\ row[q] \in 1 .. Length
    BY <1>3 DEF n
  <2> QED BY <1>3, <2>1, KeyDecides
<1>6. CASE request.op = "argsort"
  <2>1. DOMAIN a.words = 1 .. n /\ \A p \in 1 .. n : a.words[p] = row[p] - 1
    <3> DEFINE w == a.words
    <3>1. w = [p \in 1 .. n |-> row[p] - 1]
      BY <1>4, <1>6
    <3> HIDE DEF w
    <3>2. DOMAIN w = 1 .. n /\ \A p \in 1 .. n : w[p] = row[p] - 1
      BY <3>1
    <3> QED BY <3>2 DEF w
  <2>2. \A p \in 1 .. n : a.words[p] + 1 = row[p]
    <3> SUFFICES ASSUME NEW p \in 1 .. n PROVE a.words[p] + 1 = row[p]
      OBVIOUS
    <3>1. row[p] \in Int /\ a.words[p] = row[p] - 1
      BY <1>1, <1>3, <2>1
    <3> QED BY <3>1
  <2>3. {a.words[p] + 1 : p \in 1 .. n} = 1 .. n
    <3>1. \A p \in 1 .. n : a.words[p] + 1 \in 1 .. n
      BY <1>3, <2>2
    <3>2. \A i \in 1 .. n : \E p \in 1 .. n : a.words[p] + 1 = i
      BY <1>3, <2>2
    <3> QED BY <3>1, <3>2
  <2>4. SortsRows(request, a)
    BY <1>1, <1>5, <2>2, <2>3 DEF SortsRows
  <2> QED BY <1>1, <1>6, <2>1, <2>4 DEF SortsColumn, a
<1>7. CASE request.op # "argsort"
  <2>1. /\ a.valid = 1 .. k /\ DOMAIN a.words = 1 .. n
        /\ \A p \in 1 .. n : a.words[p] = request.words[row[p]]
    <3> DEFINE w == a.words
    <3>1. w = [p \in 1 .. n |-> request.words[row[p]]] /\ a.valid = 1 .. k
      BY <1>4, <1>7
    <3> HIDE DEF w
    <3>2. DOMAIN w = 1 .. n /\ \A p \in 1 .. n : w[p] = request.words[row[p]]
      BY <3>1
    <3> QED BY <3>1, <3>2 DEF w
  <2>2. Listing(n, row, V)
    <3>1. \A p, q \in 1 .. n : p < q /\ row[q] \in V => row[p] \in V
      BY <1>2, <1>5 DEF NotAfter
    <3> QED BY <1>1, <1>3, <3>1 DEF Listing
  <2>3. k \in 0 .. n /\ \A p \in 1 .. n : p <= k <=> row[p] \in V
    <3> HIDE DEF V
    <3> QED BY <1>1, <2>2, ListingBegins
  <2>4. ASSUME NEW w PROVE CountOf(a.words, 1 .. k, w) = CountOf(request.words, V, w)
    <3>1. {p \in 1 .. k : a.words[p] = w} = {p \in 1 .. k : request.words[row[p]] = w}
      <4> HIDE DEF k, V
      <4>1. \A p \in 1 .. k : p \in 1 .. n
        BY <1>1, <2>3
      <4> QED BY <2>1, <4>1
    <3>2. Cardinality({p \in 1 .. Cardinality(V) : request.words[row[p]] = w})
            = CountOf(request.words, V, w)
      <4> HIDE DEF V
      <4> QED BY <1>1, <2>2, ListingCounts
    <3> QED BY <3>1, <3>2 DEF CountOf
  <2>5. ASSUME NEW p \in 1 .. k, NEW q \in 1 .. k, p < q
        PROVE  ~Above(request.dtype, a.words[p], a.words[q])
    <3>1. p \in 1 .. n /\ q \in 1 .. n /\ q <= k
      <4> HIDE DEF k
      <4> QED BY <1>1, <2>3
    <3>2. row[q] \in V
      BY <2>3, <3>1
    <3>3. NotAfter(request, row[p], row[q]) /\ ~Lacks(request, row[q])
      BY <1>2, <1>5, <2>5, <3>1, <3>2
    <3> QED BY <2>1, <3>1, <3>3 DEF NotAfter
  <2>6. SortsValues(request, a)
    BY <2>1, <2>4, <2>5 DEF SortsValues
  <2> QED BY <1>1, <1>7, <2>1, <2>6 DEF SortsColumn, a
<1> QED BY <1>6, <1>7

-----------------------------------------------------------------------------
(* The end of a sort *)

ThroughNetwork == request.op # "groupby" /\ Length < request.bitonic_max_n

\* Where the answer is when it is read.
Placed ==
  /\ from = IF pass = 1 THEN 1 ELSE 0
  /\ pc = "wait" => pass \in {0, radix_passes(dtype)}
  /\ pc \in {"gather", "lead"} => pass = radix_passes(dtype)
  /\ InNetwork \/ (pc = "wait" /\ pass = 0) => ThroughNetwork
  /\ pc \in {"count", "scatter"} \/ pass > 0 => ~ThroughNetwork

\* Nobody has answered before, and the values are gathered when the sort is over.
Unanswered ==
  /\ pc \in {"gather", "lead", "read"} => GroupBy
  /\ pc \notin {"read", "done"} => answer = << >>
  /\ pc \notin {"lead", "read", "failed", "done"} => values = << >>
  /\ pc \in {"lead", "read"} => values # << >>

Ends == Placed /\ Unanswered

LEMMA NoCellIsNaN ==
  ASSUME SortableColumns, request \in Requests
  PROVE  PaddedNumbers
<1> SUFFICES ASSUME NEW c \in Cells PROVE ~IsNaN(dtype, Padded[c])
  BY DEF PaddedNumbers
<1>1. /\ Length \in Nat /\ DOMAIN request.words = 1 .. Length /\ dtype = request.dtype
      /\ Cells \subseteq Nat /\ Sortable(request)
  BY ColumnType, CellType DEF Cells, SortableColumns
<1>2. ~IsNaN(dtype, MaxWord(dtype))
  BY ColumnType, NumberType
<1>3. CASE c < Length
  <2>1. c + 1 \in 1 .. Length
    BY <1>1, <1>3
  <2>2. ~IsNaN(dtype, SentinelWord(c + 1))
    BY <1>1, <1>2, <2>1 DEF Sortable, SentinelWord
  <2> QED BY <1>3, <2>2 DEF Padded
<1>4. CASE ~(c < Length)
  BY <1>2, <1>4 DEF Padded
<1> QED BY <1>3, <1>4

\* What a cell holds whose row number is known.
LEMMA CellOfRow ==
  ASSUME IInv, pc # "call", Sortable(request), NEW c \in Cells
  PROVE  LET i == indices[from][c] + 1
         IN  /\ i \in 1 .. Size /\ keys[from][c] \in 0 .. Words(dtype) - 1
             /\ i \in request.valid => keys[from][c] = request.words[i]
             /\ i \notin request.valid => keys[from][c] = MaxWord(dtype)
             /\ Length < i => keys[from][c] = MaxWord(dtype)
<1> DEFINE b == indices[from][c]
           i == b + 1
<1>1. /\ request \in Requests /\ Cells = 0 .. Size - 1 /\ Size \in Nat
      /\ b \in Cells /\ keys[from][c] \in 0 .. Words(dtype) - 1
      /\ keys[from][c] = Padded[b]
  <2>1. /\ request \in Requests /\ Cells = 0 .. Size - 1 /\ Size \in Nat
        /\ keys[from] \in [Cells -> 0 .. Words(dtype) - 1] /\ indices[from] \in [Cells -> Cells]
        /\ Whole(Size, Padded, keys[from], indices[from])
    BY BufferType
  <2> DEFINE W == 0 .. Words(dtype) - 1
  <2>2. keys[from] \in [Cells -> W]
    BY <2>1
  <2> HIDE DEF W
  <2>3. keys[from][c] \in W /\ indices[from][c] \in Cells
    BY <2>1, <2>2
  <2> QED BY <2>1, <2>3 DEF Whole, W
<1>2. /\ Length \in Nat /\ DOMAIN request.words = 1 .. Length
      /\ request.valid \in SUBSET (1 .. Length)
  BY <1>1, ColumnType
<1> HIDE DEF b
<1>3. i \in 1 .. Size /\ (b < Length <=> i \in 1 .. Length) /\ (Length < i <=> ~(b < Length))
  BY <1>1, <1>2
<1>4. CASE b < Length
  <2>1. keys[from][c] = SentinelWord(i)
    BY <1>1, <1>4 DEF Padded
  <2>2. request.op # "sort" => i \in request.valid
    BY <1>2, <1>3, <1>4 DEF Sortable
  <2> QED BY <1>1, <1>3, <1>4, <2>1, <2>2 DEF SentinelWord, b
<1>5. CASE ~(b < Length)
  <2>1. keys[from][c] = MaxWord(dtype) /\ i \notin request.valid
    BY <1>1, <1>2, <1>3, <1>5 DEF Padded
  <2> QED BY <1>1, <1>3, <2>1 DEF b
<1> QED BY <1>4, <1>5

\* When the answer is read the column is in order, and the padding of an argsort or
\* a group-by is behind its rows.
LEMMA SortedCells ==
  ASSUME SortableColumns, IInv, Sorting, Ends, pc \in {"wait", "gather", "lead"}
  PROVE  /\ from = 0
         /\ \A b, c \in Cells : b < c => Number(dtype, keys[0][b]) <= Number(dtype, keys[0][c])
         /\ \A b, c \in Cells :
              request.op # "sort" /\ b < c /\ indices[0][c] < Length => indices[0][b] < Length
<1> DEFINE W == 0 .. Words(dtype) - 1
           m == MaxWord(dtype)
<1>1. /\ request \in Requests /\ dtype \in DTypes /\ Cells = 0 .. Size - 1
      /\ Length \in Nat /\ DOMAIN request.words = 1 .. Length /\ dtype = request.dtype
      /\ keys[from] \in [Cells -> W] /\ indices[from] \in [Cells -> Cells]
      /\ Whole(Size, Padded, keys[from], indices[from])
      /\ Sortable(request) /\ m \in W /\ ~IsNaN(dtype, m)
  <2>1. request \in Requests /\ pc # "call"
    BY DEF IInv, HostTyped
  <2>2. m \in W /\ ~IsNaN(dtype, m)
    BY <2>1, ColumnType, MaxWordIsLargest, NumberType
  <2> QED BY <2>1, <2>2, ColumnType, BufferType DEF SortableColumns
<1>2. PaddedNumbers
  BY <1>1, NoCellIsNaN
<1>3. ASSUME NEW c \in Cells
      PROVE  /\ keys[from][c] \in W /\ indices[from][c] \in Nat
             /\ ~IsNaN(dtype, keys[from][c])
             /\ ~(indices[from][c] < Length) => keys[from][c] = m
             /\ indices[from][c] < Length /\ request.op # "sort" =>
                  keys[from][c] = request.words[indices[from][c] + 1]
  <2> HIDE DEF W, m
  <2>1. keys[from][c] \in W /\ indices[from][c] \in Cells
    BY <1>1
  <2>2. keys[from][c] = Padded[indices[from][c]]
    BY <1>1 DEF Whole
  <2>3. Padded[indices[from][c]] =
          IF indices[from][c] < Length THEN SentinelWord(indices[from][c] + 1) ELSE m
    BY <2>1 DEF Padded, m
  <2>4. indices[from][c] \in Nat
    BY <1>1, <2>1
  <2> QED BY <1>2, <2>1, <2>2, <2>3, <2>4 DEF PaddedNumbers, SentinelWord
<1>4. CASE pass = 0
  <2>1. from = 0 /\ pc = "wait" /\ ThroughNetwork
    <3>1. radix_passes(dtype) # 0
      BY DEF radix_passes
    <3> QED BY <1>4, <3>1 DEF Ends, Placed
  <2>2. \A b, c \in Cells : b < c => Number(dtype, keys[0][b]) <= Number(dtype, keys[0][c])
    BY <1>4, <2>1 DEF Sorting
  <2>3. ASSUME NEW b \in Cells, NEW c \in Cells, request.op # "sort", b < c,
               indices[0][c] < Length, ~(indices[0][b] < Length)
        PROVE  FALSE
    <3>1. keys[0][b] = m /\ keys[0][c] \in W /\ ~IsNaN(dtype, keys[0][c])
          /\ keys[0][c] = request.words[indices[0][c] + 1] /\ indices[0][c] \in Nat
      BY <1>3, <2>1, <2>3
    <3>2. indices[0][c] + 1 \in DOMAIN request.words
      BY <1>1, <2>3, <3>1
    <3>3. keys[0][c] # m
      <4>1. request.op = "argsort"
        BY <1>1, <2>1, <2>3, RequestAssumption DEF ThroughNetwork
      <4> QED BY <1>1, <2>1, <2>3, <3>1, <3>2, <4>1 DEF Sortable, ThroughNetwork, Length
    <3>4. Number(dtype, keys[0][c]) < Number(dtype, m)
      BY <1>1, <3>1, <3>3, MaxIsOnly DEF SortableColumns
    <3>5. Number(dtype, m) <= Number(dtype, keys[0][c])
      BY <2>2, <2>3, <3>1
    <3>6. Number(dtype, m) \in Int /\ Number(dtype, keys[0][c]) \in Int
      BY <1>1, <3>1, NumberBelow
    <3> QED BY <3>4, <3>5, <3>6
  <2> QED BY <2>1, <2>2, <2>3
<1>5. CASE pass # 0
  <2>1. pass = radix_passes(dtype) /\ pass > 0
    <3>1. pass \in Nat
      <4>1. pass \in 0 .. radix_passes(dtype) /\ radix_passes(dtype) \in {1, 2}
        BY DEF IInv, HostTyped, radix_passes
      <4> QED BY <4>1
    <3> QED BY <1>5, <3>1 DEF Ends, Placed
  <2>2. radix_passes(dtype) = 2
    <3>1. ~ThroughNetwork
      BY <2>1 DEF Ends, Placed
    <3> QED BY <1>1, <3>1 DEF Sortable, ThroughNetwork, Length
  <2>3. from = 0 /\ pass = 2
    BY <2>1, <2>2 DEF Ends, Placed
  <2>4. Ordered(Size, dtype, keys[0], indices[0], 2)
    BY <2>3 DEF IInv, InOrder
  <2>5. ASSUME NEW c \in Cells
        PROVE  RadixKey(dtype, keys[0][c]) \in W
               /\ RadixKey(dtype, keys[0][c]) % 2 ^ (RADIX_BITS * 2) = RadixKey(dtype, keys[0][c])
    <3> DEFINE N == Words(dtype)
               a == RadixKey(dtype, keys[0][c])
    <3>1. a \in 0 .. N - 1
      BY <1>1, <1>3, <2>2, <2>3, KeysFollowNumbers
    <3>2. N \in Nat \ {0} /\ N = 2 ^ (RADIX_BITS * 2)
      BY <1>1, <2>2, WordType DEF Words
    <3>3. a % N = a
      <4> HIDE DEF N, a
      <4>1. a \in Int /\ a = N * 0 + a
        BY <3>1, <3>2
      <4> QED BY <3>1, <3>2, <4>1, ModUnique
    <3> QED BY <3>1, <3>2, <3>3
  <2>6. ASSUME NEW b \in Cells, NEW c \in Cells, b < c
        PROVE  /\ RadixKey(dtype, keys[0][b]) <= RadixKey(dtype, keys[0][c])
               /\ RadixKey(dtype, keys[0][b]) < RadixKey(dtype, keys[0][c])
                  \/ indices[0][b] < indices[0][c]
    <3> DEFINE x == RadixKey(dtype, keys[0][b])
               y == RadixKey(dtype, keys[0][c])
    <3>1. x \in Int /\ y \in Int
      BY <2>5
    <3>2. x < y \/ (x = y /\ indices[0][b] < indices[0][c])
      BY <1>1, <2>4, <2>5, <2>6 DEF Ordered
    <3> HIDE DEF x, y
    <3>3. x <= y /\ (x < y \/ indices[0][b] < indices[0][c])
      BY <3>1, <3>2
    <3> QED BY <3>3 DEF x, y
  <2>7. \A b, c \in Cells : b < c => Number(dtype, keys[0][b]) <= Number(dtype, keys[0][c])
    BY <1>1, <1>3, <2>2, <2>3, <2>6, KeysFollowNumbers
  <2>8. ASSUME NEW b \in Cells, NEW c \in Cells, b < c,
               indices[0][c] < Length, ~(indices[0][b] < Length)
        PROVE  FALSE
    <3> DEFINE x == RadixKey(dtype, m)
               y == RadixKey(dtype, keys[0][c])
    <3>1. /\ keys[0][b] = m /\ keys[0][c] \in W /\ ~IsNaN(dtype, keys[0][c])
          /\ indices[0][b] \in Nat /\ indices[0][c] \in Nat
      BY <1>3, <2>3, <2>8
    <3>2. ~(indices[0][b] < indices[0][c])
      BY <1>1, <2>8, <3>1
    <3>3. x < y
      BY <2>6, <2>8, <3>1, <3>2
    <3>4. y <= x
      BY <1>1, <2>2, <3>1, KeysFollowNumbers
    <3>5. x \in Int /\ y \in Int
      BY <2>5, <2>8, <3>1
    <3> HIDE DEF x, y
    <3> QED BY <3>3, <3>4, <3>5
  <2> QED BY <2>3, <2>7, <2>8
<1> QED BY <1>4, <1>5

\* The sorted buffer lists all cells.
LEMMA CellsListed ==
  ASSUME IInv, pc # "call", from = 0, NEW row,
         row = [p \in 1 .. Size |-> indices[0][p - 1] + 1]
  PROVE  /\ Size \in Nat /\ row \in [1 .. Size -> 1 .. Size]
         /\ \A p, r \in 1 .. Size : row[p] = row[r] => p = r
         /\ \A i \in 1 .. Size : \E p \in 1 .. Size : row[p] = i
         /\ \A p \in 1 .. Size : p - 1 \in Cells /\ row[p] = indices[0][p - 1] + 1
<1> DEFINE S == 1 .. Size
<1>1. /\ Size \in Nat /\ Cells = 0 .. Size - 1 /\ indices[0] \in [Cells -> Cells]
      /\ \A c \in 0 .. Size - 1 : \E b \in 0 .. Size - 1 : indices[0][b] = c
  BY BufferType DEF Whole
<1>2. ASSUME NEW p \in S
      PROVE  p - 1 \in Cells /\ row[p] = indices[0][p - 1] + 1 /\ row[p] \in S
  <2>1. p - 1 \in 0 .. Size - 1
    BY <1>1
  <2>2. indices[0][p - 1] \in 0 .. Size - 1
    BY <1>1, <2>1
  <2>3. indices[0][p - 1] + 1 \in S
    <3> DEFINE b == indices[0][p - 1]
    <3>1. b \in 0 .. Size - 1
      BY <2>2
    <3> HIDE DEF b
    <3>2. b + 1 \in S
      BY <1>1, <3>1
    <3> QED BY <3>2 DEF b
  <2> QED BY <1>1, <2>1, <2>3
<1>3. row \in [S -> S]
  <2>1. row = [p \in S |-> row[p]]
    OBVIOUS
  <2> HIDE DEF S
  <2> QED BY <1>2, <2>1
<1>4. ASSUME NEW i \in S PROVE \E p \in S : row[p] = i
  <2>1. i - 1 \in 0 .. Size - 1 /\ (i - 1) + 1 = i
    BY <1>1
  <2>2. PICK b \in 0 .. Size - 1 : indices[0][b] = i - 1
    BY <1>1, <2>1
  <2>3. b + 1 \in S /\ (b + 1) - 1 = b
    BY <1>1
  <2>4. row[b + 1] = indices[0][b] + 1
    BY <1>2, <2>3
  <2> QED BY <2>1, <2>2, <2>3, <2>4
<1>5. \A p, r \in S : row[p] = row[r] => p = r
  <2>1. IsFiniteSet(S)
    BY <1>1, FS_Interval
  <2> HIDE DEF S
  <2>2. row \in Surjection(S, S)
    BY <1>3, <1>4 DEF Surjection
  <2>3. row \in Injection(S, S)
    BY <2>1, <2>2, FS_SurjSameCardinalityImpliesInj
  <2> QED BY <2>3 DEF Injection, IsInjective
<1> QED BY <1>1, <1>2, <1>3, <1>4, <1>5

\* The answer of an argsort.
LEMMA DeviceSortsRows ==
  ASSUME SortableColumns, IInv, Sorting, Ends, pc \in {"wait", "gather"},
         request.op = "argsort"
  PROVE  SortsColumn(request, DeviceAnswer)
<1> DEFINE N == Size
           n == Length
           V == 1 .. n
           row == [p \in 1 .. N |-> indices[0][p - 1] + 1]
           a == DeviceAnswer
<1>1. /\ request \in Requests /\ pc # "call" /\ n \in Nat /\ DOMAIN request.words = 1 .. n
      /\ dtype = request.dtype /\ dtype \in DTypes /\ n <= N /\ Rows = 1 .. n
      /\ request.valid = V /\ Sortable(request)
      /\ \A i \in V : ~Lacks(request, i)
  <2>1. request \in Requests /\ pc # "call"
    BY DEF IInv, HostTyped
  <2>2. Sortable(request)
    BY <2>1 DEF SortableColumns
  <2>3. /\ n \in Nat /\ DOMAIN request.words = 1 .. n /\ dtype = request.dtype
        /\ dtype \in DTypes /\ n <= N
    BY <2>1, ColumnType, CellType
  <2> QED BY <2>1, <2>2, <2>3 DEF Sortable, Lacks, Rows
<1>2. /\ from = 0
      /\ \A b, c \in Cells : b < c => Number(dtype, keys[0][b]) <= Number(dtype, keys[0][c])
      /\ \A b, c \in Cells : b < c /\ indices[0][c] < Length => indices[0][b] < Length
  BY SortedCells
<1>3. /\ N \in Nat /\ row \in [1 .. N -> 1 .. N]
      /\ \A p, r \in 1 .. N : row[p] = row[r] => p = r
      /\ \A i \in 1 .. N : \E p \in 1 .. N : row[p] = i
      /\ \A p \in 1 .. N : p - 1 \in Cells /\ row[p] = indices[0][p - 1] + 1
  <2>1. row = [p \in 1 .. Size |-> indices[0][p - 1] + 1]
    OBVIOUS
  <2> HIDE DEF row
  <2> QED BY <1>1, <1>2, <2>1, CellsListed
<1> HIDE DEF row, a
<1>4. ASSUME NEW p \in 1 .. N
      PROVE  /\ row[p] \in V <=> indices[0][p - 1] < n
             /\ row[p] \in V => keys[0][p - 1] = request.words[row[p]]
  <2>1. p - 1 \in Cells /\ row[p] = indices[0][p - 1] + 1
    BY <1>3
  <2>2. row[p] \in V => keys[0][p - 1] = request.words[row[p]]
    BY <1>1, <1>2, <2>1, CellOfRow
  <2>3. indices[0][p - 1] \in Nat
    <3>1. indices[0] \in [Cells -> Cells] /\ Cells = 0 .. Size - 1 /\ Size \in Nat
      BY <1>1, BufferType
    <3> QED BY <2>1, <3>1
  <2> QED BY <1>1, <2>1, <2>2, <2>3
<1>5. Listing(N, row, V)
  <2>1. ASSUME NEW p \in 1 .. N, NEW r \in 1 .. N, p < r, row[r] \in V PROVE row[p] \in V
    <3>1. p - 1 \in Cells /\ r - 1 \in Cells /\ indices[0][r - 1] < n
      BY <1>3, <1>4, <2>1
    <3>2. p - 1 < r - 1
      BY <1>3, <2>1
    <3>3. indices[0][p - 1] < n
      BY <1>2, <3>1, <3>2
    <3> QED BY <1>4, <3>3
  <2>2. V \in SUBSET (1 .. N)
    BY <1>1, <1>3
  <2> QED BY <1>3, <2>1, <2>2 DEF Listing
<1>6. Cardinality(V) = n
  BY <1>1, FS_Interval
<1>7. /\ \A p \in 1 .. N : p <= n <=> row[p] \in V
      /\ \A i \in V : \E p \in 1 .. n : row[p] = i
  <2> HIDE DEF V, n, N
  <2>1. \A p \in 1 .. N : p <= Cardinality(V) <=> row[p] \in V
    BY <1>3, <1>5, ListingBegins
  <2>2. \A i \in V : \E p \in 1 .. Cardinality(V) : row[p] = i
    BY <1>3, <1>5, ListingBegins
  <2> QED BY <1>6, <2>1, <2>2
<1>12. \A p \in 1 .. n : p \in 1 .. N
  <2> HIDE DEF n, N
  <2> QED BY <1>1, <1>3
<1>8. DOMAIN a.words = 1 .. n /\ \A p \in 1 .. n : a.words[p] + 1 = row[p]
  <2>1. a.words = [p \in 1 .. n |-> indices[0][p - 1]]
    BY <1>1 DEF DeviceAnswer, a
  <2> DEFINE w == a.words
  <2>2. DOMAIN w = 1 .. n /\ \A p \in 1 .. n : w[p] = indices[0][p - 1]
    BY <2>1
  <2> HIDE DEF w
  <2>3. \A p \in 1 .. n : row[p] = indices[0][p - 1] + 1
    BY <1>3, <1>12
  <2> QED BY <2>2, <2>3 DEF w
<1>9. {a.words[p] + 1 : p \in 1 .. n} = 1 .. n
  <2>1. \A p \in 1 .. n : a.words[p] + 1 \in 1 .. n
    <3> SUFFICES ASSUME NEW p \in 1 .. n PROVE row[p] \in V
      BY <1>8
    <3>1. p \in 1 .. N /\ p <= n
      <4> HIDE DEF n, N
      <4> QED BY <1>1, <1>12
    <3> QED BY <1>7, <3>1
  <2>2. \A i \in 1 .. n : \E p \in 1 .. n : a.words[p] + 1 = i
    BY <1>7, <1>8
  <2> QED BY <2>1, <2>2
<1>10. ASSUME NEW p \in 1 .. n, NEW r \in 1 .. n, p < r
       PROVE  NotAfter(request, row[p], row[r])
  <2>1. p \in 1 .. N /\ r \in 1 .. N /\ row[p] \in V /\ row[r] \in V
    BY <1>8, <1>9, <1>12
  <2>2. p - 1 \in Cells /\ r - 1 \in Cells /\ p - 1 < r - 1
    BY <1>3, <1>10, <2>1
  <2>3. Number(dtype, request.words[row[p]]) <= Number(dtype, request.words[row[r]])
    BY <1>2, <1>4, <2>1, <2>2
  <2>4. /\ Number(dtype, request.words[row[p]]) \in Int
        /\ Number(dtype, request.words[row[r]]) \in Int
    BY <1>1, <2>1, ColumnType, NumberBelow
  <2>5. ~Above(dtype, request.words[row[p]], request.words[row[r]])
    BY <2>3, <2>4 DEF Above
  <2> QED BY <1>1, <2>1, <2>5 DEF NotAfter
<1>11. SortsRows(request, a)
  BY <1>1, <1>8, <1>9, <1>10 DEF SortsRows
<1> QED BY <1>1, <1>8, <1>11 DEF SortsColumn, a

\* The answer of a sort.  As many cells as there are valid rows are kept: of those
\* with the largest word it does not matter which.
LEMMA DeviceSortsValues ==
  ASSUME SortableColumns, IInv, Sorting, Ends, pc \in {"wait", "gather"},
         request.op # "argsort"
  PROVE  SortsColumn(request, DeviceAnswer)
<1> DEFINE N == Size
           n == Length
           words == request.words
           valid == request.valid
           k == Cardinality(valid)
           top == MaxWord(dtype)
           V == {i \in valid : words[i] # top}
           m == Cardinality(V)
           row == [p \in 1 .. N |-> indices[0][p - 1] + 1]
           K(p) == keys[0][p - 1]
           a == DeviceAnswer
<1>1. /\ request \in Requests /\ pc # "call" /\ n \in Nat /\ DOMAIN words = 1 .. n
      /\ dtype = request.dtype /\ dtype \in DTypes /\ n <= N /\ Rows = 1 .. n
      /\ valid \in SUBSET (1 .. n) /\ Sortable(request)
      /\ top \in 0 .. Words(dtype) - 1
      /\ \A i \in valid : words[i] \in 0 .. Words(dtype) - 1 /\ ~IsNaN(dtype, words[i])
  <2>1. request \in Requests /\ pc # "call"
    BY DEF IInv, HostTyped
  <2>2. Sortable(request)
    BY <2>1 DEF SortableColumns
  <2>3. /\ n \in Nat /\ DOMAIN words = 1 .. n /\ dtype = request.dtype
        /\ dtype \in DTypes /\ n <= N /\ valid \in SUBSET (1 .. n)
        /\ \A i \in 1 .. n : words[i] \in 0 .. Words(dtype) - 1
    BY <2>1, ColumnType, CellType
  <2>4. top \in 0 .. Words(dtype) - 1
    BY <2>3, MaxWordIsLargest
  <2>5. \A i \in valid : words[i] \in 0 .. Words(dtype) - 1 /\ ~IsNaN(dtype, words[i])
    BY <2>2, <2>3 DEF Sortable
  <2> QED BY <2>1, <2>2, <2>3, <2>4, <2>5 DEF Rows
<1>2. /\ from = 0
      /\ \A b, c \in Cells : b < c => Number(dtype, keys[0][b]) <= Number(dtype, keys[0][c])
  BY SortedCells
<1>3. /\ N \in Nat /\ row \in [1 .. N -> 1 .. N]
      /\ \A p, r \in 1 .. N : row[p] = row[r] => p = r
      /\ \A i \in 1 .. N : \E p \in 1 .. N : row[p] = i
      /\ \A p \in 1 .. N : p - 1 \in Cells /\ row[p] = indices[0][p - 1] + 1
  <2>1. row = [p \in 1 .. Size |-> indices[0][p - 1] + 1]
    OBVIOUS
  <2> HIDE DEF row
  <2> QED BY <1>1, <1>2, <2>1, CellsListed
<1> HIDE DEF row
<1>4. ASSUME NEW p \in 1 .. N
      PROVE  /\ K(p) \in 0 .. Words(dtype) - 1
             /\ row[p] \in V <=> K(p) # top
             /\ row[p] \in valid => K(p) = words[row[p]]
  <2>1. p - 1 \in Cells /\ row[p] = indices[0][p - 1] + 1
    BY <1>3
  <2>2. /\ K(p) \in 0 .. Words(dtype) - 1
        /\ row[p] \in valid => K(p) = words[row[p]]
        /\ row[p] \notin valid => K(p) = top
    BY <1>1, <1>2, <2>1, CellOfRow
  <2> QED BY <2>2
<1>5. ASSUME NEW p \in 1 .. N, NEW r \in 1 .. N, p < r
      PROVE  Number(dtype, K(p)) <= Number(dtype, K(r))
  <2>1. p - 1 \in Cells /\ r - 1 \in Cells
    BY <1>3
  <2>2. p - 1 < r - 1
    BY <1>3, <1>5
  <2> QED BY <1>2, <2>1, <2>2
<1>6. Listing(N, row, V)
  <2>1. ASSUME NEW p \in 1 .. N, NEW r \in 1 .. N, p < r, row[r] \in V PROVE row[p] \in V
    <3>1. K(r) # top /\ ~IsNaN(dtype, K(r)) /\ K(r) \in 0 .. Words(dtype) - 1
      BY <1>1, <1>4, <2>1
    <3>2. Number(dtype, K(r)) < Number(dtype, top)
      BY <1>1, <3>1, MaxIsOnly DEF SortableColumns
    <3>3. Number(dtype, K(p)) <= Number(dtype, K(r))
      BY <1>5, <2>1
    <3>4. Number(dtype, K(p)) \in Int /\ Number(dtype, K(r)) \in Int /\ Number(dtype, top) \in Int
      BY <1>1, <1>4, NumberBelow
    <3>5. Number(dtype, K(p)) # Number(dtype, top)
      BY <3>2, <3>3, <3>4
    <3> QED BY <1>4, <3>5
  <2>2. V \in SUBSET (1 .. N)
    <3>1. \A i \in 1 .. n : i \in 1 .. N
      <4> HIDE DEF n, N
      <4> QED BY <1>1, <1>3
    <3> QED BY <1>1, <3>1
  <2> QED BY <1>3, <2>1, <2>2 DEF Listing
<1>7. /\ m \in Nat /\ IsFiniteSet(V)
      /\ \A p \in 1 .. N : p <= m <=> row[p] \in V
      /\ \A w : Cardinality({p \in 1 .. m : words[row[p]] = w}) = CountOf(words, V, w)
  <2> HIDE DEF V, N, words
  <2>1. Cardinality(V) \in 0 .. N /\ IsFiniteSet(V)
    BY <1>3, <1>6, ListingBegins
  <2>2. \A p \in 1 .. N : p <= Cardinality(V) <=> row[p] \in V
    BY <1>3, <1>6, ListingBegins
  <2>3. ASSUME NEW w
        PROVE  Cardinality({p \in 1 .. Cardinality(V) : words[row[p]] = w}) = CountOf(words, V, w)
    <3>1. N \in Nat
      BY <1>3
    <3> QED BY <3>1, <1>6, ListingCounts
  <2> QED BY <2>1, <2>2, <2>3
<1>8. /\ IsFiniteSet(valid) /\ k \in Nat /\ m <= k /\ k <= n
      /\ Cardinality(valid \ V) = k - m
  <2> DEFINE T == 1 .. n
  <2>1. IsFiniteSet(T) /\ Cardinality(T) = n
    BY <1>1, FS_Interval
  <2>2. valid \in SUBSET T /\ V \in SUBSET valid /\ valid \cap V = V
    BY <1>1
  <2> HIDE DEF T, V, valid
  <2>3. IsFiniteSet(valid) /\ Cardinality(valid) <= Cardinality(T)
    BY <2>1, <2>2, FS_Subset
  <2>4. Cardinality(V) <= Cardinality(valid)
    BY <2>2, <2>3, FS_Subset
  <2>5. Cardinality(valid) \in Nat
    BY <2>3, FS_CardinalityType
  <2>6. Cardinality(valid \ V) = Cardinality(valid) - Cardinality(valid \cap V)
    BY <2>3, FS_Difference
  <2> QED BY <2>1, <2>2, <2>3, <2>4, <2>5, <2>6
<1>9. /\ a.valid = 1 .. k /\ DOMAIN a.words = 1 .. n
      /\ \A p \in 1 .. k : p \in 1 .. n /\ p \in 1 .. N /\ a.words[p] = K(p)
  <2>1. a.valid = 1 .. k /\ a.words = [p \in 1 .. n |-> keys[0][p - 1]]
    BY <1>1 DEF DeviceAnswer
  <2>2. \A p \in 1 .. k : p \in 1 .. n /\ p \in 1 .. N
    <3> HIDE DEF k, n, N
    <3> QED BY <1>1, <1>3, <1>8
  <2> DEFINE w == a.words
  <2>3. w = [p \in 1 .. n |-> keys[0][p - 1]]
    BY <2>1
  <2> HIDE DEF w, n, k
  <2>4. DOMAIN w = 1 .. n /\ \A p \in 1 .. n : w[p] = keys[0][p - 1]
    BY <2>3
  <2>5. \A p \in 1 .. k : w[p] = K(p)
    BY <2>2, <2>4
  <2> QED BY <2>1, <2>2, <2>4, <2>5 DEF w
<1>10. ASSUME NEW p \in 1 .. k, NEW r \in 1 .. k, p < r
       PROVE  ~Above(dtype, a.words[p], a.words[r])
  <2>1. p \in 1 .. N /\ r \in 1 .. N /\ a.words[p] = K(p) /\ a.words[r] = K(r)
    BY <1>9
  <2>2. Number(dtype, K(p)) <= Number(dtype, K(r))
    BY <1>5, <1>10, <2>1
  <2>3. Number(dtype, K(p)) \in Int /\ Number(dtype, K(r)) \in Int
    BY <1>1, <1>4, <2>1, NumberBelow
  <2> QED BY <2>1, <2>2, <2>3 DEF Above
<1>11. ASSUME NEW w, w # top PROVE CountOf(a.words, 1 .. k, w) = CountOf(words, valid, w)
  <2>1. {i \in valid : words[i] = w} = {i \in V : words[i] = w}
    BY <1>11
  <2>2. {p \in 1 .. k : a.words[p] = w} = {p \in 1 .. m : words[row[p]] = w}
    <3>1. ASSUME NEW p \in 1 .. k, a.words[p] = w
          PROVE  p \in 1 .. m /\ words[row[p]] = w
      <4>1. p \in 1 .. N /\ K(p) = w
        BY <1>9, <3>1
      <4>2. row[p] \in V /\ words[row[p]] = w
        BY <1>4, <1>11, <4>1
      <4>3. p <= m
        BY <1>7, <4>1, <4>2
      <4> HIDE DEF m, k
      <4> QED BY <1>7, <1>8, <4>2, <4>3
    <3>2. ASSUME NEW p \in 1 .. m, words[row[p]] = w
          PROVE  p \in 1 .. k /\ a.words[p] = w
      <4>1. p \in 1 .. k /\ p <= m
        <5> HIDE DEF m, k
        <5> QED BY <1>7, <1>8
      <4>2. p \in 1 .. N /\ a.words[p] = K(p)
        BY <1>9, <4>1
      <4>3. row[p] \in valid
        BY <1>7, <4>1, <4>2
      <4> QED BY <1>4, <3>2, <4>1, <4>2, <4>3
    <3> HIDE DEF m, k, a, words
    <3> QED BY <3>1, <3>2
  <2>3. Cardinality({p \in 1 .. m : words[row[p]] = w}) = CountOf(words, V, w)
    BY <1>7
  <2> HIDE DEF m, k, a, words, V, valid
  <2> QED BY <2>1, <2>2, <2>3 DEF CountOf
<1>12. CountOf(a.words, 1 .. k, top) = CountOf(words, valid, top)
  <2>1. {i \in valid : words[i] = top} = valid \ V
    OBVIOUS
  <2>2. {p \in 1 .. k : a.words[p] = top} = m + 1 .. k
    <3>1. ASSUME NEW p \in 1 .. k PROVE a.words[p] = top <=> ~(p <= m)
      <4>1. p \in 1 .. N /\ a.words[p] = K(p)
        BY <1>9
      <4> QED BY <1>4, <1>7, <4>1
    <3> HIDE DEF m, k, a, top
    <3> QED BY <1>7, <1>8, <3>1
  <2>3. Cardinality(m + 1 .. k) = k - m
    <3> HIDE DEF m, k
    <3>1. m + 1 \in Int /\ k \in Int
      BY <1>7, <1>8
    <3>2. Cardinality(m + 1 .. k) = IF m + 1 > k THEN 0 ELSE k - (m + 1) + 1
      BY <3>1, FS_Interval
    <3> QED BY <1>7, <1>8, <3>2
  <2>4. Cardinality(valid \ V) = k - m
    BY <1>8
  <2> HIDE DEF m, k, a, words, V, valid, top
  <2> QED BY <2>1, <2>2, <2>3, <2>4 DEF CountOf
<1>13. SortsValues(request, a)
  <2>1. \A w : CountOf(a.words, 1 .. k, w) = CountOf(words, valid, w)
    BY <1>11, <1>12
  <2> HIDE DEF a
  <2> QED BY <1>1, <1>9, <1>10, <2>1 DEF SortsValues
<1> QED BY <1>1, <1>9, <1>13 DEF SortsColumn

LEMMA DeviceSorts ==
  ASSUME SortableColumns, IInv, Sorting, Ends, pc \in {"wait", "gather"}
  PROVE  SortsColumn(request, DeviceAnswer)
BY DeviceSortsRows, DeviceSortsValues

-----------------------------------------------------------------------------
(* Steps to the answer *)

\* The answers depend on the call and on the first buffers.
LEMMA SameAnswers ==
  ASSUME request' = request
  PROVE  /\ (ThroughNetwork' <=> ThroughNetwork) /\ (GroupBy' <=> GroupBy)
         /\ dtype' = dtype
         /\ Result!PandasAnswer' = Result!PandasAnswer
         /\ keys' = keys /\ indices' = indices => DeviceAnswer' = DeviceAnswer
<1>1. (ThroughNetwork' <=> ThroughNetwork) /\ (GroupBy' <=> GroupBy) /\ dtype' = dtype
  BY DEF ThroughNetwork, GroupBy, Length, dtype
<1>2. Result!PandasAnswer' = Result!PandasAnswer
  <2>1. \A i : Result!Rank(i)' = Result!Rank(i)
    BY DEF Result!Rank, Result!Rows, Result!MayPrecede, Result!Missing
  <2>2. Result!Rows' = Result!Rows
    BY DEF Result!Rows
  <2>3. \A p : Result!RowAt(p)' = Result!RowAt(p)
    BY <2>1, <2>2 DEF Result!RowAt
  <2> QED BY <2>2, <2>3 DEF Result!PandasAnswer
<1>3. keys' = keys /\ indices' = indices => DeviceAnswer' = DeviceAnswer
  BY DEF DeviceAnswer, Rows
<1> QED BY <1>1, <1>2, <1>3

InSort == pc \in {"call", "local", "global", "merge", "count", "scatter", "wait"}

\* Kernels and errors of the sort.
LEMMA KernelsPlace ==
  ASSUME IInv, Ends, SortStep \/ DeviceError, ~Return, ~FallBack
  PROVE  /\ InSort /\ pc' \in States \ {"gather", "lead", "read", "done"}
         /\ request' = request /\ answer' = answer
         /\ Placed'
<1> USE DEF InSort, States
<1>1. /\ request \in Requests /\ Length \in Nat /\ request.bitonic_max_n \in Nat
      /\ radix_passes(dtype) \in {1, 2} /\ pass \in 0 .. radix_passes(dtype)
  BY RequestType, RequestAssumption DEF IInv, HostTyped
<1>2. /\ pc \in {"call", "local", "global", "merge"} => from = 0 /\ pass = 0
      /\ pc \in {"count", "scatter"} => pass < radix_passes(dtype)
  BY DEF IInv, Phases
<1>3. /\ from = IF pass = 1 THEN 1 ELSE 0
      /\ InNetwork \/ (pc = "wait" /\ pass = 0) => ThroughNetwork
      /\ pc \in {"count", "scatter"} \/ pass > 0 => ~ThroughNetwork
  BY DEF Ends, Placed
<1>4. request' = request =>
        dtype' = dtype /\ (ThroughNetwork' <=> ThroughNetwork)
  BY SameAnswers
<1>5. CASE StartBitonic
  <2>1. /\ pc = "call" /\ pc' = "local" /\ UNCHANGED <<request, answer, from, pass>>
        /\ ThroughNetwork
    BY <1>5 DEF StartBitonic, radixVars, ThroughNetwork
  <2> QED BY <1>1, <1>2, <1>3, <1>4, <2>1 DEF Placed, InNetwork
<1>6. ASSUME NEW g \in Blocks, LoadBlock(g) \/ StepBlock(g) \/ StoreBlock(g)
      PROVE  /\ InSort /\ pc' \in States \ {"gather", "lead", "read", "done"}
             /\ request' = request /\ answer' = answer /\ Placed'
  <2>1. pc \in {"local", "merge"} /\ pc' = pc /\ UNCHANGED <<request, answer, from, pass>>
    BY <1>6 DEF LoadBlock, StepBlock, StoreBlock, InKernel, radixVars
  <2> QED BY <1>1, <1>2, <1>3, <1>4, <2>1 DEF Placed, InNetwork
<1>7. CASE EndBlocks \/ GlobalStep
  <2>1. /\ pc \in {"local", "global", "merge"} /\ pc' \in {"global", "merge", "wait"}
        /\ UNCHANGED <<request, answer, from, pass>>
    BY <1>7 DEF EndBlocks, GlobalStep, InKernel, radixVars
  <2> QED BY <1>1, <1>2, <1>3, <1>4, <2>1 DEF Placed, InNetwork
<1>8. CASE StartRadix
  <2>1. /\ pc = "call" /\ pc' = "count" /\ UNCHANGED <<request, answer, from, pass>>
        /\ Length >= request.bitonic_max_n \/ request.op = "groupby"
    BY <1>8 DEF StartRadix, radixVars
  <2>2. ~ThroughNetwork
    BY <1>1, <2>1 DEF ThroughNetwork
  <2> QED BY <1>1, <1>2, <1>3, <1>4, <2>1, <2>2 DEF Placed, InNetwork
<1>9. CASE BuildHistogram
  <2>1. pc = "count" /\ pc' = "scatter" /\ UNCHANGED <<request, answer, from, pass>>
    BY <1>9 DEF BuildHistogram
  <2> QED BY <1>1, <1>2, <1>3, <1>4, <2>1 DEF Placed, InNetwork
<1>10. ASSUME NEW c \in Cells, Scatter(c)
       PROVE  /\ InSort /\ pc' \in States \ {"gather", "lead", "read", "done"}
              /\ request' = request /\ answer' = answer /\ Placed'
  <2>1. pc = "scatter" /\ pc' = pc /\ UNCHANGED <<request, answer, from, pass>>
    BY <1>10 DEF Scatter
  <2> QED BY <1>1, <1>2, <1>3, <1>4, <2>1 DEF Placed, InNetwork
<1>11. CASE EndPass
  <2>1. /\ pc = "scatter" /\ UNCHANGED <<request, answer>>
        /\ from' = 1 - from /\ pass' = pass + 1
        /\ pc' = IF pass + 1 < radix_passes(dtype) THEN "count" ELSE "wait"
    BY <1>11 DEF EndPass, Swapped, MorePasses
  <2>2. pass \in {0, 1} /\ ~ThroughNetwork
    BY <1>1, <1>2, <1>3, <2>1
  <2> QED BY <1>1, <1>2, <1>3, <1>4, <2>1, <2>2 DEF Placed, InNetwork
<1>12. CASE DeviceError
  <2>1. pc \in {"wait", "scatter"} /\ pc' = "failed" /\ UNCHANGED <<request, answer, from, pass>>
    BY <1>12 DEF DeviceError, radixVars
  <2> QED BY <1>1, <1>2, <1>3, <1>4, <2>1 DEF Placed, InNetwork
<1> QED BY <1>5, <1>6, <1>7, <1>8, <1>9, <1>10, <1>11, <1>12 DEF SortStep

\* Only the last step of a sort answers.
Answers == UNCHANGED request /\ KeyAnswer = << >> /\ Len(KeyAnswer') = 1
           /\ SortsColumn(request, KeyAnswer'[1])

Silent == UNCHANGED <<request, KeyAnswer>>

LEMMA KernelsAreSilent ==
  ASSUME IInv, Ends, SortStep \/ DeviceError, ~Return, ~FallBack, UNCHANGED groupVars
  PROVE  Ends' /\ Silent
<1>1. /\ InSort /\ pc' \in States \ {"gather", "lead", "read", "done"}
      /\ request' = request /\ answer' = answer /\ Placed'
  BY KernelsPlace
<1>2. (GroupBy' <=> GroupBy) /\ values' = values
  BY <1>1, SameAnswers DEF groupVars
<1>3. values = << >> /\ answer = << >>
  BY <1>1 DEF Ends, Unanswered, InSort
<1>4. Unanswered'
  BY <1>1, <1>2, <1>3 DEF Unanswered
<1>5. KeyAnswer = << >> /\ KeyAnswer' = << >>
  BY <1>1, <1>2, <1>3 DEF KeyAnswer, InSort
<1> QED BY <1>1, <1>4, <1>5 DEF Ends, Silent

LEMMA ReturnAnswers ==
  ASSUME SortableColumns, IInv, Sorting, Ends, Return, UNCHANGED groupVars
  PROVE  Ends' /\ Answers
<1>1. /\ pc = "wait" /\ pc' = "done" /\ request' = request /\ answer' = <<DeviceAnswer>>
      /\ from' = from /\ pass' = pass /\ values' = values /\ ~GroupBy
  BY DEF Return, radixVars, groupVars, GroupBy
<1>2. (ThroughNetwork' <=> ThroughNetwork) /\ ~GroupBy' /\ dtype' = dtype
  BY <1>1, SameAnswers
<1>3. Ends'
  BY <1>1, <1>2 DEF Ends, Placed, Unanswered, InNetwork
<1>4. KeyAnswer = << >> /\ KeyAnswer' = <<DeviceAnswer>>
  BY <1>1, <1>2 DEF KeyAnswer, Ends, Unanswered
<1>5. SortsColumn(request, DeviceAnswer)
  BY <1>1, DeviceSorts
<1> QED BY <1>1, <1>3, <1>4, <1>5 DEF Answers

LEMMA FallBackAnswers ==
  ASSUME SortableColumns, IInv, Ends, FallBack, UNCHANGED groupVars
  PROVE  Ends' /\ Answers
<1>1. /\ pc = "failed" /\ pc' = "done" /\ request' = request
      /\ answer' = <<Result!PandasAnswer>>
      /\ from' = from /\ pass' = pass /\ values' = values /\ ~GroupBy
  BY DEF FallBack, radixVars, groupVars, GroupBy
<1>2. (ThroughNetwork' <=> ThroughNetwork) /\ ~GroupBy' /\ dtype' = dtype
  BY <1>1, SameAnswers
<1>3. Ends'
  BY <1>1, <1>2 DEF Ends, Placed, Unanswered, InNetwork
<1>4. KeyAnswer = << >> /\ KeyAnswer' = <<Result!PandasAnswer>>
  BY <1>1, <1>2 DEF KeyAnswer, Ends, Unanswered
<1>5. SortsColumn(request, Result!PandasAnswer)
  BY PandasSorts DEF SortableColumns, IInv, HostTyped
<1> QED BY <1>1, <1>3, <1>4, <1>5 DEF Answers

LEMMA StartGatherAnswers ==
  ASSUME SortableColumns, IInv, Sorting, Ends, StartGather
  PROVE  Ends' /\ Answers
<1>1. /\ pc = "wait" /\ pc' = "gather" /\ request' = request /\ answer' = answer
      /\ keys' = keys /\ indices' = indices
      /\ from' = from /\ pass' = pass /\ values' = values /\ GroupBy
  BY DEF StartGather, radixVars, groupVars
<1>2. /\ (ThroughNetwork' <=> ThroughNetwork) /\ GroupBy' /\ dtype' = dtype
      /\ DeviceAnswer' = DeviceAnswer
  BY <1>1, SameAnswers
<1>3. ~ThroughNetwork
  BY <1>1 DEF ThroughNetwork, GroupBy
<1>4. Ends'
  BY <1>1, <1>2, <1>3 DEF Ends, Placed, Unanswered, InNetwork
<1>5. KeyAnswer = << >> /\ KeyAnswer' = <<DeviceAnswer>>
  BY <1>1, <1>2 DEF KeyAnswer, Ends, Unanswered
<1>6. SortsColumn(request, DeviceAnswer)
  BY <1>1, DeviceSorts
<1> QED BY <1>1, <1>4, <1>5, <1>6 DEF Answers

\* The kernels of a group-by, which read the sorted keys.
LEMMA GroupsAreSilent ==
  ASSUME IInv, Ends,
         GatherValues \/ ReturnGroups \/ GroupError
           \/ \E t \in RowThreads : ReturnAtOnce(t) \/ DrawNumber(t) \/ WriteEntry(t)
  PROVE  Ends' /\ Silent
<1>1. /\ pc \in {"gather", "lead"} /\ pc' \in {"lead", "read", "failed"}
      /\ request' = request /\ keys' = keys /\ indices' = indices
      /\ from' = from /\ pass' = pass
      /\ pc = "gather" => values' = [c \in Cells |-> GatheredValue(c)]
      /\ pc = "lead" => values' = values
      /\ pc' # "read" => answer' = answer
  BY DEF GatherValues, ReturnGroups, GroupError, KernelEnds, ReturnAtOnce, DrawNumber,
         WriteEntry, sortVars, groupVars, radixVars
<1>2. /\ (ThroughNetwork' <=> ThroughNetwork) /\ (GroupBy' <=> GroupBy) /\ dtype' = dtype
      /\ DeviceAnswer' = DeviceAnswer
  BY <1>1, SameAnswers
<1>3. GroupBy
  BY <1>1 DEF Ends, Unanswered
<1>4. values' # << >>
  <2>1. CASE pc = "gather"
    <3>1. 0 \in Cells
      <4>1. Size \in Nat \ {0} /\ Cells = 0 .. Size - 1
        BY <1>1, BufferType
      <4> QED BY <4>1
    <3>2. DOMAIN values' = Cells
      BY <1>1, <2>1
    <3>3. DOMAIN << >> = {}
      OBVIOUS
    <3> QED BY <3>1, <3>2, <3>3
  <2>2. CASE pc = "lead"
    BY <1>1, <2>2 DEF Ends, Unanswered
  <2> QED BY <1>1, <2>1, <2>2
<1>5. Ends'
  BY <1>1, <1>2, <1>3, <1>4 DEF Ends, Placed, Unanswered, InNetwork
<1>6. KeyAnswer = <<DeviceAnswer>> /\ KeyAnswer' = <<DeviceAnswer>>
  BY <1>1, <1>2, <1>3, <1>4 DEF KeyAnswer, Ends, Unanswered
<1> QED BY <1>1, <1>5, <1>6 DEF Silent

LEMMA FallBackGroupsAnswers ==
  ASSUME SortableColumns, IInv, Ends, FallBackGroups
  PROVE  Ends' /\ (Answers \/ Silent)
<1>1. /\ pc = "failed" /\ pc' = "done" /\ request' = request /\ values' = values
      /\ keys' = keys /\ indices' = indices
      /\ from' = from /\ pass' = pass /\ GroupBy
  BY DEF FallBackGroups, radixVars, groupVars
<1>2. /\ (ThroughNetwork' <=> ThroughNetwork) /\ GroupBy' /\ dtype' = dtype
      /\ DeviceAnswer' = DeviceAnswer /\ Result!PandasAnswer' = Result!PandasAnswer
  BY <1>1, SameAnswers
<1>3. Ends'
  BY <1>1, <1>2 DEF Ends, Placed, Unanswered, InNetwork
<1>4. CASE values # << >>
  <2>1. KeyAnswer = <<DeviceAnswer>> /\ KeyAnswer' = <<DeviceAnswer>>
    BY <1>1, <1>2, <1>4 DEF KeyAnswer
  <2> QED BY <1>1, <1>3, <2>1 DEF Silent
<1>5. CASE values = << >>
  <2>1. KeyAnswer = << >> /\ KeyAnswer' = <<Result!PandasAnswer>>
    BY <1>1, <1>2, <1>5 DEF KeyAnswer
  <2>2. SortsColumn(request, Result!PandasAnswer)
    BY PandasSorts DEF SortableColumns, IInv, HostTyped
  <2> QED BY <1>1, <1>3, <2>1, <2>2 DEF Answers
<1> QED BY <1>4, <1>5

LEMMA StutteringIsSilent ==
  ASSUME Ends, UNCHANGED allVars
  PROVE  Ends' /\ Silent
<1>1. UNCHANGED <<request, answer, pc, keys, indices, from, pass, values>>
  BY DEF allVars, sortVars, groupVars, radixVars
<1>2. /\ (ThroughNetwork' <=> ThroughNetwork) /\ (GroupBy' <=> GroupBy) /\ dtype' = dtype
      /\ DeviceAnswer' = DeviceAnswer /\ Result!PandasAnswer' = Result!PandasAnswer
  BY <1>1, SameAnswers
<1>3. Ends'
  BY <1>1, <1>2 DEF Ends, Placed, Unanswered, InNetwork
<1>4. KeyAnswer' = KeyAnswer
  BY <1>1, <1>2 DEF KeyAnswer
<1> QED BY <1>1, <1>3, <1>4 DEF Silent

LEMMA StepsAnswer ==
  ASSUME SortableColumns, IInv, Sorting, Ends, GroupNext
  PROVE  Ends' /\ (Answers \/ Silent)
<1>1. CASE SortStep /\ UNCHANGED groupVars
  BY <1>1, KernelsAreSilent, ReturnAnswers, FallBackAnswers
<1>2. CASE GroupStep
  BY <1>2, StartGatherAnswers, GroupsAreSilent, FallBackGroupsAnswers DEF GroupStep
<1>3. CASE DeviceErrors
  <2>1. CASE DeviceError /\ UNCHANGED groupVars
    <3>1. pc' = "failed"
      BY <2>1 DEF DeviceError
    <3>2. ~Return /\ ~FallBack
      BY <3>1 DEF Return, FallBack
    <3> QED BY <2>1, <3>2, KernelsAreSilent
  <2> QED BY <1>3, <2>1, GroupsAreSilent DEF DeviceErrors
<1>4. CASE AllDone
  BY <1>4, StutteringIsSilent DEF AllDone
<1> QED BY <1>1, <1>2, <1>3, <1>4 DEF GroupNext, Progress

-----------------------------------------------------------------------------
(* Aggregates of a group *)

\* The member of a finite set of numbers that has a rank.
MemberAt(G, i) == CHOOSE g \in G : Cardinality({h \in G : h <= g}) = i

LEMMA RankedMembers ==
  ASSUME NEW G, \A g \in G : g \in Int, IsFiniteSet(G)
  PROVE  /\ \A i \in 1 .. Cardinality(G) : MemberAt(G, i) \in G
         /\ \A i, j \in 1 .. Cardinality(G) : MemberAt(G, i) = MemberAt(G, j) => i = j
         /\ \A g \in G : \E i \in 1 .. Cardinality(G) : MemberAt(G, i) = g
<1> DEFINE key == [g \in G |-> g]
           rank == [g \in G |-> Cardinality({h \in G : h <= g})]
           n == Cardinality(G)
<1>1. key \in [G -> Int] /\ \A a, b \in G : key[a] = key[b] => a = b
  OBVIOUS
<1>2. \A a \in G : rank[a] = Cardinality(UpToKey(G, key, a))
  <2>1. ASSUME NEW a \in G PROVE UpToKey(G, key, a) = {h \in G : h <= a}
    BY DEF UpToKey
  <2> QED BY <2>1
<1>3. \A g \in G : rank[g] = Cardinality({h \in G : h <= g})
  OBVIOUS
<1>4. /\ \A a \in G : rank[a] \in 1 .. n
      /\ \A a, b \in G : rank[a] = rank[b] => a = b
      /\ \A i \in 1 .. n : \E a \in G : rank[a] = i
  <2>1. IsFiniteSet(G)
    OBVIOUS
  <2> HIDE DEF key, rank
  <2>2. /\ \A a \in G : rank[a] \in 1 .. Cardinality(G)
        /\ \A a, b \in G : rank[a] = rank[b] => a = b
        /\ \A i \in 1 .. Cardinality(G) : \E a \in G : rank[a] = i
    BY <1>1, <1>2, <2>1, Numbering
  <2> QED BY <2>2
<1> HIDE DEF n, key, rank
<1>5. ASSUME NEW i \in 1 .. n PROVE MemberAt(G, i) \in G /\ rank[MemberAt(G, i)] = i
  <2>1. \E g \in G : Cardinality({h \in G : h <= g}) = i
    <3>1. PICK g \in G : rank[g] = i
      BY <1>4
    <3> QED BY <1>3, <3>1
  <2>2. MemberAt(G, i) \in G /\ Cardinality({h \in G : h <= MemberAt(G, i)}) = i
    BY <2>1 DEF MemberAt
  <2> QED BY <1>3, <2>2
<1>6. \A i, j \in 1 .. n : MemberAt(G, i) = MemberAt(G, j) => i = j
  BY <1>5
<1>7. \A g \in G : rank[g] \in 1 .. n /\ MemberAt(G, rank[g]) = g
  BY <1>4, <1>5
<1> QED BY <1>5, <1>6, <1>7 DEF n

\* A finite set of numbers has a least and a largest one.
LEMMA Extremes ==
  ASSUME NEW G, \A g \in G : g \in Int, IsFiniteSet(G), G # {}
  PROVE  /\ \E a \in G : \A b \in G : a <= b
         /\ \E a \in G : \A b \in G : b <= a
<1> DEFINE key == [g \in G |-> g]
           rank == [g \in G |-> Cardinality(UpToKey(G, key, g))]
           n == Cardinality(G)
<1>1. key \in [G -> Int] /\ \A a, b \in G : key[a] = key[b] => a = b
  OBVIOUS
<1>2. \A a \in G : rank[a] = Cardinality(UpToKey(G, key, a))
  OBVIOUS
<1>3. \A a, b \in G : b \in UpToKey(G, key, a) <=> b <= a
  BY DEF UpToKey
<1>4. \A a \in G : UpToKey(G, key, a) \subseteq G
  BY DEF UpToKey
<1>5. \A i \in 1 .. n : \E a \in G : rank[a] = i
  <2>1. IsFiniteSet(G)
    OBVIOUS
  <2> HIDE DEF key, rank
  <2>2. \A i \in 1 .. Cardinality(G) : \E a \in G : rank[a] = i
    BY <1>1, <1>2, <2>1, Numbering
  <2> QED BY <2>2
<1> HIDE DEF key, rank
<1>6. n \in Nat /\ n # 0
  BY FS_CardinalityType, FS_EmptySet
<1> HIDE DEF n
<1>7. PICK a \in G : rank[a] = 1
  BY <1>5, <1>6
<1>8. PICK c \in G : rank[c] = n
  BY <1>5, <1>6
<1>9. ASSUME NEW b \in G PROVE a <= b
  <2> DEFINE A == UpToKey(G, key, a)
  <2>1. IsFiniteSet(A) /\ Cardinality(A) = 1 /\ a \in A
    BY <1>2, <1>3, <1>4, <1>7, FS_Subset
  <2>2. b <= a => b \in A
    BY <1>3
  <2> HIDE DEF A
  <2>3. b \in A => b = a
    <3> SUFFICES ASSUME b \in A, b # a PROVE FALSE
      OBVIOUS
    <3>1. {a, b} \subseteq A
      BY <2>1
    <3>2. Cardinality({a, b}) = 2
      <4>1. IsFiniteSet({a}) /\ Cardinality({a}) = 1 /\ b \notin {a}
        BY FS_Singleton
      <4>2. Cardinality({a} \cup {b}) = Cardinality({a}) + 1
        BY <4>1, FS_AddElement
      <4>3. {a} \cup {b} = {a, b}
        OBVIOUS
      <4> QED BY <4>1, <4>2, <4>3
    <3>3. Cardinality({a, b}) <= Cardinality(A)
      BY <2>1, <3>1, FS_Subset
    <3> QED BY <2>1, <3>2, <3>3
  <2>4. a \in Int /\ b \in Int
    OBVIOUS
  <2> QED BY <2>2, <2>3, <2>4
<1>10. ASSUME NEW b \in G PROVE b <= c
  <2>1. UpToKey(G, key, c) = G
    BY <1>2, <1>4, <1>8, FS_Subset DEF n
  <2> QED BY <1>3, <2>1
<1> QED BY <1>9, <1>10

Plus == [q \in Int \X Int |-> q[1] + q[2]]

LEMMA PlusMonoid == Monoid(Plus, Int, 0) /\ \A a, b \in Int : Plus[<<a, b>>] = a + b
<1>1. \A a, b \in Int : Plus[<<a, b>>] = a + b
  BY DEF Plus
<1>2. Plus \in [Int \X Int -> Int]
  BY DEF Plus
<1>3. ASSUME NEW a \in Int, NEW b \in Int PROVE Plus[<<a, b>>] = Plus[<<b, a>>]
  <2>1. Plus[<<a, b>>] = a + b /\ Plus[<<b, a>>] = b + a
    BY <1>1
  <2> QED BY <2>1
<1>4. ASSUME NEW a \in Int, NEW b \in Int, NEW c \in Int
      PROVE  Plus[<<a, Plus[<<b, c>>]>>] = Plus[<<Plus[<<a, b>>], c>>]
  <2>1. a + b \in Int /\ b + c \in Int
    OBVIOUS
  <2> QED BY <1>1, <2>1
<1>5. \A a \in Int : Plus[<<a, 0>>] = a
  BY <1>1
<1> QED BY <1>1, <1>2, <1>3, <1>4, <1>5 DEF Monoid

\* The sum of the values of f over M, as the library folds it.
SumOver(f, M) == FoldFunctionOnSet(+, 0, f, M)

LEMMA SumOverIs ==
  ASSUME NEW M, IsFiniteSet(M), NEW vals, NEW f \in [M -> Int],
         \A i \in M : vals[i] = f[i]
  PROVE  SumOver(vals, M) = FoldOf(Plus, Int, 0, f, M)
<1> DEFINE V == Int
           a == 0
           adds == Adding(Plus, V, f)
<1>1. \A b \in M, x \in Int : adds[<<b, x>>] = vals[b] + x
  BY PlusMonoid DEF Adding
<1>2. adds \in FoldSteps(M, V) /\ a \in V
  <2>1. DOMAIN f = M
    OBVIOUS
  <2>2. \A q \in M \X V : Plus[<<f[q[1]], q[2]>>] \in V
    BY PlusMonoid
  <2> QED BY <2>1, <2>2 DEF Adding, FoldSteps
<1> DEFINE r[s \in SUBSET M] ==
             IF s = {} THEN 0
             ELSE LET x == CHOOSE x \in s : TRUE IN vals[x] + r[s \ {x}]
<1>3. SumOver(vals, M) = r[M]
  BY DEF SumOver, FoldFunctionOnSet, MapThenFoldSet
<1> HIDE DEF V, a, adds
<1>4. PICK g : FoldsOn(g, M, a, adds)
  BY <1>2, FoldExists
<1>5. \A s \in SUBSET M : SetFold(s, a, adds) = g[s] /\ g[s] \in V
  BY <1>2, <1>4, FoldOfFunction
<1>6. \A s \in SUBSET M : s # {} => (CHOOSE x \in s : TRUE) \in s
  OBVIOUS
<1>7. g = [s \in SUBSET M |->
             IF s = {} THEN 0
             ELSE LET x == CHOOSE x \in s : TRUE IN vals[x] + g[s \ {x}]]
  <2>1. ASSUME NEW s \in SUBSET M
        PROVE  NextFold(g, a, adds, s) =
                 IF s = {} THEN 0
                 ELSE LET x == CHOOSE x \in s : TRUE IN vals[x] + g[s \ {x}]
    <3>1. CASE s = {}
      BY <3>1 DEF NextFold, a
    <3>2. CASE s # {}
      <4> DEFINE x == CHOOSE x \in s : TRUE
      <4>1. x \in s /\ x = OneOf(s)
        BY <1>6, <3>2 DEF OneOf
      <4> HIDE DEF x
      <4>2. g[s \ {x}] \in Int /\ x \in M
        BY <1>5, <4>1 DEF V
      <4>3. adds[<<x, g[s \ {x}]>>] = vals[x] + g[s \ {x}]
        BY <1>1, <4>2
      <4>4. NextFold(g, a, adds, s) = vals[x] + g[s \ {x}]
        BY <3>2, <4>1, <4>3 DEF NextFold
      <4> QED BY <3>2, <4>4 DEF x
    <3> QED BY <3>1, <3>2
  <2>2. g = [s \in SUBSET M |-> NextFold(g, a, adds, s)]
    BY <1>4 DEF FoldsOn
  <2> QED BY <2>1, <2>2
<1>8. r = [s \in SUBSET M |->
             IF s = {} THEN 0
             ELSE LET x == CHOOSE x \in s : TRUE IN vals[x] + r[s \ {x}]]
  <2>1. \E u : u = [s \in SUBSET M |->
                      IF s = {} THEN 0
                      ELSE LET x == CHOOSE x \in s : TRUE IN vals[x] + u[s \ {x}]]
    BY <1>7
  <2> QED BY <2>1
<1> HIDE DEF r
<1>9. r = [s \in SUBSET M |-> r[s]]
  BY <1>8
<1>10. r[{}] = a
  BY <1>8 DEF a
<1>11. StepsAlong(r, M, V, adds)
  <2> SUFFICES ASSUME NEW s \in SUBSET M, s # {}, r[s \ {OneOf(s)}] \in V
               PROVE  r[s] = adds[<<OneOf(s), r[s \ {OneOf(s)}]>>]
    BY DEF StepsAlong
  <2>1. OneOf(s) \in M
    BY OneOfMember
  <2>2. r[s] = vals[OneOf(s)] + r[s \ {OneOf(s)}]
    BY <1>8 DEF OneOf
  <2> QED BY <1>1, <2>1, <2>2 DEF V
<1>12. FoldsOn(r, M, a, adds)
  BY <1>2, <1>9, <1>10, <1>11, FoldFollows
<1>13. SetFold(M, a, adds) = r[M]
  BY <1>2, <1>12, FoldOfFunction
<1> QED BY <1>3, <1>13 DEF FoldOf, a, adds, V

-----------------------------------------------------------------------------
(* The rows of a group-by *)

Aggregates == {"sum", "count", "mean", "min", "max"}

RowSet(d) == [key : {Null} \cup 0 .. Words(d) - 1, val : {Null} \cup Int]

\* A missing key or value carries a mask.  The code does not see to it: the
\* DataFrame's group-by makes no mask (_groupby_dispatch calls _make_series), so of
\* its calls this leaves out those with a NaN, and the masked calls are made to the
\* engine itself.
NoBareNull(q, masked) ==
  masked \/ \A i \in DOMAIN q.rows : q.rows[i].key # Null /\ q.rows[i].val # Null

\* The call of the engine for some rows; every key comes with a value.
SoundGroupCall(q) ==
  /\ q.agg \in Aggregates
  /\ q.rows \in Seq(RowSet(q.dtype))
  /\ \E masked \in BOOLEAN :
       q = GroupCall(q.agg, q.dtype, q.rows, masked) /\ NoBareNull(q, masked)
  /\ \A i \in DOMAIN q.rows :
       q.rows[i].key # Null =>
         \E j \in DOMAIN q.rows :
           /\ q.rows[j].key # Null /\ q.rows[j].val # Null
           /\ Number(q.dtype, q.rows[j].key) = Number(q.dtype, q.rows[i].key)

SoundGroupCalls ==
  Null \notin Int /\ \A q \in Requests : q.op = "groupby" => SoundGroupCall(q)

Present(r) == r.key # Null /\ r.val # Null

\* The place of every word among the rows: those that are present, each once.
Filters(q, place) ==
  /\ place \in [DOMAIN q.words -> DOMAIN q.rows]
  /\ \A p, r \in DOMAIN q.words : place[p] = place[r] => p = r
  /\ \A p \in DOMAIN q.words :
       /\ Present(q.rows[place[p]])
       /\ q.rows[place[p]].key = q.words[p] /\ q.rows[place[p]].val = q.vals[p]
  /\ \A i \in DOMAIN q.rows : Present(q.rows[i]) => \E p \in DOMAIN q.words : place[p] = i

LEMMA RowsFiltered ==
  ASSUME SoundGroupCalls, NEW q \in Requests, q.op = "groupby"
  PROVE  \E place : Filters(q, place)
<1>1. SoundGroupCall(q)
  BY DEF SoundGroupCalls
<1>2. PICK masked \in BOOLEAN :
        /\ q = GroupCall(q.agg, q.dtype, q.rows, masked)
        /\ masked \/ \A i \in DOMAIN q.rows : q.rows[i].key # Null /\ q.rows[i].val # Null
  BY <1>1 DEF SoundGroupCall, NoBareNull
<1> DEFINE rows == q.rows
           V == {i \in DOMAIN rows : ~masked \/ (rows[i].key # Null /\ rows[i].val # Null)}
           n == Cardinality(V)
           kept == Kept(rows, masked)
           place == [p \in 1 .. n |-> MemberAt(V, p)]
<1>3. \A i \in DOMAIN rows : i \in V <=> Present(rows[i])
  BY <1>2 DEF Present
<1>4. IsFiniteSet(V) /\ \A i \in V : i \in Int
  <2>1. Len(rows) \in Nat /\ DOMAIN rows = 1 .. Len(rows)
    BY <1>1 DEF SoundGroupCall
  <2>2. IsFiniteSet(DOMAIN rows)
    <3> DEFINE m == Len(rows)
    <3> HIDE DEF m
    <3>1. IsFiniteSet(1 .. m)
      BY <2>1, FS_Interval DEF m
    <3> QED BY <2>1, <3>1 DEF m
  <2>3. V \subseteq DOMAIN rows
    OBVIOUS
  <2> HIDE DEF V, rows
  <2> QED BY <2>1, <2>2, <2>3, FS_Subset
<1>5. kept = [p \in 1 .. n |-> rows[MemberAt(V, p)]]
  BY DEF Kept, MemberAt
<1>6. /\ q.words = [i \in DOMAIN kept |-> kept[i].key]
      /\ q.vals = [i \in DOMAIN kept |-> kept[i].val]
  <2> DEFINE c == GroupCall(q.agg, q.dtype, q.rows, masked)
  <2>1. /\ c.words = [i \in DOMAIN kept |-> kept[i].key]
        /\ c.vals = [i \in DOMAIN kept |-> kept[i].val]
    BY DEF GroupCall
  <2> HIDE DEF c
  <2> QED BY <1>2, <2>1 DEF c
<1> HIDE DEF V, kept
<1>7. /\ \A p \in 1 .. n : MemberAt(V, p) \in V
      /\ \A p, r \in 1 .. n : MemberAt(V, p) = MemberAt(V, r) => p = r
      /\ \A i \in V : \E p \in 1 .. n : MemberAt(V, p) = i
  BY <1>4, RankedMembers
<1> HIDE DEF n
<1>8. DOMAIN q.words = 1 .. n /\ V \subseteq DOMAIN rows
  BY <1>5, <1>6 DEF V
<1>9. \A p \in 1 .. n : /\ place[p] = MemberAt(V, p)
                       /\ q.words[p] = rows[MemberAt(V, p)].key
                       /\ q.vals[p] = rows[MemberAt(V, p)].val
  BY <1>5, <1>6
<1>10. place \in [1 .. n -> DOMAIN rows]
  BY <1>7, <1>8
<1> HIDE DEF place, rows
<1>11. Filters(q, place)
  BY <1>3, <1>7, <1>8, <1>9, <1>10 DEF Filters, rows
<1> QED BY <1>11

\* pandas' column is that of the rows, and its classes are the numbers.
LEMMA ColumnFacts ==
  ASSUME SortableColumns, SoundGroupCalls, request \in Requests, GroupBy
  PROVE  /\ Column = [i \in DOMAIN request.rows |-> Column[i]]
         /\ \A i \in DOMAIN request.rows :
              /\ Column[i].val = request.rows[i].val
              /\ ClassOf[Column[i].key] =
                   IF request.rows[i].key = Null THEN Null
                   ELSE Number(dtype, request.rows[i].key)
<1>1. /\ SoundGroupCall(request) /\ dtype = request.dtype /\ dtype \in DTypes
      /\ radix_passes(dtype) = 2
  BY ColumnType DEF SoundGroupCalls, SortableColumns, Sortable, GroupBy
<1>2. Words(dtype) = Words("int32")
  BY <1>1 DEF Words, radix_passes
<1>3. Column = [i \in DOMAIN request.rows |->
                  [key |-> <<dtype, request.rows[i].key>>, val |-> request.rows[i].val]]
  BY DEF Column
<1>4. ASSUME NEW i \in DOMAIN request.rows
      PROVE  request.rows[i].key \in {Null} \cup 0 .. Words("int32") - 1
  <2> DEFINE R == RowSet(dtype)
             rs == request.rows
  <2>1. rs \in Seq(R)
    BY <1>1 DEF SoundGroupCall
  <2> HIDE DEF R, rs
  <2>2. rs[i] \in R
    BY <2>1 DEF rs
  <2> QED BY <1>2, <2>2 DEF R, rs, RowSet
<1>5. ASSUME NEW k \in {Null} \cup 0 .. Words("int32") - 1
      PROVE  ClassOf[<<dtype, k>>] = IF k = Null THEN Null ELSE Number(dtype, k)
  <2> DEFINE K == {Null} \cup 0 .. Words("int32") - 1
  <2>1. k \in K /\ ClassOf = [c \in DTypes \X K |-> IF c[2] = Null THEN Null ELSE Number(c[1], c[2])]
    BY DEF ClassOf
  <2> HIDE DEF K
  <2>2. <<dtype, k>> \in DTypes \X K
    BY <1>1, <2>1
  <2> QED BY <2>1, <2>2
<1> QED BY <1>3, <1>4, <1>5

-----------------------------------------------------------------------------
(* The cells the leaders read *)

KeyNumber(c) == Number(dtype, keys[0][c])

LeadEntry(t) == [key |-> KeyNumber(t), val |-> FoldRun(t)]

\* Only leaders have numbers, each has one of its own, and who has returned has
\* written its entry there.
Led ==
  pc = "lead" =>
    /\ values = [c \in Cells |-> GatheredValue(c)]
    /\ \A t \in RowThreads : number[t] # Junk => IsLeader(t)
    /\ \A s, t \in RowThreads : number[s] # Junk /\ number[s] = number[t] => s = t
    /\ \A n \in 0 .. counter - 1 : \E t \in RowThreads : number[t] = n
    /\ \A t \in RowThreads \ active :
         IsLeader(t) => number[t] # Junk /\ entries[number[t]] = LeadEntry(t)

\* The cells in ascending order of the keys, each with the row its value is of.
CellsHold(row) ==
  /\ row \in [RowThreads -> DOMAIN request.rows]
  /\ \A b, c \in RowThreads : row[b] = row[c] => b = c
  /\ \A c \in RowThreads :
       /\ KeyNumber(c) \in Int /\ ClassOf[Column[row[c]].key] = KeyNumber(c)
       /\ values[c] \in Int /\ Column[row[c]].val = values[c]
  /\ \A i \in DOMAIN request.rows :
       ClassOf[Column[i].key] # Null /\ Column[i].val # Null =>
         \E c \in RowThreads : row[c] = i
  /\ \A i \in DOMAIN request.rows :
       ClassOf[Column[i].key] # Null =>
         \E j \in DOMAIN request.rows : /\ ClassOf[Column[j].key] = ClassOf[Column[i].key]
                                        /\ Column[j].val # Null
  /\ \A b, c \in RowThreads : b < c => KeyNumber(b) <= KeyNumber(c)

\* The rows are in the first cells, and all of them are.
LEMMA RowsInFront ==
  ASSUME SortableColumns, IInv, Sorting, Ends, pc = "lead", GroupBy
  PROVE  /\ from = 0 /\ RowThreads \subseteq Cells
         /\ \A c \in RowThreads : indices[0][c] + 1 \in 1 .. Length
         /\ \A b, c \in RowThreads : indices[0][b] = indices[0][c] => b = c
         /\ \A i \in 1 .. Length : \E c \in RowThreads : indices[0][c] + 1 = i
         /\ \A c \in RowThreads : keys[0][c] = request.words[indices[0][c] + 1]
         /\ \A b, c \in RowThreads : b < c => KeyNumber(b) <= KeyNumber(c)
<1> DEFINE N == Size
           n == Length
           V == 1 .. n
           row == [p \in 1 .. N |-> indices[0][p - 1] + 1]
<1>1. /\ request \in Requests /\ pc # "call" /\ n \in Nat /\ n <= N
      /\ RowThreads = 0 .. n - 1 /\ Cells = 0 .. N - 1
      /\ request.valid = V /\ Sortable(request)
  <2>1. request \in Requests /\ pc # "call"
    BY DEF IInv, HostTyped
  <2>2. Sortable(request) /\ request.op # "sort"
    BY <2>1 DEF SortableColumns, GroupBy
  <2>3. n \in Nat /\ DOMAIN request.words = 1 .. n /\ n <= N /\ Cells = 0 .. N - 1
    BY <2>1, ColumnType, CellType DEF Cells
  <2> QED BY <2>1, <2>2, <2>3 DEF Sortable, RowThreads
<1>2. /\ from = 0
      /\ \A b, c \in Cells : b < c => Number(dtype, keys[0][b]) <= Number(dtype, keys[0][c])
      /\ \A b, c \in Cells : b < c /\ indices[0][c] < Length => indices[0][b] < Length
  BY SortedCells DEF GroupBy
<1>3. /\ N \in Nat /\ row \in [1 .. N -> 1 .. N]
      /\ \A p, r \in 1 .. N : row[p] = row[r] => p = r
      /\ \A i \in 1 .. N : \E p \in 1 .. N : row[p] = i
      /\ \A p \in 1 .. N : p - 1 \in Cells /\ row[p] = indices[0][p - 1] + 1
  <2>1. row = [p \in 1 .. Size |-> indices[0][p - 1] + 1]
    OBVIOUS
  <2> HIDE DEF row
  <2> QED BY <1>1, <1>2, <2>1, CellsListed
<1> HIDE DEF row
<1>4. ASSUME NEW p \in 1 .. N
      PROVE  /\ indices[0][p - 1] \in Nat
             /\ row[p] \in V <=> indices[0][p - 1] < n
  <2>1. p - 1 \in Cells /\ row[p] = indices[0][p - 1] + 1
    BY <1>3
  <2>2. indices[0][p - 1] \in Nat
    <3>1. indices[0] \in [Cells -> Cells] /\ Cells = 0 .. Size - 1 /\ Size \in Nat
      BY <1>1, BufferType
    <3> QED BY <2>1, <3>1
  <2> QED BY <1>1, <2>1, <2>2
<1>5. Listing(N, row, V)
  <2>1. ASSUME NEW p \in 1 .. N, NEW r \in 1 .. N, p < r, row[r] \in V PROVE row[p] \in V
    <3>1. p - 1 \in Cells /\ r - 1 \in Cells /\ indices[0][r - 1] < n
      BY <1>3, <1>4, <2>1
    <3>2. p - 1 < r - 1
      BY <1>3, <2>1
    <3>3. indices[0][p - 1] < n
      BY <1>2, <3>1, <3>2
    <3> QED BY <1>4, <3>3
  <2>2. V \in SUBSET (1 .. N)
    BY <1>1, <1>3
  <2> QED BY <1>3, <2>1, <2>2 DEF Listing
<1>6. Cardinality(V) = n
  BY <1>1, FS_Interval
<1>7. /\ \A p \in 1 .. N : p <= n <=> row[p] \in V
      /\ \A i \in V : \E p \in 1 .. n : row[p] = i
  <2> HIDE DEF V, n, N
  <2>1. \A p \in 1 .. N : p <= Cardinality(V) <=> row[p] \in V
    BY <1>3, <1>5, ListingBegins
  <2>2. \A i \in V : \E p \in 1 .. Cardinality(V) : row[p] = i
    BY <1>3, <1>5, ListingBegins
  <2> QED BY <1>6, <2>1, <2>2
<1>8. ASSUME NEW c \in RowThreads
      PROVE  /\ c \in Cells /\ c + 1 \in 1 .. N /\ c + 1 <= n /\ (c + 1) - 1 = c
             /\ row[c + 1] \in V /\ row[c + 1] = indices[0][c] + 1
             /\ indices[0][c] \in Nat
  <2>1. c \in Cells /\ c + 1 \in 1 .. N /\ c + 1 <= n /\ (c + 1) - 1 = c
    <3> HIDE DEF n, N
    <3> QED BY <1>1, <1>3
  <2>2. row[c + 1] \in V
    BY <1>7, <2>1
  <2>3. row[c + 1] = indices[0][c] + 1 /\ indices[0][c] \in Nat
    BY <1>3, <1>4, <2>1
  <2> QED BY <2>1, <2>2, <2>3
<1>9. \A c \in RowThreads : indices[0][c] + 1 \in 1 .. Length
  BY <1>8
<1>10. ASSUME NEW b \in RowThreads, NEW c \in RowThreads, indices[0][b] = indices[0][c]
       PROVE  b = c
  <2>1. row[b + 1] = row[c + 1] /\ b + 1 \in 1 .. N /\ c + 1 \in 1 .. N
    BY <1>8, <1>10
  <2>3. b + 1 = c + 1
    BY <1>3, <2>1
  <2>2. b \in Int /\ c \in Int
    BY <1>1
  <2> QED BY <2>2, <2>3
<1>11. ASSUME NEW i \in 1 .. Length PROVE \E c \in RowThreads : indices[0][c] + 1 = i
  <2>1. PICK p \in 1 .. n : row[p] = i
    BY <1>7
  <2>2. p - 1 \in RowThreads /\ (p - 1) + 1 = p
    BY <1>1
  <2>3. row[p] = indices[0][p - 1] + 1
    BY <1>8, <2>2
  <2> QED BY <2>1, <2>2, <2>3
<1>12. \A c \in RowThreads : keys[0][c] = request.words[indices[0][c] + 1]
  BY <1>1, <1>2, <1>8, CellOfRow
<1>13. \A b, c \in RowThreads : b < c => KeyNumber(b) <= KeyNumber(c)
  BY <1>2, <1>8 DEF KeyNumber
<1> QED BY <1>2, <1>8, <1>9, <1>10, <1>11, <1>12, <1>13

LEMMA CellsKnown ==
  ASSUME SortableColumns, SoundGroupCalls, IInv, Sorting, Ends, Led, pc = "lead"
  PROVE  \E row : CellsHold(row)
<1>1. GroupBy /\ request \in Requests /\ request.op = "groupby"
  BY DEF Ends, Unanswered, GroupBy, IInv, HostTyped
<1>2. /\ SoundGroupCall(request) /\ Null \notin Int
      /\ Length \in Nat /\ DOMAIN request.words = 1 .. Length
      /\ dtype \in DTypes /\ dtype = request.dtype
      /\ \A p \in 1 .. Length : request.words[p] \in 0 .. Words(dtype) - 1
  BY <1>1, ColumnType DEF SoundGroupCalls
<1>3. PICK place : Filters(request, place)
  BY <1>1, RowsFiltered
<1>4. /\ RowThreads \subseteq Cells
      /\ \A c \in RowThreads : indices[0][c] + 1 \in 1 .. Length
      /\ \A b, c \in RowThreads : indices[0][b] = indices[0][c] => b = c
      /\ \A i \in 1 .. Length : \E c \in RowThreads : indices[0][c] + 1 = i
      /\ \A c \in RowThreads : keys[0][c] = request.words[indices[0][c] + 1]
      /\ \A b, c \in RowThreads : b < c => KeyNumber(b) <= KeyNumber(c)
  BY <1>1, RowsInFront
<1>5. /\ \A i \in DOMAIN request.rows : Column[i].val = request.rows[i].val
      /\ \A i \in DOMAIN request.rows :
           ClassOf[Column[i].key] = IF request.rows[i].key = Null THEN Null
                                    ELSE Number(dtype, request.rows[i].key)
  BY <1>1, ColumnFacts
<1> DEFINE row == [c \in RowThreads |-> place[indices[0][c] + 1]]
<1>6. \A c \in RowThreads : indices[0][c] \in Int
  <2>1. indices[0] \in [Cells -> Cells] /\ Cells = 0 .. Size - 1 /\ Size \in Nat
    BY BufferType
  <2> QED BY <1>4, <2>1
<1>7. ASSUME NEW i \in DOMAIN request.rows
      PROVE  /\ request.rows[i].key \in {Null} \cup 0 .. Words(dtype) - 1
             /\ request.rows[i].val \in {Null} \cup Int
  <2> DEFINE R == RowSet(dtype)
             rs == request.rows
  <2>1. rs \in Seq(R)
    BY <1>2 DEF SoundGroupCall
  <2> HIDE DEF R, rs
  <2>2. rs[i] \in R
    BY <2>1 DEF rs
  <2> QED BY <2>2 DEF R, rs, RowSet
<1>8. \A i \in DOMAIN request.rows :
        request.rows[i].key # Null => Number(dtype, request.rows[i].key) \in Int
  BY <1>2, <1>7, NumberBelow
<1>9. ASSUME NEW i \in DOMAIN request.rows
      PROVE  ClassOf[Column[i].key] # Null <=> request.rows[i].key # Null
  BY <1>2, <1>5, <1>8
<1>10. \A c \in RowThreads : row[c] = place[indices[0][c] + 1] /\ row[c] \in DOMAIN request.rows
  BY <1>2, <1>3, <1>4 DEF Filters
<1>11. row \in [RowThreads -> DOMAIN request.rows]
  BY <1>10
<1> HIDE DEF row
<1>12. ASSUME NEW b \in RowThreads, NEW c \in RowThreads, row[b] = row[c] PROVE b = c
  <2>1. indices[0][b] + 1 = indices[0][c] + 1
    BY <1>2, <1>3, <1>4, <1>10, <1>12 DEF Filters
  <2>2. indices[0][b] = indices[0][c]
    BY <1>6, <2>1
  <2> QED BY <1>4, <2>2
<1>13. ASSUME NEW c \in RowThreads
       PROVE  /\ KeyNumber(c) \in Int /\ ClassOf[Column[row[c]].key] = KeyNumber(c)
              /\ values[c] \in Int /\ Column[row[c]].val = values[c]
  <2> DEFINE p == indices[0][c] + 1
             i == row[c]
  <2>1. p \in 1 .. Length /\ i = place[p] /\ i \in DOMAIN request.rows
    BY <1>4, <1>10
  <2>2. keys[0][c] = request.words[p] /\ request.words[p] \in 0 .. Words(dtype) - 1
    BY <1>2, <1>4
  <2>3. values[c] = request.vals[p]
    <3>1. indices[0][c] < Length
      BY <1>2, <1>6, <2>1
    <3>2. values[c] = GatheredValue(c)
      BY <1>4 DEF Led
    <3> QED BY <3>1, <3>2 DEF GatheredValue
  <2> HIDE DEF p, i
  <2>4. /\ Present(request.rows[i])
        /\ request.rows[i].key = request.words[p] /\ request.rows[i].val = request.vals[p]
    BY <1>2, <1>3, <2>1 DEF Filters
  <2>5. request.rows[i].key # Null /\ request.rows[i].val # Null
    BY <2>4 DEF Present
  <2>6. request.rows[i].val \in Int
    BY <1>7, <2>1, <2>5
  <2>7. KeyNumber(c) = Number(dtype, request.rows[i].key)
    BY <2>2, <2>4 DEF KeyNumber
  <2>8. KeyNumber(c) \in Int
    BY <1>8, <2>1, <2>5, <2>7
  <2> QED BY <1>5, <2>1, <2>3, <2>4, <2>5, <2>6, <2>7, <2>8 DEF i
<1>14. ASSUME NEW i \in DOMAIN request.rows,
              ClassOf[Column[i].key] # Null /\ Column[i].val # Null
       PROVE  \E c \in RowThreads : row[c] = i
  <2>1. Present(request.rows[i])
    BY <1>5, <1>9, <1>14 DEF Present
  <2>2. PICK p \in 1 .. Length : place[p] = i
    BY <1>2, <1>3, <2>1 DEF Filters
  <2>3. PICK c \in RowThreads : indices[0][c] + 1 = p
    BY <1>4
  <2> QED BY <1>10, <2>2, <2>3
<1>15. ASSUME NEW i \in DOMAIN request.rows, ClassOf[Column[i].key] # Null
       PROVE  \E j \in DOMAIN request.rows : /\ ClassOf[Column[j].key] = ClassOf[Column[i].key]
                                             /\ Column[j].val # Null
  <2>1. request.rows[i].key # Null
    BY <1>9, <1>15
  <2>2. PICK j \in DOMAIN request.rows :
          /\ request.rows[j].key # Null /\ request.rows[j].val # Null
          /\ Number(dtype, request.rows[j].key) = Number(dtype, request.rows[i].key)
    BY <1>2, <2>1 DEF SoundGroupCall
  <2> QED BY <1>5, <2>1, <2>2
<1>16. CellsHold(row)
  BY <1>4, <1>11, <1>12, <1>13, <1>14, <1>15 DEF CellsHold
<1> QED BY <1>16

-----------------------------------------------------------------------------
(* Leaders, runs and groups *)

\* There is one leader for every key, and its run is all the cells with its key.
LEMMA LeadersAndRuns ==
  ASSUME NEW row, CellsHold(row), Length \in Nat
  PROVE  /\ \A s, t \in RowThreads :
              IsLeader(s) /\ IsLeader(t) /\ KeyNumber(s) = KeyNumber(t) => s = t
         /\ \A c \in RowThreads : \E t \in RowThreads : IsLeader(t) /\ KeyNumber(t) = KeyNumber(c)
         /\ \A t \in RowThreads :
              IsLeader(t) => Run(t) = {c \in RowThreads : KeyNumber(c) = KeyNumber(t)}
<1> DEFINE N == Length
<1>1. RowThreads = 0 .. N - 1 /\ N \in Nat
  BY DEF RowThreads
<1>2. \A b, c \in RowThreads : SameKey(b, c) <=> KeyNumber(b) = KeyNumber(c)
  BY DEF SameKey, KeyNumber
<1>3. \A b, c \in RowThreads : b <= c => KeyNumber(b) <= KeyNumber(c)
  <2>1. \A c \in RowThreads : KeyNumber(c) \in Int /\ c \in Int
    BY <1>1 DEF CellsHold
  <2>2. \A b, c \in RowThreads : b < c => KeyNumber(b) <= KeyNumber(c)
    BY DEF CellsHold
  <2> QED BY <2>1, <2>2
<1>4. \A c \in RowThreads : KeyNumber(c) \in Int
  BY DEF CellsHold
<1> DEFINE T == RowThreads
<1>5. \A t \in T : IsLeader(t) <=> (t > 0 => KeyNumber(t) # KeyNumber(t - 1))
  <2> SUFFICES ASSUME NEW t \in T
               PROVE  IsLeader(t) <=> (t > 0 => KeyNumber(t) # KeyNumber(t - 1))
    OBVIOUS
  <2>1. t > 0 => t - 1 \in T
    BY <1>1
  <2> QED BY <1>2, <2>1 DEF IsLeader
<1>6. ASSUME NEW t \in T, NEW c \in T, IsLeader(t), KeyNumber(c) = KeyNumber(t)
      PROVE  t <= c
  <2> SUFFICES ASSUME ~(t <= c) PROVE FALSE
    OBVIOUS
  <2>1. t > 0 /\ t - 1 \in T /\ c <= t - 1 /\ t - 1 <= t
    BY <1>1
  <2>2. KeyNumber(c) <= KeyNumber(t - 1) /\ KeyNumber(t - 1) <= KeyNumber(t)
    BY <1>3, <2>1
  <2>3. KeyNumber(t) # KeyNumber(t - 1)
    BY <1>5, <1>6, <2>1
  <2> QED BY <1>4, <1>6, <2>1, <2>2, <2>3
<1>7. ASSUME NEW s \in T, NEW t \in T, IsLeader(s), IsLeader(t), KeyNumber(s) = KeyNumber(t)
      PROVE  s = t
  <2>1. s <= t /\ t <= s
    BY <1>6, <1>7
  <2> QED BY <1>1, <2>1
<1>8. ASSUME NEW c \in T PROVE \E t \in T : IsLeader(t) /\ KeyNumber(t) = KeyNumber(c)
  <2> DEFINE K == {d \in T : KeyNumber(d) = KeyNumber(c)}
  <2>1. K \in SUBSET Nat /\ c \in K
    BY <1>1
  <2> HIDE DEF K
  <2>2. PICK t \in K : \A j \in K : t <= j
    BY <2>1, LeastNumber
  <2>3. t \in T /\ KeyNumber(t) = KeyNumber(c)
    BY <2>2 DEF K
  <2>4. ASSUME t > 0 PROVE KeyNumber(t) # KeyNumber(t - 1)
    <3>1. t - 1 \in T /\ ~(t <= t - 1)
      BY <1>1, <2>3, <2>4
    <3>2. t - 1 \notin K
      BY <2>2, <3>1
    <3> QED BY <2>3, <3>1, <3>2 DEF K
  <2> QED BY <1>5, <2>3, <2>4
<1>9. ASSUME NEW t \in T, IsLeader(t)
      PROVE  Run(t) = {c \in T : KeyNumber(c) = KeyNumber(t)}
  <2>1. ASSUME NEW c \in Run(t) PROVE c \in T /\ KeyNumber(c) = KeyNumber(t)
    <3>1. c \in t .. N - 1 /\ \A b \in t .. c : SameKey(t, b)
      BY DEF Run
    <3>2. c \in T /\ c \in t .. c
      BY <1>1, <3>1
    <3> QED BY <1>2, <3>1, <3>2
  <2>2. ASSUME NEW c \in T, KeyNumber(c) = KeyNumber(t) PROVE c \in Run(t)
    <3>1. t <= c /\ c \in t .. N - 1
      BY <1>1, <1>6, <1>9, <2>2
    <3>2. ASSUME NEW b \in t .. c PROVE SameKey(t, b)
      <4>1. b \in T /\ t <= b /\ b <= c
        BY <1>1, <3>2
      <4>2. KeyNumber(t) <= KeyNumber(b) /\ KeyNumber(b) <= KeyNumber(c)
        BY <1>3, <4>1
      <4>3. KeyNumber(t) = KeyNumber(b)
        BY <1>4, <2>2, <4>1, <4>2
      <4> QED BY <1>2, <4>1, <4>3
    <3> QED BY <3>1, <3>2 DEF Run
  <2> QED BY <2>1, <2>2
<1> QED BY <1>7, <1>8, <1>9

LEMMA GroupsCount == \A S : Groups!Cardinality(S) = Cardinality(S)
  BY DEF Groups!Cardinality, Cardinality

LEMMA GroupsSum ==
  \A I : Groups!SumOf(I) = SumOver([i \in DOMAIN Column |-> Column[i].val], I)
  BY DEF Groups!SumOf, SumOver, Groups!FoldFunctionOnSet, FoldFunctionOnSet,
         Groups!MapThenFoldSet, MapThenFoldSet

\* The run of a leader holds the rows of the group of its key.
LEMMA RunIsGroup ==
  ASSUME SortableColumns, SoundGroupCalls, request \in Requests, GroupBy, Length \in Nat,
         NEW row, CellsHold(row), NEW t \in RowThreads, IsLeader(t)
  PROVE  /\ KeyNumber(t) \in Groups!Groups /\ t \in Run(t) /\ IsFiniteSet(Run(t))
         /\ Run(t) \subseteq RowThreads
         /\ [c \in Run(t) |-> row[c]] \in [Run(t) -> Groups!Members(KeyNumber(t))]
         /\ \A b, c \in Run(t) : row[b] = row[c] => b = c
         /\ \A i \in Groups!Members(KeyNumber(t)) : \E c \in Run(t) : row[c] = i
         /\ \A c \in Run(t) : Column[row[c]].val = values[c] /\ values[c] \in Int
         /\ Groups!Members(KeyNumber(t)) \subseteq DOMAIN Column
         /\ \A i \in Groups!Members(KeyNumber(t)) : Column[i].val \in Int
<1> DEFINE g == KeyNumber(t)
           M == Groups!Members(g)
<1>1. DOMAIN Column = DOMAIN request.rows /\ Null \notin Int
  <2>1. Column = [i \in DOMAIN request.rows |-> Column[i]]
    BY ColumnFacts
  <2> QED BY <2>1 DEF SoundGroupCalls
<1>2. Run(t) = {c \in RowThreads : KeyNumber(c) = g}
  BY LeadersAndRuns
<1>3. /\ row \in [RowThreads -> DOMAIN request.rows]
      /\ \A b, c \in RowThreads : row[b] = row[c] => b = c
      /\ \A c \in RowThreads :
           /\ KeyNumber(c) \in Int /\ ClassOf[Column[row[c]].key] = KeyNumber(c)
           /\ values[c] \in Int /\ Column[row[c]].val = values[c]
      /\ \A i \in DOMAIN request.rows :
           ClassOf[Column[i].key] # Null /\ Column[i].val # Null =>
             \E c \in RowThreads : row[c] = i
  BY DEF CellsHold
<1>4. M = {i \in DOMAIN Column : ClassOf[Column[i].key] = g /\ Column[i].val # Null}
  BY DEF Groups!Members
<1>5. Groups!Groups = {ClassOf[Column[i].key] : i \in DOMAIN Column} \ {Null}
  BY DEF Groups!Groups
<1>6. g \in Int
  BY <1>3
<1> HIDE DEF M, g
<1>7. g \in Groups!Groups
  BY <1>1, <1>3, <1>5, <1>6 DEF g
<1>8. IsFiniteSet(Run(t)) /\ t \in Run(t) /\ Run(t) \subseteq RowThreads
  <2>1. IsFiniteSet(RowThreads)
    BY FS_Interval DEF RowThreads
  <2>2. Run(t) \subseteq RowThreads
    BY <1>2
  <2>3. t \in Run(t)
    BY <1>2 DEF g
  <2> QED BY <2>1, <2>2, <2>3, FS_Subset
<1>9. \A c \in Run(t) : row[c] \in M
  BY <1>1, <1>2, <1>3, <1>4
<1>10. \A i \in M : \E c \in Run(t) : row[c] = i
  BY <1>1, <1>2, <1>3, <1>4, <1>6
<1>11. \A i \in M : Column[i].val \in Int
  BY <1>3, <1>8, <1>10
<1>12. M \subseteq DOMAIN Column
  BY <1>4
<1>13. [c \in Run(t) |-> row[c]] \in [Run(t) -> M]
  BY <1>9
<1>14. /\ \A b, c \in Run(t) : row[b] = row[c] => b = c
       /\ \A c \in Run(t) : Column[row[c]].val = values[c] /\ values[c] \in Int
  BY <1>3, <1>8
<1> QED BY <1>7, <1>8, <1>10, <1>11, <1>12, <1>13, <1>14 DEF M, g

\* What a leader folds over its run is the aggregate of the group.
LEMMA FoldRunAggregates ==
  ASSUME SortableColumns, SoundGroupCalls, request \in Requests, GroupBy, Length \in Nat,
         NEW row, CellsHold(row), NEW t \in RowThreads, IsLeader(t)
  PROVE  FoldRun(t) = Groups!Aggregate(Groups!Members(KeyNumber(t)))
<1> DEFINE R == Run(t)
           M == Groups!Members(KeyNumber(t))
           vals == [c \in R |-> values[c]]
           col == [i \in DOMAIN Column |-> Column[i].val]
           f == [i \in M |-> Column[i].val]
           b == [c \in R |-> row[c]]
<1>1. /\ t \in R /\ IsFiniteSet(R)
      /\ b \in [R -> M]
      /\ \A x, y \in R : row[x] = row[y] => x = y
      /\ \A i \in M : \E c \in R : row[c] = i
      /\ \A c \in R : Column[row[c]].val = values[c] /\ values[c] \in Int
      /\ M \subseteq DOMAIN Column
      /\ \A i \in M : Column[i].val \in Int
  BY RunIsGroup
<1>2. request.agg \in Aggregates
  BY DEF SoundGroupCalls, SoundGroupCall, GroupBy
<1> DEFINE sum == FoldFunction(+, 0, vals)
<1>3. FoldRun(t) =
        CASE request.agg = "sum" -> <<sum>>
          [] request.agg = "count" -> <<Cardinality(R)>>
          [] request.agg = "mean" -> <<sum, Cardinality(R)>>
          [] request.agg = "min" -> <<CHOOSE v \in Range(vals) : \A u \in Range(vals) : v <= u>>
          [] request.agg = "max" -> <<CHOOSE v \in Range(vals) : \A u \in Range(vals) : u <= v>>
  BY DEF FoldRun
<1>4. /\ request.agg = "sum" => Groups!Aggregate(M) = <<Groups!SumOf(M)>>
      /\ request.agg = "count" => Groups!Aggregate(M) = <<Groups!Cardinality(M)>>
      /\ request.agg = "mean" /\ M # {} =>
           Groups!Aggregate(M) = <<Groups!SumOf(M), Groups!Cardinality(M)>>
      /\ request.agg = "min" /\ M # {} =>
           Groups!Aggregate(M) =
             <<Column[CHOOSE i \in M : \A j \in M : Column[i].val <= Column[j].val].val>>
      /\ request.agg = "max" /\ M # {} =>
           Groups!Aggregate(M) =
             <<Column[CHOOSE i \in M : \A j \in M : Column[j].val <= Column[i].val].val>>
  <2> HIDE DEF M
  <2> QED BY DEF Groups!Aggregate
<1>5. \A c \in R : b[c] = row[c] /\ vals[c] = values[c]
  OBVIOUS
<1>6. \A i \in M : col[i] = f[i] /\ f[i] = Column[i].val
  BY <1>1
<1>7. vals \in [R -> Int] /\ f \in [M -> Int] /\ DOMAIN vals = R
  BY <1>1
<1>8. sum = SumOver(vals, R)
  BY DEF FoldFunction, SumOver
<1>9. Groups!SumOf(M) = SumOver(col, M)
  BY GroupsSum
<1> HIDE DEF R, M, vals, col, f, b, sum
<1>10. M # {} /\ IsFiniteSet(M) /\ Cardinality(M) = Cardinality(R)
  <2>1. \A x, y \in R : b[x] = b[y] => x = y
    BY <1>1, <1>5
  <2>2. \A i \in M : \E c \in R : b[c] = i
    BY <1>1, <1>5
  <2>3. IsFiniteSet(M) /\ Cardinality(M) = Cardinality(R)
    BY <1>1, <2>1, <2>2, SameCount
  <2> QED BY <1>1, <2>3
<1>11. sum = Groups!SumOf(M)
  <2>1. Renames(b, R, M, vals, f)
    BY <1>1, <1>5, <1>6 DEF Renames
  <2>2. Monoid(Plus, Int, 0)
    BY PlusMonoid
  <2>3. FoldOf(Plus, Int, 0, vals, R) = FoldOf(Plus, Int, 0, f, M)
    BY <1>1, <1>7, <2>1, <2>2, FoldMapped
  <2>4. SumOver(vals, R) = FoldOf(Plus, Int, 0, vals, R)
    BY <1>1, <1>7, SumOverIs
  <2>5. SumOver(col, M) = FoldOf(Plus, Int, 0, f, M)
    BY <1>6, <1>7, <1>10, SumOverIs
  <2> QED BY <1>8, <1>9, <2>3, <2>4, <2>5
<1> DEFINE V == Range(vals)
<1>12. V # {} /\ IsFiniteSet(V) /\ \A v \in V : v \in Int
  <2>1. \A v \in V : \E c \in R : v = vals[c]
    BY <1>7 DEF Range
  <2>2. \A c \in R : vals[c] \in V
    BY <1>7 DEF Range
  <2>3. vals \in Surjection(R, V)
    BY <1>7, <2>1, <2>2 DEF Surjection
  <2> HIDE DEF V
  <2>4. IsFiniteSet(V)
    BY <1>1, <2>3, FS_Surjection
  <2> QED BY <1>1, <1>7, <2>1, <2>2, <2>4
<1>13. /\ \A v \in V : \E i \in M : v = Column[i].val
       /\ \A i \in M : Column[i].val \in V
  <2>1. \A v \in V : \E c \in R : v = vals[c]
    BY <1>7 DEF Range
  <2>2. \A c \in R : vals[c] \in V /\ row[c] \in M
    BY <1>1, <1>5, <1>7 DEF Range
  <2> HIDE DEF V
  <2>3. ASSUME NEW v \in V PROVE \E i \in M : v = Column[i].val
    <3>1. PICK c \in R : v = vals[c]
      BY <2>1
    <3> QED BY <1>1, <1>5, <2>2, <3>1
  <2>4. ASSUME NEW i \in M PROVE Column[i].val \in V
    <3>1. PICK c \in R : row[c] = i
      BY <1>1
    <3> QED BY <1>1, <1>5, <2>2, <3>1
  <2> QED BY <2>3, <2>4
<1>14. (\E v \in V : \A u \in V : v <= u) /\ (\E v \in V : \A u \in V : u <= v)
  <2> HIDE DEF V
  <2>1. \E v \in V : \A u \in V : v <= u
    BY <1>12, Extremes
  <2>2. \E v \in V : \A u \in V : u <= v
    BY <1>12, Extremes
  <2> QED BY <2>1, <2>2
<1>15. CASE request.agg = "min"
  <2> DEFINE w == CHOOSE v \in V : \A u \in V : v <= u
             k == CHOOSE i \in M : \A j \in M : Column[i].val <= Column[j].val
  <2>1. FoldRun(t) = <<w>> /\ Groups!Aggregate(M) = <<Column[k].val>>
    BY <1>3, <1>4, <1>10, <1>15
  <2> HIDE DEF V
  <2>2. w \in V /\ \A u \in V : w <= u
    BY <1>14
  <2>3. k \in M /\ \A j \in M : Column[k].val <= Column[j].val
    <3>1. \E i \in M : \A j \in M : Column[i].val <= Column[j].val
      BY <1>13, <2>2
    <3> QED BY <3>1
  <2> HIDE DEF w, k
  <2>4. w <= Column[k].val /\ Column[k].val <= w /\ Column[k].val \in Int /\ w \in Int
    BY <1>12, <1>13, <2>2, <2>3
  <2>5. w = Column[k].val
    BY <2>4
  <2> QED BY <2>1, <2>5 DEF M
<1>16. CASE request.agg = "max"
  <2> DEFINE w == CHOOSE v \in V : \A u \in V : u <= v
             k == CHOOSE i \in M : \A j \in M : Column[j].val <= Column[i].val
  <2>1. FoldRun(t) = <<w>> /\ Groups!Aggregate(M) = <<Column[k].val>>
    BY <1>3, <1>4, <1>10, <1>16
  <2> HIDE DEF V
  <2>2. w \in V /\ \A u \in V : u <= w
    BY <1>14
  <2>3. k \in M /\ \A j \in M : Column[j].val <= Column[k].val
    <3>1. \E i \in M : \A j \in M : Column[j].val <= Column[i].val
      BY <1>13, <2>2
    <3> QED BY <3>1
  <2> HIDE DEF w, k
  <2>4. w <= Column[k].val /\ Column[k].val <= w /\ Column[k].val \in Int /\ w \in Int
    BY <1>12, <1>13, <2>2, <2>3
  <2>5. w = Column[k].val
    BY <2>4
  <2> QED BY <2>1, <2>5 DEF M
<1>17. CASE request.agg \in {"sum", "count", "mean"}
  <2>1. Groups!Cardinality(M) = Cardinality(R)
    BY <1>10, GroupsCount
  <2> HIDE DEF V
  <2> QED BY <1>3, <1>4, <1>10, <1>11, <1>17, <2>1 DEF M
<1> QED BY <1>2, <1>15, <1>16, <1>17 DEF Aggregates

-----------------------------------------------------------------------------
(* Lists of the groups *)

\* The cells list the groups and their aggregates, as pandas does up to order.
GroupLists(cells) ==
  /\ Len(cells) = Cardinality(Groups!Groups)
  /\ {cells[i] : i \in DOMAIN cells} = {Groups!Entry(g) : g \in Groups!Groups}

LEMMA LeadersList ==
  ASSUME SortableColumns, SoundGroupCalls, IInv, Sorting, Ends, Led, pc = "lead", active = {}
  PROVE  GroupLists([i \in 1 .. counter |-> entries[i - 1]])
<1> DEFINE n == counter
           T == 1 .. n
           out == [i \in T |-> entries[i - 1]]
           G == Groups!Groups
<1>1. GroupBy /\ request \in Requests /\ Length \in Nat /\ n \in Nat
  BY RowThreadCount DEF Ends, Unanswered, IInv, HostTyped, Numbered
<1>2. PICK row : CellsHold(row)
  BY CellsKnown
<1>3. \A t \in RowThreads : number[t] = Junk \/ number[t] \in 0 .. n - 1
  BY DEF IInv, Numbered
<1>4. /\ \A t \in RowThreads : number[t] # Junk => IsLeader(t)
      /\ \A s, t \in RowThreads : number[s] # Junk /\ number[s] = number[t] => s = t
      /\ \A m \in 0 .. n - 1 : \E t \in RowThreads : number[t] = m
      /\ \A t \in RowThreads :
           IsLeader(t) => number[t] # Junk /\ entries[number[t]] = LeadEntry(t)
  BY DEF Led
<1>5. ASSUME NEW t \in RowThreads, IsLeader(t)
      PROVE  LeadEntry(t) = Groups!Entry(KeyNumber(t)) /\ KeyNumber(t) \in G
  <2>1. FoldRun(t) = Groups!Aggregate(Groups!Members(KeyNumber(t))) /\ KeyNumber(t) \in G
    BY <1>1, <1>2, <1>5, FoldRunAggregates, RunIsGroup
  <2> QED BY <2>1 DEF LeadEntry, Groups!Entry
<1>6. ASSUME NEW g \in G PROVE \E t \in RowThreads : IsLeader(t) /\ KeyNumber(t) = g
  <2>1. PICK i \in DOMAIN Column : g = ClassOf[Column[i].key] /\ g # Null
    BY DEF Groups!Groups
  <2>2. DOMAIN Column = DOMAIN request.rows
    <3>1. Column = [j \in DOMAIN request.rows |-> Column[j]]
      BY <1>1, ColumnFacts
    <3> QED BY <3>1
  <2> HIDE DEF G
  <2>3. PICK j \in DOMAIN request.rows : ClassOf[Column[j].key] = g /\ Column[j].val # Null
    BY <1>2, <2>1, <2>2 DEF CellsHold
  <2>4. PICK c \in RowThreads : row[c] = j
    BY <1>2, <2>1, <2>3 DEF CellsHold
  <2>5. KeyNumber(c) = g
    BY <1>2, <2>3, <2>4 DEF CellsHold
  <2> QED BY <1>1, <1>2, <2>5, LeadersAndRuns
<1>7. \A s, t \in RowThreads :
        IsLeader(s) /\ IsLeader(t) /\ KeyNumber(s) = KeyNumber(t) => s = t
  BY <1>1, <1>2, LeadersAndRuns
<1> DEFINE who == [i \in T |-> CHOOSE t \in RowThreads : number[t] = i - 1]
           key == [i \in T |-> KeyNumber(who[i])]
<1>8. ASSUME NEW i \in T
      PROVE  /\ who[i] \in RowThreads /\ number[who[i]] = i - 1 /\ number[who[i]] # Junk
             /\ i \in Int /\ out[i] = entries[i - 1]
  <2>1. i - 1 \in 0 .. n - 1 /\ i \in Int /\ i - 1 \in Nat
    BY <1>1
  <2>2. \E t \in RowThreads : number[t] = i - 1
    BY <1>4, <2>1
  <2>3. who[i] \in RowThreads /\ number[who[i]] = i - 1
    BY <2>2
  <2>4. out[i] = entries[i - 1]
    OBVIOUS
  <2> HIDE DEF who, out
  <2> QED BY <2>1, <2>3, <2>4, JunkAssumption
<1>9. \A i \in T : key[i] = KeyNumber(who[i])
  OBVIOUS
<1>10. DOMAIN out = T /\ Len(out) = n
  <2>1. out = [i \in 1 .. n |-> out[i]]
    OBVIOUS
  <2> HIDE DEF out
  <2>2. DOMAIN out = 1 .. n
    BY <2>1
  <2> QED BY <1>1, <2>1, <2>2
<1>11. key = [i \in T |-> key[i]]
  OBVIOUS
<1>12. T = 1 .. n
  OBVIOUS
<1> HIDE DEF who, key, out, G, T, n
<1>13. ASSUME NEW i \in T
       PROVE  IsLeader(who[i]) /\ key[i] \in G /\ out[i] = Groups!Entry(key[i])
  <2>1. IsLeader(who[i])
    BY <1>4, <1>8
  <2>2. entries[i - 1] = LeadEntry(who[i])
    BY <1>4, <1>8, <2>1
  <2> QED BY <1>5, <1>8, <1>9, <2>1, <2>2
<1>14. \A i, j \in T : key[i] = key[j] => i = j
  <2> SUFFICES ASSUME NEW i \in T, NEW j \in T, key[i] = key[j] PROVE i = j
    OBVIOUS
  <2>1. who[i] = who[j]
    BY <1>7, <1>8, <1>9, <1>13
  <2>2. i - 1 = j - 1 /\ i \in Int /\ j \in Int
    BY <1>8, <2>1
  <2> QED BY <2>2
<1>15. \A g \in G : \E i \in T : key[i] = g
  <2> SUFFICES ASSUME NEW g \in G PROVE \E i \in T : key[i] = g
    OBVIOUS
  <2>1. PICK t \in RowThreads : IsLeader(t) /\ KeyNumber(t) = g
    BY <1>6
  <2> DEFINE i == number[t] + 1
  <2>2. number[t] \in 0 .. n - 1 /\ number[t] # Junk
    BY <1>3, <1>4, <2>1
  <2>3. i \in T /\ i - 1 = number[t]
    BY <1>1, <1>12, <2>2
  <2> HIDE DEF i
  <2>4. who[i] = t
    BY <1>4, <1>8, <2>3
  <2> QED BY <1>9, <2>1, <2>3, <2>4
<1>16. {out[i] : i \in DOMAIN out} = {Groups!Entry(g) : g \in G}
  BY <1>10, <1>13, <1>15
<1>17. Cardinality(G) = n
  <2>1. IsFiniteSet(T) /\ Cardinality(T) = n
    BY <1>1, <1>12, FS_Interval
  <2>2. key \in [T -> G]
    BY <1>11, <1>13
  <2>3. Cardinality(G) = Cardinality(T)
    BY <1>14, <1>15, <2>1, <2>2, SameCount
  <2> QED BY <2>1, <2>3
<1>18. GroupLists(out)
  BY <1>10, <1>16, <1>17 DEF GroupLists, G
<1> QED BY <1>18 DEF out, T, n

\* So does pandas' own answer.
LEMMA PandasLists ==
  ASSUME SortableColumns, SoundGroupCalls, request \in Requests, GroupBy
  PROVE  GroupLists(Groups!Sorted)
<1> DEFINE G == Groups!Groups
           n == Cardinality(G)
           cells == Groups!Sorted
<1>1. /\ SoundGroupCall(request) /\ Null \notin Int /\ dtype = request.dtype
  BY ColumnType DEF SoundGroupCalls, GroupBy
<1>2. /\ Column = [i \in DOMAIN request.rows |-> Column[i]]
      /\ \A i \in DOMAIN request.rows :
           ClassOf[Column[i].key] = IF request.rows[i].key = Null THEN Null
                                    ELSE Number(dtype, request.rows[i].key)
  BY ColumnFacts
<1>3. ASSUME NEW i \in DOMAIN request.rows
      PROVE  request.rows[i].key # Null => Number(dtype, request.rows[i].key) \in Int
  <2> DEFINE R == RowSet(dtype)
             rs == request.rows
  <2>1. rs \in Seq(R)
    BY <1>1 DEF SoundGroupCall
  <2> HIDE DEF R, rs
  <2>2. rs[i] \in R
    BY <2>1 DEF rs
  <2>3. request.rows[i].key \in {Null} \cup 0 .. Words(dtype) - 1
    BY <2>2 DEF R, rs, RowSet
  <2>4. dtype \in DTypes
    BY ColumnType
  <2> QED BY <2>3, <2>4, NumberBelow
<1>4. (\A g \in G : g \in Int) /\ IsFiniteSet(G)
  <2> DEFINE D == DOMAIN request.rows
             f == [i \in D |-> ClassOf[Column[i].key]]
             H == {f[i] : i \in D}
  <2>1. DOMAIN Column = D
    BY <1>2
  <2>2. G = {ClassOf[Column[i].key] : i \in D} \ {Null}
    BY <2>1 DEF Groups!Groups
  <2>3. \A i \in D : ClassOf[Column[i].key] # Null => ClassOf[Column[i].key] \in Int
    BY <1>2, <1>3
  <2>4. IsFiniteSet(D)
    <3> DEFINE m == Len(request.rows)
    <3>1. m \in Nat /\ D = 1 .. m
      BY <1>1 DEF SoundGroupCall
    <3> HIDE DEF m, D
    <3> QED BY <3>1, FS_Interval
  <2>5. f \in Surjection(D, H)
    BY DEF Surjection
  <2>6. G \subseteq H
    BY <2>2
  <2>7. \A g \in G : g \in Int
    BY <2>2, <2>3
  <2> HIDE DEF D, f, H, G
  <2>8. IsFiniteSet(H)
    BY <2>4, <2>5, FS_Surjection
  <2> QED BY <2>6, <2>7, <2>8, FS_Subset
<1>5. n \in Nat
  BY <1>4, FS_CardinalityType
<1>6. cells = [i \in 1 .. n |-> Groups!Entry(MemberAt(G, i))]
  <2> DEFINE At(i) == CHOOSE g \in G : Groups!Cardinality({h \in G : h <= g}) = i
  <2>1. \A i : MemberAt(G, i) = At(i)
    BY DEF MemberAt, Groups!Cardinality, Cardinality
  <2>2. cells = [i \in 1 .. Groups!Cardinality(G) |-> Groups!Entry(At(i))]
    BY DEF Groups!Sorted
  <2>3. Groups!Cardinality(G) = n
    BY GroupsCount
  <2> HIDE DEF n, G, cells, At
  <2>4. cells = [i \in 1 .. n |-> Groups!Entry(At(i))]
    BY <2>2, <2>3
  <2> QED BY <2>1, <2>4
<1>7. /\ \A i \in 1 .. Cardinality(G) : MemberAt(G, i) \in G
      /\ \A g \in G : \E i \in 1 .. Cardinality(G) : MemberAt(G, i) = g
  <2> HIDE DEF G
  <2> QED BY <1>4, RankedMembers
<1>8. /\ \A i \in 1 .. n : MemberAt(G, i) \in G
      /\ \A g \in G : \E i \in 1 .. n : MemberAt(G, i) = g
  BY <1>7
<1> HIDE DEF n, G, cells
<1>9. DOMAIN cells = 1 .. n /\ \A i \in 1 .. n : cells[i] = Groups!Entry(MemberAt(G, i))
  BY <1>6
<1>10. Len(cells) = n
  BY <1>5, <1>6
<1>11. {cells[i] : i \in DOMAIN cells} = {Groups!Entry(g) : g \in G}
  BY <1>8, <1>9
<1> QED BY <1>10, <1>11 DEF GroupLists, cells, G, n

-----------------------------------------------------------------------------
(* Steps to the answer of a group-by *)

\* What the caller of a group-by sees; a sort answers the group-by of no rows.
GroupAnswer == IF ~GroupBy /\ pc = "done" THEN << << >> >> ELSE answer

GroupOp == IF GroupBy THEN request.agg ELSE "sum"

LEMMA GroupsIs ==
  /\ Groups!vars = <<Column, GroupOp, GroupAnswer>>
  /\ Groups!Init <=> GroupAnswer = << >>
  /\ Groups!Answered <=> Len(GroupAnswer) = 1 /\ GroupLists(GroupAnswer[1])
<1>1. Groups!vars = <<Column, GroupOp, GroupAnswer>>
  BY DEF Groups!vars, GroupOp, GroupAnswer
<1>2. Groups!Init <=> GroupAnswer = << >>
  BY DEF Groups!Init, Groups!NoAnswer, GroupAnswer
<1>3. Groups!Answered <=> Len(GroupAnswer) = 1 /\ GroupLists(GroupAnswer[1])
  BY GroupsCount DEF Groups!Answered, GroupAnswer, GroupLists
<1> QED BY <1>1, <1>2, <1>3

\* The groups and their aggregates are those of the call.
LEMMA SameGroups ==
  ASSUME request' = request
  PROVE  /\ Column' = Column /\ GroupOp' = GroupOp
         /\ \A cells : GroupLists(cells)' <=> GroupLists(cells)
<1>1. (GroupBy' <=> GroupBy) /\ dtype' = dtype
  BY SameAnswers
<1>2. Column' = Column /\ GroupOp' = GroupOp
  BY <1>1 DEF Column, GroupOp
<1>3. Groups!Groups' = Groups!Groups
  BY <1>2 DEF Groups!Groups
<1>4. \A g : Groups!Members(g)' = Groups!Members(g)
  BY <1>2 DEF Groups!Members
<1>5. \A I : Groups!SumOf(I)' = Groups!SumOf(I)
  <2>1. (\A I : Groups!SumOf(I) = SumOver([i \in DOMAIN Column |-> Column[i].val], I))'
    BY GroupsSum, PTL
  <2> QED BY <1>2, <2>1, GroupsSum
<1>6. \A I : Groups!Aggregate(I)' = Groups!Aggregate(I)
  BY <1>1, <1>2, <1>5 DEF Groups!Aggregate, GroupOp
<1>7. \A g : Groups!Entry(g)' = Groups!Entry(g)
  BY <1>4, <1>6 DEF Groups!Entry
<1>8. \A cells : GroupLists(cells)' <=> GroupLists(cells)
  BY <1>3, <1>7 DEF GroupLists
<1> QED BY <1>2, <1>8

\* What a leader folds, with the sum taken over the cells of its run.
RunValue(t) ==
  LET vals == [c \in Run(t) |-> values[c]]
      sum == SumOver(vals, DOMAIN vals)
  IN  CASE request.agg = "sum" -> <<sum>>
        [] request.agg = "count" -> <<Cardinality(Run(t))>>
        [] request.agg = "mean" -> <<sum, Cardinality(Run(t))>>
        [] request.agg = "min" -> <<CHOOSE v \in Range(vals) : \A u \in Range(vals) : v <= u>>
        [] request.agg = "max" -> <<CHOOSE v \in Range(vals) : \A u \in Range(vals) : u <= v>>

LEMMA FoldRunIs == \A t : FoldRun(t) = RunValue(t)
  BY DEF FoldRun, RunValue, SumOver, FoldFunction

\* Who leads and what a leader writes is fixed by the cells.
LEMMA SameEntries ==
  ASSUME request' = request, keys' = keys, values' = values
  PROVE  /\ RowThreads' = RowThreads /\ Cells' = Cells
         /\ \A c : GatheredValue(c)' = GatheredValue(c) \/ indices' # indices
         /\ \A t : (IsLeader(t)' <=> IsLeader(t)) /\ LeadEntry(t)' = LeadEntry(t)
<1>1. /\ dtype' = dtype /\ Cells' = Cells /\ Length' = Length /\ RowThreads' = RowThreads
  BY SameColumn
<1>2. \A b, c : SameKey(b, c)' <=> SameKey(b, c)
  BY <1>1 DEF SameKey
<1>3. \A t : Run(t)' = Run(t)
  BY <1>1, <1>2 DEF Run
<1>4. \A t : FoldRun(t)' = FoldRun(t)
  <2>1. (\A t : FoldRun(t) = RunValue(t))'
    BY FoldRunIs, PTL
  <2>2. \A t : RunValue(t)' = RunValue(t)
    BY <1>3 DEF RunValue
  <2> QED BY <2>1, <2>2, FoldRunIs
<1>5. \A t : LeadEntry(t)' = LeadEntry(t)
  BY <1>1, <1>4 DEF LeadEntry, KeyNumber
<1>6. \A t : IsLeader(t)' <=> IsLeader(t)
  BY <1>2 DEF IsLeader
<1>7. \A c : GatheredValue(c)' = GatheredValue(c) \/ indices' # indices
  BY <1>1 DEF GatheredValue
<1> QED BY <1>1, <1>5, <1>6, <1>7

LEMMA GatherValuesLeads ==
  ASSUME IInv, GatherValues
  PROVE  Led'
<1>1. /\ pc' = "lead" /\ UNCHANGED <<request, keys, indices>>
      /\ values' = [c \in Cells |-> GatheredValue(c)]
      /\ number' = [t \in RowThreads |-> Junk]
      /\ active' = RowThreads /\ counter' = 0
  BY DEF GatherValues
<1>2. Cells' = Cells /\ RowThreads' = RowThreads /\ Length' = Length
  BY <1>1, SameColumn
<1>3. values' = [c \in Cells' |-> GatheredValue(c)']
  BY <1>1, <1>2 DEF GatheredValue
<1>4. \A t \in RowThreads' : number'[t] = Junk
  BY <1>1, <1>2
<1>5. RowThreads' \ active' = {} /\ 0 .. counter' - 1 = {}
  BY <1>1, <1>2
<1> QED BY <1>3, <1>4, <1>5 DEF Led

LEMMA LeadersStepOn ==
  ASSUME IInv, Led, pc = "lead", NEW t \in RowThreads,
         ReturnAtOnce(t) \/ DrawNumber(t) \/ WriteEntry(t)
  PROVE  Led'
<1>1. /\ UNCHANGED <<request, keys, indices, values>>
      /\ t \in active
  BY DEF ReturnAtOnce, DrawNumber, WriteEntry, sortVars
<1>2. /\ RowThreads' = RowThreads /\ Cells' = Cells
      /\ \A c : GatheredValue(c)' = GatheredValue(c)
      /\ \A s : (IsLeader(s)' <=> IsLeader(s)) /\ LeadEntry(s)' = LeadEntry(s)
  BY <1>1, SameEntries
<1>3. values' = [c \in Cells' |-> GatheredValue(c)']
  BY <1>1, <1>2 DEF Led
<1>4. /\ counter \in 0 .. Length /\ active \subseteq RowThreads
      /\ number \in [RowThreads -> Nat \cup {Junk}]
      /\ \A s \in RowThreads : number[s] = Junk \/ number[s] \in 0 .. counter - 1
      /\ DOMAIN entries = RowThreads /\ RowThreads = 0 .. Length - 1 /\ Length \in Nat
  BY RowThreadCount DEF IInv, Numbered
<1>5. /\ \A s \in RowThreads : number[s] # Junk => IsLeader(s)
      /\ \A s, u \in RowThreads : number[s] # Junk /\ number[s] = number[u] => s = u
      /\ \A m \in 0 .. counter - 1 : \E s \in RowThreads : number[s] = m
      /\ \A s \in RowThreads \ active :
           IsLeader(s) => number[s] # Junk /\ entries[number[s]] = LeadEntry(s)
  BY DEF Led
<1>6. CASE ReturnAtOnce(t)
  <2>1. /\ ~IsLeader(t) /\ active' = active \ {t}
        /\ counter' = counter /\ number' = number /\ entries' = entries
    BY <1>6 DEF ReturnAtOnce
  <2>2. \A s \in RowThreads' \ active' :
          IsLeader(s)' => number'[s] # Junk /\ entries'[number'[s]] = LeadEntry(s)'
    BY <1>2, <1>5, <2>1
  <2> QED BY <1>2, <1>3, <1>5, <2>1, <2>2 DEF Led
<1>7. CASE DrawNumber(t)
  <2>1. /\ number[t] = Junk /\ IsLeader(t) /\ active' = active /\ entries' = entries
        /\ number' = [number EXCEPT ![t] = counter] /\ counter' = counter + 1
    BY <1>7 DEF DrawNumber, CounterNext
  <2>2. number'[t] = counter /\ \A s \in RowThreads : s # t => number'[s] = number[s]
    BY <1>4, <2>1
  <2>3. counter \in Nat /\ counter # Junk /\ counter \notin 0 .. counter - 1
    BY <1>4, JunkAssumption
  <2>4. \A s \in RowThreads' : number'[s] # Junk => IsLeader(s)'
    BY <1>2, <1>5, <2>1, <2>2
  <2>5. \A s, u \in RowThreads' : number'[s] # Junk /\ number'[s] = number'[u] => s = u
    <3>1. \A s \in RowThreads : number[s] # counter
      BY <1>4, <2>3
    <3> QED BY <1>2, <1>5, <2>2, <3>1
  <2>6. ASSUME NEW m \in 0 .. counter' - 1 PROVE \E s \in RowThreads' : number'[s] = m
    <3>1. CASE m = counter
      BY <1>2, <2>2, <3>1
    <3>2. CASE m # counter
      <4>1. m \in 0 .. counter - 1 /\ m \in Nat
        BY <2>1, <2>3, <3>2
      <4>2. PICK s \in RowThreads : number[s] = m
        BY <1>5, <4>1
      <4>3. s # t
        BY <2>1, <4>1, <4>2, JunkAssumption
      <4> QED BY <1>2, <2>2, <4>2, <4>3
    <3> QED BY <3>1, <3>2
  <2>7. ASSUME NEW s \in RowThreads' \ active', IsLeader(s)'
        PROVE  number'[s] # Junk /\ entries'[number'[s]] = LeadEntry(s)'
    <3>1. s \in RowThreads /\ s \notin active /\ s # t
      BY <1>1, <1>2, <2>1
    <3> QED BY <1>2, <1>5, <2>1, <2>2, <2>7, <3>1
  <2> QED BY <1>3, <2>4, <2>5, <2>6, <2>7 DEF Led
<1>8. CASE WriteEntry(t)
  <2>1. /\ number[t] # Junk /\ active' = active \ {t}
        /\ counter' = counter /\ number' = number
        /\ entries' = [entries EXCEPT ![number[t]] = LeadEntry(t)]
    BY <1>8 DEF WriteEntry, LeadEntry, KeyNumber
  <2>2. number[t] \in DOMAIN entries
    BY <1>4, <2>1
  <2>3. entries'[number[t]] = LeadEntry(t)
    BY <2>1, <2>2
  <2>4. ASSUME NEW s \in RowThreads' \ active', IsLeader(s)'
        PROVE  number'[s] # Junk /\ entries'[number'[s]] = LeadEntry(s)'
    <3>1. CASE s = t
      BY <1>2, <2>1, <2>3, <3>1
    <3>2. CASE s # t
      <4>1. s \in RowThreads /\ s \notin active /\ IsLeader(s)
        BY <1>2, <2>1, <2>4, <3>2
      <4>2. number[s] # Junk /\ entries[number[s]] = LeadEntry(s)
        BY <1>5, <4>1
      <4>3. number[s] # number[t] /\ number[s] \in DOMAIN entries
        BY <1>4, <1>5, <3>2, <4>1, <4>2
      <4>4. entries'[number[s]] = entries[number[s]]
        BY <2>1, <4>3
      <4> QED BY <1>2, <2>1, <4>2, <4>4
    <3> QED BY <3>1, <3>2
  <2> QED BY <1>2, <1>3, <1>5, <2>1, <2>4 DEF Led
<1> QED BY <1>6, <1>7, <1>8

LEMMA StepsLead ==
  ASSUME IInv, Ends, Led, [GroupNext]_allVars
  PROVE  Led'
<1>1. CASE SortStep /\ UNCHANGED groupVars
  <2>1. pc' # "lead"
    BY <1>1, KernelsPlace DEF Return, FallBack
  <2> QED BY <2>1 DEF Led
<1>2. CASE GroupStep
  <2>1. CASE StartGather \/ ReturnGroups \/ FallBackGroups
    <3>1. pc' # "lead"
      BY <2>1 DEF StartGather, ReturnGroups, FallBackGroups
    <3> QED BY <3>1 DEF Led
  <2>2. ASSUME NEW t \in RowThreads, ReturnAtOnce(t) \/ DrawNumber(t) \/ WriteEntry(t)
        PROVE  Led'
    <3>1. pc = "lead"
      BY <2>2 DEF ReturnAtOnce, DrawNumber, WriteEntry
    <3> QED BY <2>2, <3>1, LeadersStepOn
  <2> QED BY <1>2, <2>1, <2>2, GatherValuesLeads DEF GroupStep
<1>3. CASE DeviceErrors
  <2>1. pc' = "failed"
    BY <1>3 DEF DeviceErrors, DeviceError, GroupError
  <2> QED BY <2>1 DEF Led
<1>4. CASE UNCHANGED allVars
  <2>1. UNCHANGED <<request, pc, keys, indices, values, counter, active, number, entries>>
    BY <1>4 DEF allVars, sortVars, groupVars
  <2>2. /\ RowThreads' = RowThreads /\ Cells' = Cells
        /\ \A c : GatheredValue(c)' = GatheredValue(c)
        /\ \A s : (IsLeader(s)' <=> IsLeader(s)) /\ LeadEntry(s)' = LeadEntry(s)
    BY <2>1, SameEntries
  <2> QED BY <2>1, <2>2 DEF Led
<1> QED BY <1>1, <1>2, <1>3, <1>4 DEF GroupNext, Progress, AllDone

LEMMA AnswersGroups ==
  ASSUME request' = request, GroupAnswer = << >>, Len(GroupAnswer') = 1,
         GroupLists(GroupAnswer'[1])
  PROVE  Groups!Answer
<1>1. Column' = Column /\ GroupOp' = GroupOp /\ \A cells : GroupLists(cells)' <=> GroupLists(cells)
  BY SameGroups
<1>2. (Groups!Answered <=> Len(GroupAnswer) = 1 /\ GroupLists(GroupAnswer[1]))'
  BY GroupsIs, PTL
<1>3. GroupLists(GroupAnswer[1])'
  BY <1>1 DEF GroupLists
<1>4. Groups!Answered'
  BY <1>2, <1>3
<1> QED BY <1>1, <1>4 DEF Groups!Answer, Groups!NoAnswer, GroupAnswer, GroupOp

\* Only the last step of a group-by, on the device or with pandas, answers.
LEMMA StepsAnswerGroups ==
  ASSUME SortableColumns, SoundGroupCalls, IInv, Sorting, Ends, Led, [GroupNext]_allVars
  PROVE  [Groups!Answer]_(Groups!vars)
<1>1. ASSUME request' = request, GroupAnswer' = GroupAnswer PROVE UNCHANGED Groups!vars
  <2>1. (Groups!vars = <<Column, GroupOp, GroupAnswer>>)'
    BY GroupsIs, PTL
  <2>2. Column' = Column /\ GroupOp' = GroupOp
    BY <1>1, SameGroups
  <2> QED BY <1>1, <2>1, <2>2, GroupsIs
<1>2. request' = request => (GroupBy' <=> GroupBy)
  BY SameAnswers
<1>3. pc \notin {"read", "done"} => GroupAnswer = << >>
  BY DEF Ends, Unanswered, GroupAnswer
<1>4. CASE Return \/ FallBack
  <2>1. /\ request' = request /\ ~GroupBy /\ pc \in {"wait", "failed"} /\ pc' = "done"
    BY <1>4 DEF Return, FallBack, GroupBy
  <2>2. GroupAnswer' = << << >> >>
    BY <1>2, <2>1 DEF GroupAnswer
  <2>3. GroupLists(<< >>)
    <3>1. Column = << >>
      BY <2>1 DEF Column
    <3>2. Groups!Groups = {}
      BY <3>1 DEF Groups!Groups
    <3> QED BY <3>2, FS_EmptySet DEF GroupLists
  <2> QED BY <1>3, <2>1, <2>2, <2>3, AnswersGroups
<1>5. CASE /\ (SortStep /\ ~Return /\ ~FallBack) \/ DeviceError
           /\ UNCHANGED groupVars
  <2>1. /\ InSort /\ pc' \notin {"read", "done"} /\ request' = request /\ answer' = answer
    <3>1. DeviceError => ~Return /\ ~FallBack
      BY DEF DeviceError, Return, FallBack
    <3> QED BY <1>5, <3>1, KernelsPlace DEF States
  <2>2. GroupAnswer' = GroupAnswer
    BY <2>1 DEF GroupAnswer, InSort
  <2> QED BY <1>1, <2>1, <2>2
<1>6. CASE ReturnGroups
  <2>1. /\ request' = request /\ pc = "lead" /\ active = {} /\ pc' = "read"
        /\ answer' = << [i \in 1 .. counter |-> entries[i - 1]] >>
    BY <1>6 DEF ReturnGroups, KernelEnds
  <2>2. GroupAnswer' = << [i \in 1 .. counter |-> entries[i - 1]] >>
    BY <2>1 DEF GroupAnswer
  <2>3. GroupLists([i \in 1 .. counter |-> entries[i - 1]])
    BY <2>1, LeadersList
  <2> QED BY <1>3, <2>1, <2>2, <2>3, AnswersGroups
<1>7. CASE FallBackGroups
  <2>1. /\ request' = request /\ pc = "failed" /\ GroupBy /\ pc' = "done"
        /\ answer' = <<Groups!Sorted>> /\ request \in Requests
    BY <1>7 DEF FallBackGroups, IInv, HostTyped
  <2>2. GroupAnswer' = <<Groups!Sorted>>
    BY <1>2, <2>1 DEF GroupAnswer
  <2>3. GroupLists(Groups!Sorted)
    BY <2>1, PandasLists
  <2> QED BY <1>3, <2>1, <2>2, <2>3, AnswersGroups
<1>8. CASE \/ StartGather \/ GatherValues \/ GroupError
           \/ \E t \in RowThreads : ReturnAtOnce(t) \/ DrawNumber(t) \/ WriteEntry(t)
  <2>1. /\ request' = request /\ answer' = answer
        /\ pc \in {"wait", "gather", "lead"} /\ pc' \in {"gather", "lead", "failed"}
    BY <1>8 DEF StartGather, GatherValues, GroupError, KernelEnds, ReturnAtOnce, DrawNumber,
                WriteEntry, sortVars
  <2>2. GroupAnswer' = GroupAnswer
    BY <2>1 DEF GroupAnswer
  <2> QED BY <1>1, <2>1, <2>2
<1>9. CASE UNCHANGED allVars
  <2>1. UNCHANGED <<request, answer, pc>>
    BY <1>9 DEF allVars, sortVars
  <2>2. GroupAnswer' = GroupAnswer
    BY <1>2, <2>1 DEF GroupAnswer
  <2> QED BY <1>1, <2>1, <2>2
<1> QED BY <1>4, <1>5, <1>6, <1>7, <1>8, <1>9
        DEF GroupNext, Progress, DeviceErrors, GroupStep, AllDone

-----------------------------------------------------------------------------
(* The theorems *)

LEMMA Initially ==
  ASSUME GroupInit
  PROVE  IInv
<1>1. /\ request \in Requests /\ pc = "call" /\ answer = << >>
      /\ from = 0 /\ pass = 0 /\ todo = {} /\ stage = 0 /\ step = 0
      /\ counter = 0 /\ active = {}
  BY DEF GroupInit, Init
<1>2. NumStages \in Nat /\ radix_passes(dtype) \in {1, 2} /\ Length \in Nat
  BY <1>1, CellType, RequestType
<1> QED BY <1>1, <1>2 DEF IInv, HostTyped, Phases, Buffers, BlocksTyped, BlocksWhole,
          InKernel, Scattered, InOrder, Numbered, States

LEMMA StutteringKeeps ==
  ASSUME IInv, UNCHANGED allVars
  PROVE  IInv'
<1>1. /\ UNCHANGED <<request, answer, pc, keys, indices, from, pass, offsets, todo>>
      /\ UNCHANGED <<stage, step, at, lk, li>>
      /\ UNCHANGED <<values, counter, active, number, entries>>
  BY DEF allVars, sortVars, groupVars, radixVars, bitonicVars
<1>2. /\ dtype' = dtype /\ Size' = Size /\ Cells' = Cells /\ Padded' = Padded
      /\ NumStages' = NumStages /\ Blocks' = Blocks /\ Threads' = Threads
      /\ Stages' = Stages /\ BlockSize' = BlockSize
      /\ Length' = Length /\ RowThreads' = RowThreads
  BY <1>1, SameColumn
<1>3. Stored' = Stored /\ Drawn' = Drawn
  <2>1. BlockNetwork' = BlockNetwork
    BY <1>1 DEF BlockNetwork
  <2> QED BY <1>1, <1>2, <2>1 DEF Stored, Drawn
<1>4. HostTyped' /\ Phases' /\ Buffers' /\ InOrder'
  BY <1>1, <1>2 DEF IInv, HostTyped, Phases, Buffers, InOrder
<1>5. BlocksTyped'
  BY <1>1, <1>2, <1>3 DEF IInv, BlocksTyped
<1>6. BlocksWhole'
  <2>1. \A g : BlockWhole(g)' = BlockWhole(g)
    BY <1>1, <1>2 DEF BlockWhole, BlockOf
  <2> QED BY <1>1, <1>2, <1>3, <2>1 DEF IInv, BlocksWhole, InKernel
<1>7. Scattered'
  <2>1. \A c : Position(c)' = Position(c)
    BY <1>1, <1>2 DEF Position, DigitAt
  <2> QED BY <1>1, <1>2, <2>1 DEF IInv, Scattered
<1>8. Numbered'
  BY <1>1, <1>2, <1>3 DEF IInv, Numbered
<1> QED BY <1>4, <1>5, <1>6, <1>7, <1>8 DEF IInv

LEMMA StepsKeep ==
  ASSUME IInv, GroupNext
  PROVE  IInv'
<1>1. CASE SortStep /\ UNCHANGED groupVars
  <2>1. ASSUME NEW g \in Blocks, LoadBlock(g) \/ StepBlock(g) \/ StoreBlock(g) PROVE IInv'
    BY <1>1, <2>1, LoadBlockKeeps, StepBlockKeeps, StoreBlockKeeps
  <2>2. ASSUME NEW c \in Cells, Scatter(c) PROVE IInv'
    BY <1>1, <2>2, ScatterKeeps
  <2> QED BY <1>1, <2>1, <2>2, StartBitonicKeeps, EndBlocksKeeps, GlobalStepKeeps,
             StartRadixKeeps, BuildHistogramKeeps, EndPassKeeps, AnswersKeep
          DEF SortStep
<1>2. CASE GroupStep
  <2>1. ASSUME NEW t \in RowThreads, ReturnAtOnce(t) \/ DrawNumber(t) \/ WriteEntry(t)
        PROVE  IInv'
    BY <2>1, ReturnAtOnceKeeps, DrawNumberKeeps
  <2>2. CASE StartGather \/ FallBackGroups
    <3>1. UNCHANGED groupVars
      BY <2>2 DEF StartGather, FallBackGroups
    <3> QED BY <2>2, <3>1, AnswersKeep
  <2> QED BY <1>2, <2>1, <2>2, GatherValuesKeeps, ReturnGroupsKeeps DEF GroupStep
<1>3. CASE DeviceErrors
  <2>1. UNCHANGED groupVars
    BY <1>3 DEF DeviceErrors, GroupError
  <2> QED BY <1>3, <2>1, AnswersKeep DEF DeviceErrors
<1>4. CASE AllDone
  <2>1. UNCHANGED allVars
    BY <1>4 DEF AllDone
  <2> QED BY <2>1, StutteringKeeps
<1> QED BY <1>1, <1>2, <1>3, <1>4 DEF GroupNext, Progress

LEMMA InvariantHolds ==
  GroupSpec => []IInv
<1>1. GroupInit => IInv
  BY Initially
<1>2. IInv /\ [GroupNext]_allVars => IInv'
  BY StepsKeep, StutteringKeeps
<1> QED BY <1>1, <1>2, PTL DEF GroupSpec

\* Every state of a sort and of the group-by behind it is of its type, for every
\* column, every size of a block and every threshold; the numbers of the groups
\* are below the counter, and there are no more of them than rows.
THEOREM GroupSortAlwaysTyped ==
  GroupSpec => []GroupSortTypeOK
<1>1. IInv => GroupSortTypeOK
  <2> SUFFICES ASSUME IInv PROVE GroupSortTypeOK
    OBVIOUS
  <2>1. SortTypeOK
    <3>1. InKernel => pc \in {"local", "global", "merge"}
      BY DEF InKernel
    <3> QED BY <3>1 DEF IInv, HostTyped, States, Buffers, BlocksTyped, SortTypeOK
  <2> QED BY <2>1 DEF IInv, Numbered, GroupSortTypeOK
<1> QED BY <1>1, InvariantHolds, PTL

\* Neither the network nor the radix sort loses or doubles a row, or parts a key
\* from its row number, at any moment at which a kernel may be reading.
THEOREM RowsAlwaysWhole ==
  GroupSpec => []RowsTravelWhole
<1>1. IInv => RowsTravelWhole
  <2> SUFFICES ASSUME IInv, pc # "call" PROVE RowsTravelWhole
    BY DEF RowsTravelWhole
  <2>1. Cells = 0 .. Size - 1 /\ Whole(Size, Padded, keys[from], indices[from])
    BY BufferType
  <2> QED BY <2>1 DEF Whole, RowsTravelWhole
<1> QED BY <1>1, InvariantHolds, PTL

\* After p passes of the radix sort the cells are sorted by their last p digits
\* and, where these are equal, by their rows.
THEOREM DigitsAlwaysSorted ==
  GroupSpec => []DigitsSorted
<1>1. IInv => DigitsSorted
  <2> SUFFICES ASSUME IInv,
                      pc = "count" \/ (pc \in {"wait", "gather", "lead"} /\ pass > 0)
               PROVE  \A b, c \in Cells :
                        b < c =>
                          \/ LowDigits(keys[from][b], pass) < LowDigits(keys[from][c], pass)
                          \/ /\ LowDigits(keys[from][b], pass) = LowDigits(keys[from][c], pass)
                             /\ indices[from][b] < indices[from][c]
    BY DEF DigitsSorted
  <2>1. Cells = 0 .. Size - 1
    BY BufferType
  <2>2. Ordered(Size, dtype, keys[from], indices[from], pass)
    BY DEF IInv, InOrder
  <2> QED BY <2>1, <2>2 DEF Ordered, LowDigits
<1> QED BY <1>1, InvariantHolds, PTL

\* Whatever the order in which blocks are sorted, for every column, every size of
\* a block and every number of stages: when a stage over the column begins, the
\* runs of the stages before it are sorted, upwards and downwards by turns.  The
\* columns hold no NaN, for which the kernel's comparison is no order.
THEOREM RunsAlwaysSorted ==
  NetworksCompareNumbers => (GroupSpec => []RunsSorted)
<1> SUFFICES ASSUME NetworksCompareNumbers PROVE GroupSpec => []RunsSorted
  OBVIOUS
<1>1. GroupInit => IInv /\ Sorting
  <2> SUFFICES ASSUME GroupInit PROVE IInv /\ Sorting
    OBVIOUS
  <2>1. pc = "call"
    BY DEF GroupInit, Init
  <2> QED BY <2>1, Initially DEF Sorting, InNetwork
<1>2. IInv /\ Sorting /\ [GroupNext]_allVars => (IInv /\ Sorting)'
  BY StepsKeep, StutteringKeeps, StepsSort, StutteringSorts
<1>3. IInv /\ Sorting => RunsSorted
  <2> SUFFICES ASSUME IInv, Sorting, pc = "global", step = stage,
                      NEW b \in Cells, NEW c \in Cells,
                      b < c, b \div 2 ^ stage = c \div 2 ^ stage
               PROVE  IF (b \div 2 ^ stage) % 2 = 0
                        THEN ~Above(dtype, keys[0][b], keys[0][c])
                        ELSE ~Above(dtype, keys[0][c], keys[0][b])
    BY DEF RunsSorted
  <2>1. PartsOrdered(Shown, Cells, stage, 0) /\ PaddedNumbers /\ InNetwork
    BY DEF Sorting, InNetwork
  <2>2. b \in Nat /\ c \in Nat /\ b # c /\ b \in Threads /\ c \in Threads
    <3>1. request \in Requests /\ Cells = 0 .. Size - 1 /\ Size \in Nat
      BY BufferType
    <3> QED BY <3>1, BlockType
  <2>3. InOrderOf(Shown, stage, b, c)
    <3>1. ~Together(0, b, c)
      BY <2>2, PartsOfOne
    <3> QED BY <2>1, <3>1 DEF PartsOrdered, Together
  <2>4. /\ Shown[b] = Number(dtype, keys[0][b]) /\ Shown[b] \in Int
        /\ Shown[c] = Number(dtype, keys[0][c]) /\ Shown[c] \in Int
    <3>1. Current(b) = keys[0][b] /\ Current(c) = keys[0][c]
      BY DEF Current, InKernel
    <3> QED BY <2>1, <2>2, <3>1, CurrentType
  <2> QED BY <2>3, <2>4 DEF InOrderOf, Ascends, Above
<1> QED BY <1>1, <1>2, <1>3, PTL DEF GroupSpec

\* Whatever the interleaving of threads and the errors of the device, a sort is
\* answered once and with the values present in ascending order and as often as
\* they occur, an argsort with every row number once in an order that sorts the
\* column, and the keys of a group-by are sorted when its values are gathered:
\* the safety half of ColumnIsSorted, for every column, every number of bits of a
\* digit but one, every size of a block and every threshold.
THEOREM SortsAnswerPandas ==
  SortableColumns => (GroupSpec => KeySort!Init /\ [][KeySort!Answer]_(KeySort!vars))
<1> SUFFICES ASSUME SortableColumns
             PROVE  GroupSpec => KeySort!Init /\ [][KeySort!Answer]_(KeySort!vars)
  OBVIOUS
<1>1. GroupInit => IInv /\ Sorting /\ Ends /\ KeySort!Init
  <2> SUFFICES ASSUME GroupInit PROVE IInv /\ Sorting /\ Ends /\ KeySort!Init
    OBVIOUS
  <2>1. /\ pc = "call" /\ from = 0 /\ pass = 0 /\ answer = << >> /\ values = << >>
    BY DEF GroupInit, Init
  <2>2. Ends
    BY <2>1 DEF Ends, Placed, Unanswered, InNetwork
  <2>3. KeyAnswer = << >>
    BY <2>1 DEF KeyAnswer
  <2> QED BY <2>1, <2>2, <2>3, KeySortIs, Initially DEF Sorting, InNetwork
<1>2. IInv /\ Sorting /\ Ends /\ [GroupNext]_allVars
        => /\ (IInv /\ Sorting /\ Ends)'
           /\ [KeySort!Answer]_(KeySort!vars)
  <2> SUFFICES ASSUME IInv, Sorting, Ends, [GroupNext]_allVars
               PROVE  (IInv /\ Sorting /\ Ends)' /\ [KeySort!Answer]_(KeySort!vars)
    OBVIOUS
  <2>1. IInv' /\ Sorting'
    BY SortablesCompare, StepsKeep, StutteringKeeps, StepsSort, StutteringSorts
  <2>2. Ends' /\ (Answers \/ Silent)
    BY StepsAnswer, StutteringIsSilent
  <2>3. /\ (KeySort!vars = <<request, KeyAnswer>>)'
        /\ (KeySort!Answered <=> Len(KeyAnswer) = 1 /\ SortsColumn(request, KeyAnswer[1]))'
    BY KeySortIs, PTL
  <2>4. KeySort!vars = <<request, KeyAnswer>> /\ (KeySort!Init <=> KeyAnswer = << >>)
    BY KeySortIs
  <2>5. CASE Silent
    BY <2>1, <2>2, <2>3, <2>4, <2>5 DEF Silent
  <2>6. CASE Answers
    <3>1. KeySort!Answer
      BY <2>3, <2>4, <2>6 DEF Answers, KeySort!Answer, KeySort!Init
    <3> QED BY <2>1, <2>2, <3>1
  <2> QED BY <2>2, <2>5, <2>6
<1> QED BY <1>1, <1>2, PTL DEF GroupSpec

\* Whatever the interleaving of the leaders that draw their numbers and write their
\* entries, and whether the device completes the group-by or fails underway, the
\* caller is answered once: with an entry for every key that occurs and the
\* aggregate of its values, and with no other.  This is SortGroupByIsCorrect without
\* its liveness, for the DataFrame's group-bys of columns without NaN and for calls of
\* the engine whose masks mark every NaN, if every key comes with a value; the
\* DataFrame's group-bys of columns that have a NaN are not among them.
THEOREM GroupsAnswerPandas ==
  SortableColumns /\ SoundGroupCalls =>
    (GroupSpec => Groups!Init /\ [][Groups!Answer]_(Groups!vars))
<1> SUFFICES ASSUME SortableColumns, SoundGroupCalls
             PROVE  GroupSpec => Groups!Init /\ [][Groups!Answer]_(Groups!vars)
  OBVIOUS
<1>1. GroupInit => IInv /\ Sorting /\ Ends /\ Led /\ Groups!Init
  <2> SUFFICES ASSUME GroupInit PROVE IInv /\ Sorting /\ Ends /\ Led /\ Groups!Init
    OBVIOUS
  <2>1. /\ pc = "call" /\ from = 0 /\ pass = 0 /\ answer = << >> /\ values = << >>
    BY DEF GroupInit, Init
  <2>2. Ends /\ Led
    BY <2>1 DEF Ends, Placed, Unanswered, InNetwork, Led
  <2>3. GroupAnswer = << >>
    BY <2>1 DEF GroupAnswer
  <2> QED BY <2>1, <2>2, <2>3, GroupsIs, Initially DEF Sorting, InNetwork
<1>2. IInv /\ Sorting /\ Ends /\ Led /\ [GroupNext]_allVars
        => /\ (IInv /\ Sorting /\ Ends /\ Led)'
           /\ [Groups!Answer]_(Groups!vars)
  <2> SUFFICES ASSUME IInv, Sorting, Ends, Led, [GroupNext]_allVars
               PROVE  (IInv /\ Sorting /\ Ends /\ Led)' /\ [Groups!Answer]_(Groups!vars)
    OBVIOUS
  <2>1. IInv' /\ Sorting'
    BY SortablesCompare, StepsKeep, StutteringKeeps, StepsSort, StutteringSorts
  <2>2. Ends'
    BY StepsAnswer, StutteringIsSilent
  <2>3. Led'
    BY StepsLead
  <2>4. [Groups!Answer]_(Groups!vars)
    BY StepsAnswerGroups
  <2> QED BY <2>1, <2>2, <2>3, <2>4
<1> QED BY <1>1, <1>2, PTL DEF GroupSpec
=============================================================================
