------------------------------ MODULE SortWords ------------------------------
(***************************************************************************)
(* The bit patterns that are sorted: how they compare as numbers, and the  *)
(* unsigned keys whose digits the radix sort goes by.  A dtype of one      *)
(* digit stands for the 8-bit dtypes; one of two digits for those of 16,   *)
(* 32 and 64 bits, whose number of digits is even too.                     *)
(***************************************************************************)
EXTENDS Integers

CONSTANT RADIX_BITS   \* the bits of a digit: 8 in the code

ASSUME RadixAssumption == RADIX_BITS \in 1 .. 8

NUM_BUCKETS == 2 ^ RADIX_BITS

DTypes == {"uint8", "int8", "int32", "float32"}

radix_passes(dtype) == IF dtype \in {"uint8", "int8"} THEN 1 ELSE 2

Words(dtype) == 2 ^ (RADIX_BITS * radix_passes(dtype))

SignBit(dtype) == Words(dtype) \div 2

\* What fill_max pads with.  +inf has the second largest pattern without a sign
\* bit: the largest is the one NaN of this small float.
MaxWord(dtype) ==
  CASE dtype = "uint8" -> Words(dtype) - 1
    [] dtype \in {"int8", "int32"} -> SignBit(dtype) - 1
    [] dtype = "float32" -> SignBit(dtype) - 2

IsNaN(dtype, w) == dtype = "float32" /\ w % SignBit(dtype) = SignBit(dtype) - 1

\* Two's complement, and sign and magnitude: -0 and 0 are one number.
Number(dtype, w) ==
  CASE dtype = "uint8" \/ w < SignBit(dtype) -> w
    [] dtype \in {"int8", "int32"} /\ w >= SignBit(dtype) -> w - Words(dtype)
    [] dtype = "float32" /\ w >= SignBit(dtype) -> SignBit(dtype) - w

\* a > b of the language: false if either is NaN.
Above(dtype, a, b) ==
  /\ ~IsNaN(dtype, a) /\ ~IsNaN(dtype, b)
  /\ Number(dtype, a) > Number(dtype, b)

\* Mutant: the sign bit of a float is flipped and nothing else.
KeyWithoutComplement(dtype, w) ==
  IF dtype = "uint8" THEN w ELSE (w + SignBit(dtype)) % Words(dtype)

\* Unsigned keys in the order of the numbers: the sign bit is flipped, of a
\* negative float all bits are.
RadixKey(dtype, w) ==
  CASE dtype = "uint8" -> w
    [] dtype \in {"int8", "int32"} -> (w + SignBit(dtype)) % Words(dtype)
    [] dtype = "float32" /\ w < SignBit(dtype) -> w + SignBit(dtype)
    [] dtype = "float32" /\ w >= SignBit(dtype) -> Words(dtype) - 1 - w

Digit(dtype, w, pass) ==
  (RadixKey(dtype, w) \div 2 ^ (RADIX_BITS * pass)) % NUM_BUCKETS
=============================================================================
