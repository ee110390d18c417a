------------------------------ MODULE HashKeys ------------------------------
(***************************************************************************)
(* What the two GPU hash tables, of the join and of the group-by, share:   *)
(* the encoding of keys as unsigned words, the word that marks an empty    *)
(* slot, the size of a table and the order in which its slots are probed.  *)
(***************************************************************************)
EXTENDS Integers, FiniteSets

CONSTANTS
  Keys,         \* key values of a column
  Class,        \* Class[k]: keys of one class are equal to pandas
  Encode,       \* Encode[k]: RadixTraits::to_key, a word
  Empty,        \* the sentinel of an empty slot, the largest word
  MinTable,     \* smallest table allocated
  PowersOfTwo   \* sizes a table can have

Words == 0 .. Empty

Least(n) == IF n < MinTable THEN MinTable ELSE n

\* (2 * n).next_power_of_two().max(MinTable), with MinTable a power of two.
TableSizeFor(n) ==
  CHOOSE t \in PowersOfTwo :
    /\ Least(2 * n) <= t
    /\ \A u \in PowersOfTwo : Least(2 * n) <= u => t <= u

\* The slot a key hashes to: size is a power of two, so & (size - 1) is %.
Home(k, size) == Encode[k] % size

\* The p-th slot on the way of a key, for p below size: (hash + p) & (size - 1).
SlotAt(k, p, size) ==
  LET s == Home(k, size) + p IN IF s < size THEN s ELSE s - size

ASSUME KeyAssumption ==
  /\ Empty \in Nat
  /\ Encode \in [Keys -> Words]
  /\ MinTable \in Nat \ {0}
  /\ PowersOfTwo \subseteq Nat
=============================================================================
