-------------------------------- MODULE Bytes -------------------------------
(***************************************************************************)
(* Byte strings as sequences of digits in base ByteValues (256 in the      *)
(* program), and unsigned integers of a given width on them, big-endian.   *)
(***************************************************************************)
EXTENDS Integers, Sequences

CONSTANT ByteValues   \* values of a byte

ASSUME BytesAssumption == ByteValues \in Nat \ {0, 1}

Byte == 0 .. ByteValues - 1

\* How many numbers n bytes can tell apart.
Power[n \in Nat] == IF n = 0 THEN 1 ELSE ByteValues * Power[n - 1]

\* The w bytes of n: what does not fit in them is cut off.
BigEndian(n, w) == [i \in 1..w |-> (n \div Power[w - i]) % ByteValues]

\* The number that the bytes b stand for.
Value(b) ==
  LET value[i \in 0..Len(b)] ==
        IF i = 0 THEN 0 ELSE value[i - 1] * ByteValues + b[i]
  IN  value[Len(b)]

Drop(s, n) == SubSeq(s, n + 1, Len(s))
=============================================================================
