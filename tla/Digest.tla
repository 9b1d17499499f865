------------------------------- MODULE Digest -------------------------------
(***************************************************************************)
(* The frame of sha256_hex around its compression function, and the check  *)
(* of a password against its stored form (chat_db.cpp).                    *)
(*                                                                         *)
(* The 64 rounds on a block are the parameter compress, and what matters   *)
(* of them is that different inputs give different results; a state of the *)
(* hash stands for its hexadecimal form as well.  BlockSize and LengthSize *)
(* are 64 and 8 in the program; a byte has BitsPerByte bits and its        *)
(* highest alone is ByteValues \div 2.                                     *)
(***************************************************************************)
EXTENDS Bytes

CONSTANTS
  BlockSize, LengthSize, BitsPerByte,
  kInitialHash,
  compress(_, _),   \* the hash and the next block give the next hash
  Dollar            \* the character '$', which is no hexadecimal digit

ASSUME DigestAssumption ==
  /\ LengthSize \in Nat \ {0} /\ BlockSize \in Nat /\ BlockSize > LengthSize
  /\ BitsPerByte \in Nat \ {0} /\ ByteValues = 2 ^ BitsPerByte
  /\ Dollar \in Int \ Byte

-----------------------------------------------------------------------------
\* Fault: the zeros stop one byte early.
zeros_short(n) ==
  CHOOSE k \in 0 .. BlockSize - 1 : (n + 1 + k) % BlockSize = BlockSize - LengthSize - 1

\* How many zero bytes follow the first byte of the padding of n bytes.
zeros(n) ==
  CHOOSE k \in 0 .. BlockSize - 1 : (n + 1 + k) % BlockSize = BlockSize - LengthSize

pad(input) ==
  input \o <<ByteValues \div 2>> \o [i \in 1..zeros(Len(input)) |-> 0]
        \o BigEndian(BitsPerByte * Len(input), LengthSize)

\* Fault: the loop over the blocks leaves out the last one.
blocks_short(message) == Len(message) \div BlockSize - 1

blocks(message) == Len(message) \div BlockSize

\* The loop over the blocks of a padded message.
digest(message) ==
  LET hash[i \in 0 .. blocks(message)] ==
        IF i = 0 THEN kInitialHash
        ELSE compress(hash[i - 1],
                      SubSeq(message, (i - 1) * BlockSize + 1, i * BlockSize))
  IN  hash[blocks(message)]

sha256_hex(input) == digest(pad(input))

-----------------------------------------------------------------------------
hash_password(salt, password) == salt \o <<Dollar>> \o sha256_hex(salt \o password)

\* authenticate_user, given the stored hash.
matches(stored_hash, password) ==
  \E separator \in DOMAIN stored_hash :
    /\ stored_hash[separator] = Dollar
    /\ \A i \in 1 .. separator - 1 : stored_hash[i] # Dollar
    /\ LET salt == SubSeq(stored_hash, 1, separator - 1)
       IN  Drop(stored_hash, separator) = sha256_hex(salt \o password)
=============================================================================
