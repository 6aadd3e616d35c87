------------------------------- MODULE GF256 -------------------------------
(***************************************************************************)
(* The arithmetic of AES by its definition, not by anybody's tables: bytes *)
(* are polynomials over GF(2) modulo x^8 + x^4 + x^3 + x + 1, the S-box is *)
(* an affine map of the inverse, and the cipher is that of FIPS 197.  This *)
(* is the reference the program and the core are compared with.            *)
(***************************************************************************)
EXTENDS Naturals, Sequences, TLC

Byte == 0..255
Bit(x, n) == (x \div 2^n) % 2
FromBits(b(_)) ==
  b(0) + 2 * b(1) + 4 * b(2) + 8 * b(3) + 16 * b(4) + 32 * b(5) + 64 * b(6) + 128 * b(7)

\* Exclusive or, a nibble at a time.
XorNibble ==
  [a, b \in 0..15 |->
     FromBits(LAMBDA n : IF n < 4 THEN (Bit(a, n) + Bit(b, n)) % 2 ELSE 0)]
a \oplus b == 16 * XorNibble[a \div 16, b \div 16] + XorNibble[a % 16, b % 16]

\* {02} * a, and the product by the binary digits of b.
Double(a) == IF a < 128 THEN 2 * a ELSE (2 * a - 256) \oplus 27
Times(a, b) ==
  LET a1 == Double(a)  a2 == Double(a1) a3 == Double(a2) a4 == Double(a3)
      a5 == Double(a4) a6 == Double(a5) a7 == Double(a6)
  IN  (Bit(b, 0) * a)  \oplus (Bit(b, 1) * a1) \oplus (Bit(b, 2) * a2)
      \oplus (Bit(b, 3) * a3) \oplus (Bit(b, 4) * a4) \oplus (Bit(b, 5) * a5)
      \oplus (Bit(b, 6) * a6) \oplus (Bit(b, 7) * a7)

Inverse8 ==
  [x \in Byte |-> IF x = 0 THEN 0 ELSE CHOOSE y \in Byte : Times(x, y) = 1]

SBox ==
  [x \in Byte |->
     FromBits(LAMBDA n :
       (Bit(99, n) + Bit(Inverse8[x], n) + Bit(Inverse8[x], (n + 4) % 8)
          + Bit(Inverse8[x], (n + 5) % 8) + Bit(Inverse8[x], (n + 6) % 8)
          + Bit(Inverse8[x], (n + 7) % 8)) % 2)]

(***************************************************************************)
(* FIPS 197.  A block is sixteen bytes; byte 4c + r is row r of column c.  *)
(* (f @@ <<>> is f, with its sixteen values computed once.)                *)
(***************************************************************************)
Block128 == [0..15 -> Byte]
Block(f(_)) == [n \in 0..15 |-> f(n)] @@ <<>>
Cell(b, row, col) == b[4 * (col % 4) + (row % 4)]
AddKey(a, b) == Block(LAMBDA n : a[n] \oplus b[n])

SubAndShift(b) == Block(LAMBDA n : SBox[Cell(b, n, (n \div 4) + (n % 4))])
Mix(b) ==
  Block(LAMBDA n : LET at(d) == Cell(b, n + d, n \div 4)
                   IN  Times(at(0), 2) \oplus Times(at(1), 3) \oplus at(2) \oplus at(3))

\* The round constants are the powers of {02}.
RC[j \in 1..10] == IF j = 1 THEN 1 ELSE Double(RC[j - 1])

\* s holds the first n bytes of the key schedule of k: a word is the one four
\* before it plus the one just before, which at the start of a round key is
\* first rotated, substituted and given the round constant.
IsSchedule(s, k, n) ==
  /\ \A j \in 0..15 : s[j] = k[j]
  /\ \A j \in 16..(n - 1) :
       s[j] = IF j % 16 >= 4 THEN s[j - 16] \oplus s[j - 4]
              ELSE s[j - 16] \oplus SBox[s[16 * (j \div 16) - 4 + ((j + 1) % 4)]]
                             \oplus (IF j % 16 = 0 THEN RC[j \div 16] ELSE 0)

RoundKeyAt(s, r) == Block(LAMBDA n : s[16 * r + n])

\* One round, of the first nine.
CipherRound(b, s, r) == AddKey(Mix(SubAndShift(b)), RoundKeyAt(s, r))
LastRound(b, s) == AddKey(SubAndShift(b), RoundKeyAt(s, 10))
=============================================================================
