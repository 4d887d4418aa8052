------------------------------- MODULE Crc16 -------------------------------
(***************************************************************************)
(* The checksum of the backplate's frames, by a table of 256 entries.      *)
(***************************************************************************)
EXTENDS Integers, Sequences, SequencesExt

\* The exclusive or of one bit, and of two halves each.
Xor1(a, b) == (a + b) % 2
Xor2(a, b) == 2 * Xor1(a \div 2, b \div 2) + Xor1(a % 2, b % 2)
Xor4(a, b) == 4 * Xor2(a \div 4, b \div 4) + Xor2(a % 4, b % 4)
Xor8(a, b) == 16 * Xor4(a \div 16, b \div 16) + Xor4(a % 16, b % 16)
Xor16(a, b) == 2^8 * Xor8(a \div 2^8, b \div 2^8) + Xor8(a % 2^8, b % 2^8)

\* One bit of a table entry.  The code masks the entry, and the checksum, only in the
\* end; the bits above 16 never come back into the ones below, so that masking every
\* step gives the same.
Poly == 4129
TabStep(r) == IF r >= 2^15 THEN Xor16((2 * r) % 2^16, Poly) ELSE 2 * r

\* tabinit.
crctab == [i \in 0..2^8 - 1 |->
             FoldLeft(LAMBDA r, j : TabStep(r), i * 2^8, [j \in 1..8 |-> j])]

\* One byte of crc16ccitt.
Next8(crc, byte) == Xor16((crc * 2^8) % 2^16, crctab[Xor8(crc \div 2^8, byte)])

crc16ccitt(buf) ==
    LET after[n \in 0..Len(buf)] ==
          IF n = 0 THEN 0
          ELSE CHOOSE crc \in { Next8(c, b) : c \in {after[n - 1]}, b \in {buf[n]} } :
                  TRUE
    IN after[Len(buf)]

\* The table's entries are of two bytes, and the low ones are all different.
TableTells ==
    /\ crctab \in [0..2^8 - 1 -> 0..2^16 - 1]
    /\ \A i, j \in 0..2^8 - 1 : crctab[i] % 2^8 = crctab[j] % 2^8 => i = j
=============================================================================
