------------------------------ MODULE HeaderCrc ------------------------------
(***************************************************************************)
(* headerCrc16() of dsi/shared.hpp and the comparison startedByLoader()    *)
(* makes with it, against the polynomial they stand for, and what of       *)
(* BootProtocol's premise, that a CRC matches only bytes written together, *)
(* they really give.  A byte or the register is the set of its one bits.   *)
(***************************************************************************)
EXTENDS Naturals, Sequences, FiniteSetsExt

\* Mutant: the polynomial as it is written elsewhere, not reflected.
H8005 == {15, 2, 0}
HA001 == {15, 13, 0}

ShiftRight(crc) == {b - 1 : b \in crc \ {0}}
CrcBit(crc)     == IF 0 \in crc THEN SymDiff(ShiftRight(crc), HA001)
                                ELSE ShiftRight(crc)
CrcByte(crc, byte) ==
  CrcBit(CrcBit(CrcBit(CrcBit(CrcBit(CrcBit(CrcBit(CrcBit(SymDiff(crc, byte)))))))))

\* Mutant: the register starts out clear.
CrcStartClear == {}
CrcStart      == 0 .. 15

headerCrc16(data) ==
  LET Crc[i \in 0 .. Len(data)] ==
        IF i = 0 THEN CrcStart ELSE CrcByte(Crc[i - 1], data[i])
  IN  Crc[Len(data)]

\* The field after the header's bytes, low byte first.
FieldOf(lo, hi) == lo \cup {b + 8 : b \in hi}

\* Mutant: eight bits of it are compared.
AcceptsLow(data, lo, hi) == headerCrc16(data) \cap 0 .. 7 = lo
Accepts(data, lo, hi)    == headerCrc16(data) = FieldOf(lo, hi)

-----------------------------------------------------------------------------
(***************************************************************************)
(* The reference: polynomials over GF(2) as sets of exponents.             *)
(***************************************************************************)
G == {16, 15, 2, 0}                       \* x^16 + x^15 + x^2 + 1
TimesX(poly) ==                           \* mod G
  LET up == {e + 1 : e \in poly} IN IF 16 \in up THEN SymDiff(up, G) ELSE up
PowMod[k \in Nat] ==                      \* x^k mod G
  IF k = 0 THEN {0} ELSE TimesX(PowMod[k - 1])

\* What is left of a polynomial mod G: the sum of what is left of its terms.
Odd(S) == Cardinality(S) % 2 = 1
Residue(poly) == {e \in 0 .. 15 : Odd({k \in poly : e \in PowMod[k]})}

\* The message, first bit first, as a polynomial times x^16, with its first
\* sixteen bits inverted.
Polynomial(data) ==
  LET n == Len(data)
      bits == UNION {{8 * (n - i) + 23 - b : b \in data[i]} : i \in 1 .. n}
  IN  SymDiff(bits, (8 * n) .. (8 * n + 15))
Remainder(data) == {15 - e : e \in Residue(Polynomial(data))}

Samples  == {{}, {0}, {7}, {0, 3, 4, 6}, 0 .. 7}
Messages == UNION {[1 .. n -> Samples] : n \in 0 .. 3}

Sums     == {[loop |-> headerCrc16(data), ref |-> Remainder(data)] : data \in Messages}

\* The loop computes CRC-16 (x^16 + x^15 + x^2 + 1, reflected, started with
\* ones), the sum every tool that makes a DS header puts there: a loader's
\* header is recognised.
MatchesPolynomial == \A sum \in Sums : sum.loop = sum.ref

Low(crc)  == crc \cap 0 .. 7
High(crc) == {b - 8 : b \in crc \ 0 .. 7}
Flip(data, bits) ==
  [i \in DOMAIN data |-> SymDiff(data[i], {b \in 0 .. 7 : 8 * (i - 1) + b \in bits})]
Shapes    == {{0}, {0, 1}, {0, 7, 8}, {0, 2, 3, 15}, {0, 15}, 0 .. 15}
Bursts(n) == {{at + b : b \in shape} : at \in 0 .. 8 * n - 16, shape \in Shapes}

\* What a header becomes that differs in one burst from an accepted one.
Altered(data) ==
  LET crc == headerCrc16(data)
  IN  {Flip(data \o <<Low(crc), High(crc)>>, burst) : burst \in Bursts(Len(data) + 2)}
Verdicts ==
  {Accepts(SubSeq(m, 1, 3), m[4], m[5]) :
     m \in Altered(<<{}, 0 .. 7, {1}>>) \cup Altered(<<{0, 3, 4, 6}, {}, {}>>)}

\* Of two headers that differ in one stretch of at most sixteen bits, which may
\* reach into the field, never are both accepted.
BurstsFound == TRUE \notin Verdicts

\* What a zero bit makes of a register that is not clear.
AfterZeroBit == {CrcBit(crc) : crc \in (SUBSET (0 .. 15)) \ {{}}}

\* A cleared boot area, unit code 0 and CRC field 0, is no loader's header:
\* zeroes, however many, never clear the register.
ZeroesAreNoHeader == CrcStart # {} /\ {} \notin AfterZeroBit

==============================================================================
