----------------------------- MODULE BootRanges -----------------------------
(***************************************************************************)
(* mirrorBootArea()'s loops over the real BOOT_RANGES of dsi/shared.hpp:   *)
(* which words of the 4KB NTR system area a copy writes, and in which      *)
(* order.  BootProtocol numbers these words 1 .. N+1; what is stated here  *)
(* is that the real table fits that numbering.  Words are named by their   *)
(* byte offset in the area.                                                *)
(***************************************************************************)
EXTENDS Naturals, Sequences

\* Mutants: the second range runs over the shared block; the user settings are
\* copied after the header; the fourth range stops short.
BOOT_RANGES_OVER_BLOCK ==
  << [offset |-> \hA80, size |-> \h160], [offset |-> \hC00, size |-> \h028],
     [offset |-> \hC2C, size |-> \h054], [offset |-> \hC80, size |-> \h100],
     [offset |-> \hE00, size |-> \h160] >>
BOOT_RANGES_USER_LAST ==
  << [offset |-> \hA80, size |-> \h160], [offset |-> \hC00, size |-> \h024],
     [offset |-> \hC2C, size |-> \h054], [offset |-> \hE00, size |-> \h160],
     [offset |-> \hC80, size |-> \h100] >>
BOOT_RANGES_SHORT ==
  << [offset |-> \hA80, size |-> \h160], [offset |-> \hC00, size |-> \h024],
     [offset |-> \hC2C, size |-> \h054], [offset |-> \hC80, size |-> \h0FC],
     [offset |-> \hE00, size |-> \h160] >>

BOOT_RANGES ==
  << [offset |-> \hA80, size |-> \h160],     \* HW_CARD_ROM_HEADER
     [offset |-> \hC00, size |-> \h024],     \* boot check info, reset parameter
     [offset |-> \hC2C, size |-> \h054],     \* ROM offset ... WM boot buffer
     [offset |-> \hC80, size |-> \h100],     \* HW_NVRAM_USER_INFO
     [offset |-> \hE00, size |-> \h160] >>   \* HW_ROM_HEADER_BUF

\* HW_RED_RESERVED, where the card ID goes, twice.
HW_RED == <<\h800, \h804>>

\* One range, word by word; the first i ranges; then the whole copy.
WordsOf(r) == [i \in 1 .. r.size \div 4 |-> r.offset + 4 * (i - 1)]
RangesCopied[i \in 0 .. Len(BOOT_RANGES)] ==
  IF i = 0 THEN << >> ELSE RangesCopied[i - 1] \o WordsOf(BOOT_RANGES[i])
Written == RangesCopied[Len(BOOT_RANGES)] \o HW_RED

-----------------------------------------------------------------------------
(***************************************************************************)
(* BootProtocol's constants for the real table.                            *)
(***************************************************************************)
RealN         == 270        \* words in BOOT_RANGES
RealH         == 183        \* first word of the header
RealUnitWord  == 187        \* unit code, header + 0x012
RealGameWords == {97, 103}  \* reset parameter 0xC20, multiboot info 0xC40

\* The offset of the word BootProtocol calls k.
OffsetOf(k) ==
  CASE k \in 1 .. 88    -> \hA80 + 4 * (k - 1)
    [] k \in 89 .. 97   -> \hC00 + 4 * (k - 89)
    [] k \in 98 .. 118  -> \hC2C + 4 * (k - 98)
    [] k \in 119 .. 182 -> \hC80 + 4 * (k - 119)
    [] k \in 183 .. 270 -> \hE00 + 4 * (k - 183)

Within(o, a, b) == a <= o /\ o < b
\* The words written when word o is, o included.
WrittenBy(o) ==
  {Written[k] : k \in {k \in DOMAIN Written :
                        \E j \in DOMAIN Written : Written[j] = o /\ k <= j}}

\* The copy is in the order, and of exactly the words, that BootProtocol's
\* numbering says: header last, CRC field last of it, then only the card ID.
InTheNumberedOrder ==
  Written = [k \in 1 .. RealN |-> OffsetOf(k)] \o HW_RED

\* The copy leaves alone what others own in the same 4KB: the shared block the
\* ARM7 may be filling in, the arena table and exception vector OS_Init may be
\* setting up, and the words nds-bootstrap and NSMB co-op use.
SparesOthers ==
  \A k \in DOMAIN Written :
    /\ ~ Within(Written[k], \hC24, \hC2C)
    /\ ~ Within(Written[k], \hD80, \hE00)
    /\ ~ Within(Written[k], \hA00, \hA80)

\* Once the last word of the header, with the CRC field 0x15E, is written, all
\* that NTR code reads is: reset parameter, multiboot info, user settings.
HeaderClosesCopy ==
  {\hC00, \hC20, \hC40, \hE10} \cup {\hC80 + 4 * k : k \in 0 .. 63}
    \subseteq WrittenBy(\hF5C)

==============================================================================
