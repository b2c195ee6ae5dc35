------------------------------- MODULE TwlRegs -------------------------------
(***************************************************************************)
(* The DSi registers the module reads and writes, after                    *)
(* modules/dsi/include/dsi/twl_regs.hpp.  A register is the set of its     *)
(* one bits, so `reg & mask` is an intersection and `reg & ~mask` a set    *)
(* difference.                                                             *)
(***************************************************************************)
EXTENDS Naturals

Bits == 0 .. 31

SCFG_EXT_ACCESS == 31              \* SCFG/MBK still accessible
SCFG_EXT_NWRAM  == 25              \* the ARM7 granted the ARM9 the new WRAM
SCFG_EXT_RAM_16MB == 2

\* Bits 14-15 of SCFG_EXT as a number: 0 and 1 are 4MB, 2 is 16MB, 3 is 32MB.
RamLimit(ext) ==
  (IF 15 \in ext THEN 2 ELSE 0) + (IF 14 \in ext THEN 1 ELSE 0)

ScfgUnlocked(ext) == SCFG_EXT_ACCESS \in ext

\* Mutant: the whole lower half, the RAM limit with it.
SCFG_EXT9_LOW_CLEAR == 0 .. 15

\* The bits that change how hardware an NTR game already uses behaves.
SCFG_EXT9_NITRO_CLEAR == {0, 1, 2, 3, 4, 7, 8, 12, 13}
SCFG_EXT7_NITRO_CLEAR == {0, 1, 2, 8, 9, 10}

==============================================================================
