--------------------------------- MODULE Mpu ---------------------------------
(***************************************************************************)
(* Protection region 1 of the ARM9 (modules/dsi/source9/core/internal.hpp) *)
(* as its three fields: enable bit, base, and the size code n, which stands *)
(* for 2^(n+1) bytes.  Bases are in kilobytes.                             *)
(***************************************************************************)
EXTENDS Naturals

MAIN_RAM == 32768                  \* 0x02000000
Region   == [on : BOOLEAN, base : Nat, size : 0 .. 31]

AtMain(n) == [on |-> TRUE, base |-> MAIN_RAM, size |-> n]

REGION1_4MB  == AtMain(21)         \* 0x0200002B, what OS_Init leaves
REGION1_8MB  == AtMain(22)         \* 0x0200002D, what crt0 leaves
REGION1_16MB == AtMain(23)         \* 0x0200002F, all of DSi main RAM
REGION1_32MB == AtMain(24)         \* 0x02000031, main RAM and the WRAM window

\* Mutant: an enabled region at the right base is taken to be wide enough.
WidenRegion1AnySize(current, wanted) ==
  IF current.on /\ current.base = wanted.base THEN current ELSE wanted

\* Mutant: what is wanted is set, whatever is there.
WidenRegion1Always(current, wanted) == IF current = wanted THEN current ELSE wanted

\* Region 1 widened to cover at least `wanted`, never narrowed.
WidenRegion1(current, wanted) ==
  LET usable == current.on /\ current.base = wanted.base
  IN  IF usable /\ current.size >= wanted.size THEN current ELSE wanted

\* Every address of region s is also in region r.
Covers(r, s) == s.on => r.on /\ r.base = s.base /\ r.size >= s.size

==============================================================================
