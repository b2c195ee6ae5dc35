------------------------------- MODULE Pitch --------------------------------
(***************************************************************************)
(* The notes' timers.  source7/core/bios7.cpp replaces the ARM7's veneer   *)
(* for the BIOS call GetPitchTable, which the DSi's BIOS gets wrong, and   *)
(* asks it for an index that comes out right.  When to do so is what the   *)
(* ARM7's boot hook found, in BootProtocol, on this boot and after every   *)
(* soft reset, from a register it changes itself.                          *)
(***************************************************************************)
EXTENDS BootProtocol, Integers

PitchEntries == 0 .. 767           \* 000h..2FFh

\* The DSi's BIOS looks into its sine table, this many entries behind.
SineOffset == 1130                 \* 46Ah

\* Whether the console is in DSi mode, as far as its registers tell: where they
\* answer it is; where access is revoked it may be, unless it is a DS.
DsiModes ==
  IF ScfgUnlocked(ext[7]) THEN {TRUE} ELSE IF snd THEN BOOLEAN ELSE {FALSE}

\* The BIOS, the DSi's in DSi mode: the entry it gives for r0, counted from the
\* pitch table's first.  r0 wraps at 32 bits both ways, so the sum is what it
\* is here.
Bios(dsiMode, r0) == IF dsiMode THEN r0 + SineOffset ELSE r0

\* Mutant: under a loader the loader's fix is left to do it.
R0NotUnderLoader(index) ==
  IF twl[7] /\ ~ loader[7] THEN index - SineOffset ELSE index
R0(index) == IF twl[7] THEN index - SineOffset ELSE index

\* nds-bootstrap patches the veneer where it finds the game's own, which our
\* jump has replaced.
VeneerIsGames        == FALSE
LoaderCorrects(r0)   ==
  IF launch = "loader" /\ VeneerIsGames THEN r0 - SineOffset ELSE r0

GetPitchTable(dsiMode, index) == Bios(dsiMode, LoaderCorrects(R0(index)))

\* The game's music is in tune wherever the module's own DSi mode, which asks for
\* 16MB of RAM, is the console's: started by whatever and reset however often,
\* the BIOS is corrected exactly once where it is wrong and left alone where it
\* is right.  A console left in DSi mode with a smaller RAM limit, or without
\* SCFG, is taken for a DS and plays out of tune (DSi_bootArm7, twl7).
InTune ==
  pc[7] = "game" =>
    \A dsiMode \in DsiModes, index \in PitchEntries :
      GetPitchTable(dsiMode, index) = index <=> (dsiMode => launch # "ds")

==============================================================================
