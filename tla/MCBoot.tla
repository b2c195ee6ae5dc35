------------------------------- MODULE MCBoot -------------------------------
(***************************************************************************)
(* BootProtocol for TLC: one word of game state, one other word, then a    *)
(* header of three words: unit code, another one, CRC field; the card ID.  *)
(***************************************************************************)
EXTENDS BootPremises, Pitch

MCGameWords == {1}

\* Access bit, 16MB, NWRAM and two of the extended circuits; 4MB only; none.
MCExt9 == {{31, 25, 15, 0, 12}, {31, 25, 0}, {}}
MCExt7 == {{31, 15, 2, 8}, {31, 14, 2}, {}}

MCLoaderRegions ==
  {REGION1_8MB, REGION1_32MB, [on |-> TRUE, base |-> 0, size |-> 24]}

\* Zeroed RAM, and the block a DSi-mode boot of another session left.
MCStaleFlags == {{}, {"DSI_CONSOLE", "TWL_MODE", "LOADER", "REPORT"}}

==============================================================================
