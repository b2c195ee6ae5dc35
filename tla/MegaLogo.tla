------------------------------ MODULE MegaLogo ------------------------------
(***************************************************************************)
(* The MegaLogo component (source9/megalogo): in DSi mode the logo scene   *)
(* borrows a megabyte for a private sound heap, loads one sound group into *)
(* it and gives everything back when the scene ends.  The sound archive    *)
(* keeps pointers to the files of a loaded group, in whichever heap they   *)
(* are; destroying a sound heap makes it forget those in it.  Each step is *)
(* one call that can fail, or that changes what others see.                *)
(***************************************************************************)
EXTENDS Naturals

CONSTANT MaxRoom     \* bound: megabytes the game can leave free in a heap

ASSUME MaxRoomAssumption == MaxRoom \in Nat

Heaps == {"extended", "root"}

VARIABLES
  mode,        \* how the console was started
  exists,      \* the heaps there are
  room,        \* megabytes free in each heap
  memory,      \* soundHeapMemory: the heap it is from, or "null"
  parent,      \* soundHeapParent
  soundHeap,   \* soundHeap is set
  archive,     \* the archive has files in our sound heap
  borrowed,    \* history: megabytes of each heap taken and not given back
  playing,     \* the scene's sound effect
  pc

world  == <<mode, exists>>
lent   == <<room, borrowed>>
static == <<memory, parent, soundHeap>>
vars   == <<mode, exists, room, memory, parent, soundHeap, archive, borrowed, playing, pc>>

Init ==
  /\ mode \in {"ds", "launcher", "loader"}
  /\ exists \in IF mode = "launcher" THEN {Heaps, {"root"}} ELSE {{"root"}}
  /\ room \in [Heaps -> 0 .. MaxRoom]
  /\ memory = "null" /\ parent = "null" /\ soundHeap = FALSE
  /\ archive = FALSE
  /\ borrowed = [h \in Heaps |-> 0]
  /\ playing = "none" /\ pc = "over"

\* The game allocates and frees in the same heaps, between any two calls.
GameAllocates ==
  /\ \E h \in exists, r \in 0 .. MaxRoom :
       r + borrowed[h] <= MaxRoom /\ room' = [room EXCEPT ![h] = r]
  /\ UNCHANGED <<world, static, archive, borrowed, playing, pc>>

\* The logo scene, as often as the game comes to it: DSi_logoSound.
LogoSound ==
  /\ pc = "over"
  /\ playing' = "none"
  /\ pc' = IF mode # "ds" THEN "allocate" ELSE "ding"
  /\ UNCHANGED <<world, lent, static, archive>>

\* Which heap loadMegaSound() asks: the root heap only under a loader, where it
\* has room to spare, and on a DS none.
Lender ==
  IF "extended" \in exists THEN {"extended"}
  ELSE IF mode = "loader" THEN {"root"} ELSE {}

Allocate ==
  /\ pc = "allocate"
  /\ \E h \in Lender :
       /\ room[h] > 0
       /\ room' = [room EXCEPT ![h] = @ - 1]
       /\ borrowed' = [borrowed EXCEPT ![h] = @ + 1]
       /\ memory' = h /\ parent' = h
  /\ pc' = "create"
  /\ UNCHANGED <<world, soundHeap, archive, playing>>

NoMemory ==
  /\ pc = "allocate" /\ \A h \in Lender : room[h] = 0
  /\ pc' = "ding"
  /\ UNCHANGED <<world, lent, static, archive, playing>>

\* NNS_SndHeapCreate, which may fail.
CreateHeap ==
  /\ pc = "create"
  /\ soundHeap' \in BOOLEAN
  /\ pc' = IF soundHeap' THEN "load" ELSE "giveUp"
  /\ UNCHANGED <<world, lent, memory, parent, archive, playing>>

\* NNS_SndArcLoadGroup: all of the group, or a failure after a part of it.
LoadGroup ==
  /\ pc = "load"
  /\ \/ archive' = TRUE /\ pc' = "mega"
     \/ archive' \in BOOLEAN /\ pc' = "giveUp"
  /\ UNCHANGED <<world, lent, static, playing>>

\* SND::playSFX, with one sound or the other.
PlaySound ==
  /\ pc \in {"ding", "mega"}
  /\ playing' = pc /\ pc' = "logo"
  /\ UNCHANGED <<world, lent, static, archive>>

\* DSi_logoSceneEnd up to the release.  Mutant: the sound is left to ring out.
RingsOut == playing
StopSFX  == "none"

SceneEnd ==
  /\ pc = "logo"
  /\ IF soundHeap THEN playing' = StopSFX /\ pc' = "endLogo"
     ELSE UNCHANGED playing /\ pc' = "over"
  /\ UNCHANGED <<world, lent, static, archive>>

\* releaseSoundHeap(), after a failure and at the end of the scene.  Mutants:
\* the sound heap is not destroyed; without one the memory is not given back.
DestroysNone   == FALSE
Destroys       == soundHeap
FreesWithHeap  == memory # "null" /\ soundHeap
Frees          == memory # "null"

DestroyHeap ==
  /\ pc \in {"giveUp", "endLogo"}
  /\ archive' = (archive /\ ~ Destroys)
  /\ pc' = IF pc = "giveUp" THEN "giveUpFree" ELSE "endLogoFree"
  /\ UNCHANGED <<world, lent, static, playing>>

FreeMemory ==
  /\ pc \in {"giveUpFree", "endLogoFree"}
  /\ IF Frees
     THEN /\ room' = [room EXCEPT ![parent] = @ + 1]
          /\ borrowed' = [borrowed EXCEPT ![parent] = @ - 1]
     ELSE UNCHANGED lent
  /\ soundHeap' = FALSE /\ memory' = "null"
  /\ pc' = IF pc = "giveUpFree" THEN "ding" ELSE "over"
  /\ UNCHANGED <<world, parent, archive, playing>>

Next ==
  \/ GameAllocates \/ LogoSound \/ Allocate \/ NoMemory \/ CreateHeap
  \/ LoadGroup \/ PlaySound \/ SceneEnd \/ DestroyHeap \/ FreeMemory
Spec == Init /\ [][Next]_vars

-----------------------------------------------------------------------------
(***************************************************************************)
(* Properties.                                                             *)
(***************************************************************************)

\* The sound archive never points into memory that went back to the game, also
\* when a load failed half-way: the title screen would take it for loaded.
ArchiveNeverDangles == archive => memory # "null" /\ borrowed[memory] = 1

\* Whatever failed, the megabyte is back before the ding plays, and in any case
\* when the scene is over.
AllGivenBack ==
  pc \in {"ding", "over"} \/ playing = "ding" => \A h \in Heaps : borrowed[h] = 0

\* The Mega Mushroom sounds exactly while its group is loaded: if anything fails
\* the ding plays, and the sound is stopped before its samples go.
PlaysOnlyWhatIsLoaded ==
  /\ playing = "mega" => archive
  /\ pc = "logo" => (playing = "mega" <=> soundHeap)

==============================================================================
