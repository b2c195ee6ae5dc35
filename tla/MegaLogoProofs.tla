--------------------------- MODULE MegaLogoProofs ---------------------------
(***************************************************************************)
(* Theorems about the logo scene, for heaps of every size and whatever the *)
(* game allocates in between.  The invariant says at each step what the    *)
(* component holds: memory, a sound heap in it, files in the sound heap,   *)
(* each only on top of the one before.                                     *)
(***************************************************************************)
EXTENDS MegaLogo, TLAPS

Labels == {"over", "allocate", "ding", "create", "load", "mega", "giveUp", "logo",
           "endLogo", "giveUpFree", "endLogoFree"}

TypeOK ==
  /\ mode \in {"ds", "launcher", "loader"} /\ exists \subseteq Heaps
  /\ room \in [Heaps -> Nat] /\ borrowed \in [Heaps -> Nat]
  /\ memory \in Heaps \cup {"null"}
  /\ soundHeap \in BOOLEAN /\ archive \in BOOLEAN
  /\ playing \in {"none", "ding", "mega"} /\ pc \in Labels

\* The debt is one megabyte of the heap the memory is from.
DebtFits ==
  /\ memory # "null" => parent = memory
  /\ \A h \in Heaps : borrowed[h] = IF h = memory THEN 1 ELSE 0

\* Each thing held stands on the one below.
HeldFits ==
  /\ soundHeap => memory # "null"
  /\ archive => soundHeap

\* What is held, and what sounds, at each step.
ScenesFit ==
  /\ memory = "null" <=> \/ pc \in {"over", "allocate", "ding"}
                         \/ pc = "logo" /\ playing = "ding"
  /\ pc = "create" => ~ soundHeap
  /\ pc = "load" => soundHeap /\ ~ archive
  /\ pc \in {"mega", "endLogo"} => archive
  /\ pc = "logo" => \/ playing = "mega" /\ archive
                    \/ playing = "ding" /\ ~ soundHeap
  /\ pc \in {"giveUpFree", "endLogoFree"} => ~ archive
  /\ pc \notin {"logo", "over"} => playing = "none"
  /\ pc = "over" => playing # "mega"

LogoInv == TypeOK /\ DebtFits /\ HeldFits /\ ScenesFit

-----------------------------------------------------------------------------
(***************************************************************************)
(* The invariant.                                                          *)
(***************************************************************************)

\* Nothing is held before the first scene.
LEMMA LogoInit == Init => LogoInv
<1> SUFFICES ASSUME Init PROVE LogoInv
  OBVIOUS
<1>1. TypeOK
  <2>1. exists \subseteq Heaps
    BY SMT DEF Init, Heaps
  <2>2. room \in [Heaps -> Nat] /\ borrowed \in [Heaps -> Nat]
    BY MaxRoomAssumption, SMT DEF Init
  <2>3. soundHeap \in BOOLEAN /\ archive \in BOOLEAN
    BY Zenon DEF Init
  <2> QED BY <2>1, <2>2, <2>3, SMT DEF Init, TypeOK, Labels
<1>2. DebtFits
  BY SMT DEF Init, DebtFits, Heaps
<1>3. HeldFits /\ ScenesFit
  BY SMT DEF Init, HeldFits, ScenesFit
<1> QED BY <1>1, <1>2, <1>3 DEF LogoInv

\* What the game allocates is none of the component's.
LEMMA StepGameAllocates == LogoInv /\ GameAllocates => LogoInv'
<1> SUFFICES ASSUME LogoInv, GameAllocates PROVE LogoInv'
  OBVIOUS
<1> USE DEF LogoInv, GameAllocates, world, static
<1>1. TypeOK'
  BY MaxRoomAssumption, SMT DEF TypeOK
<1>2. DebtFits' /\ HeldFits' /\ ScenesFit'
  BY SMT DEF DebtFits, HeldFits, ScenesFit
<1> QED BY <1>1, <1>2

\* A scene begins with nothing held.
LEMMA StepBegins == LogoInv /\ (LogoSound \/ NoMemory) => LogoInv'
<1> SUFFICES ASSUME LogoInv, LogoSound \/ NoMemory PROVE LogoInv'
  OBVIOUS
<1> USE DEF LogoInv, LogoSound, NoMemory, world, lent, static
<1>1. TypeOK'
  BY SMT DEF TypeOK, Labels
<1>2. DebtFits' /\ HeldFits'
  BY SMT DEF DebtFits, HeldFits
<1>3. ScenesFit'
  BY SMT DEF ScenesFit, HeldFits, TypeOK
<1> QED BY <1>1, <1>2, <1>3

\* One megabyte of one heap becomes the debt.
LEMMA StepAllocate == LogoInv /\ Allocate => LogoInv'
<1> SUFFICES ASSUME LogoInv, Allocate PROVE LogoInv'
  OBVIOUS
<1> USE DEF LogoInv, Allocate, world
<1>1. PICK h \in Heaps : /\ room[h] > 0
                         /\ room' = [room EXCEPT ![h] = @ - 1]
                         /\ borrowed' = [borrowed EXCEPT ![h] = @ + 1]
                         /\ memory' = h /\ parent' = h
  <2>1. Lender \subseteq Heaps
    BY SMT DEF Lender, Heaps
  <2> QED BY <2>1, Zenon
<1>2. memory = "null" /\ h # "null"
  BY <1>1, SMT DEF ScenesFit, Heaps
<1>3. TypeOK'
  BY <1>1, SMT DEF TypeOK, Labels
<1>4. DebtFits'
  <2>1. \A g \in Heaps : borrowed[g] = 0
    BY <1>2, SMT DEF DebtFits, Heaps
  <2> QED BY <1>1, <2>1, SMT DEF DebtFits, TypeOK
<1>5. HeldFits' /\ ScenesFit'
  BY <1>1, <1>2, SMT DEF HeldFits, ScenesFit
<1> QED BY <1>3, <1>4, <1>5

\* The heap comes or does not; the group comes whole, in part or not at all;
\* the sound is the one there is.
LEMMA StepLoads == LogoInv /\ (CreateHeap \/ LoadGroup \/ PlaySound) => LogoInv'
<1> SUFFICES ASSUME LogoInv, CreateHeap \/ LoadGroup \/ PlaySound PROVE LogoInv'
  OBVIOUS
<1> USE DEF LogoInv, CreateHeap, LoadGroup, PlaySound, world, lent, static
<1>1. TypeOK'
  <2>1. soundHeap' \in BOOLEAN /\ archive' \in BOOLEAN
    BY Zenon DEF TypeOK
  <2> QED BY <2>1, SMT DEF TypeOK, Labels
<1>2. DebtFits'
  BY SMT DEF DebtFits
<1>3. HeldFits' /\ ScenesFit'
  BY SMT DEF HeldFits, ScenesFit, TypeOK, Heaps
<1> QED BY <1>1, <1>2, <1>3

\* The sound ends before its samples go, and they before the memory does.
LEMMA StepEnds == LogoInv /\ (SceneEnd \/ DestroyHeap) => LogoInv'
<1> SUFFICES ASSUME LogoInv, SceneEnd \/ DestroyHeap PROVE LogoInv'
  OBVIOUS
<1> USE DEF LogoInv, SceneEnd, DestroyHeap, StopSFX, Destroys, world, lent, static
<1>1. TypeOK'
  <2>1. soundHeap' \in BOOLEAN /\ archive' \in BOOLEAN
    BY Zenon DEF TypeOK
  <2> QED BY <2>1, SMT DEF TypeOK, Labels
<1>2. DebtFits'
  BY SMT DEF DebtFits
<1>3. HeldFits' /\ ScenesFit'
  <2>1. CASE SceneEnd
    BY <2>1, SMT DEF HeldFits, ScenesFit, TypeOK
  <2>2. CASE DestroyHeap
    <3>1. ~ archive'
      BY <2>2, Zenon DEF HeldFits
    <3> QED BY <2>2, <3>1, SMT DEF HeldFits, ScenesFit, TypeOK
  <2> QED BY <2>1, <2>2
<1> QED BY <1>1, <1>2, <1>3

\* The megabyte goes back to the heap it is from.
LEMMA StepFreeMemory == LogoInv /\ FreeMemory => LogoInv'
<1> SUFFICES ASSUME LogoInv, FreeMemory PROVE LogoInv'
  OBVIOUS
<1> USE DEF LogoInv, FreeMemory, Frees, world, lent
<1>1. memory # "null" /\ parent = memory /\ memory \in Heaps
  BY SMT DEF ScenesFit, DebtFits, TypeOK
<1>2. TypeOK'
  <2>1. borrowed[memory] = 1
    BY <1>1, SMT DEF DebtFits
  <2>2. room' \in [Heaps -> Nat] /\ borrowed' \in [Heaps -> Nat]
    BY <1>1, <2>1, SMT DEF TypeOK
  <2>3. soundHeap' \in BOOLEAN
    BY Zenon
  <2> QED BY <2>2, <2>3, SMT DEF TypeOK, Labels
<1>3. DebtFits'
  BY <1>1, SMT DEF TypeOK, DebtFits, Heaps
<1>4. HeldFits' /\ ScenesFit'
  BY <1>1, SMT DEF HeldFits, ScenesFit
<1> QED BY <1>2, <1>3, <1>4

\* Every step keeps the invariant.
LEMMA LogoStep == LogoInv /\ [Next]_vars => LogoInv'
<1> SUFFICES ASSUME LogoInv, [Next]_vars PROVE LogoInv'
  OBVIOUS
<1>1. CASE Next
  BY <1>1, StepGameAllocates, StepBegins, StepAllocate, StepLoads, StepEnds,
     StepFreeMemory DEF Next
<1>2. CASE UNCHANGED vars
  BY <1>2, SMT DEF vars, LogoInv, TypeOK, DebtFits, HeldFits, ScenesFit
<1> QED BY <1>1, <1>2

\* At every step the component holds what it should, and owes what it holds:
\* the facts the theorems below are drawn from.
THEOREM LogoInvHolds == Spec => []LogoInv
BY LogoInit, LogoStep, PTL DEF Spec

-----------------------------------------------------------------------------
(***************************************************************************)
(* What the scene keeps.                                                   *)
(***************************************************************************)

\* The archive's files are in memory that is borrowed, whatever failed on the
\* way (releaseSoundHeap).
THEOREM ArchiveNeverDanglesHolds == Spec => []ArchiveNeverDangles
<1>1. LogoInv => ArchiveNeverDangles
  BY SMT DEF LogoInv, TypeOK, DebtFits, HeldFits, ArchiveNeverDangles
<1> QED BY <1>1, LogoInvHolds, PTL

\* Nothing is owed when the scene is over or has settled for the ding.
THEOREM AllGivenBackHolds == Spec => []AllGivenBack
<1>1. LogoInv => AllGivenBack
  <2> SUFFICES ASSUME LogoInv, pc \in {"ding", "over"} \/ playing = "ding", NEW h \in Heaps
               PROVE  borrowed[h] = 0
    BY DEF AllGivenBack
  <2>1. memory = "null"
    BY SMT DEF LogoInv, ScenesFit
  <2>2. h # "null"
    BY SMT DEF Heaps
  <2> QED BY <2>1, <2>2, SMT DEF LogoInv, DebtFits
<1> QED BY <1>1, LogoInvHolds, PTL

\* The Mega Mushroom sounds only from samples that are there, and in every scene
\* that has got them.
THEOREM PlaysOnlyWhatIsLoadedHolds == Spec => []PlaysOnlyWhatIsLoaded
<1>1. LogoInv => PlaysOnlyWhatIsLoaded
  BY SMT DEF LogoInv, HeldFits, ScenesFit, PlaysOnlyWhatIsLoaded
<1> QED BY <1>1, LogoInvHolds, PTL

=============================================================================
