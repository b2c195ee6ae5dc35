---------------------------- MODULE BootProtocol ----------------------------
(***************************************************************************)
(* The core of the DSi module: the two boot hooks, DSi_bootArm9 and        *)
(* DSi_bootArm7, which run at the same time on the console's two CPUs and  *)
(* read, compare and write the same main RAM without any lock, and the     *)
(* handshake after which the ARM9 trusts what the ARM7 published.          *)
(*                                                                         *)
(* Granularity: one memory access to the NTR system area or to the shared  *)
(* block is one step.  CPU-local computation is folded into the access     *)
(* before it.                                                              *)
(*                                                                         *)
(* The words mirrorBootArea() writes are numbered 1 .. N+1 in the order    *)
(* in which it writes them: 1 .. N are BOOT_RANGES (the header, H .. N, is *)
(* the last range), N+1 is the card ID at 0x027FF800.  Of a word the model *)
(* keeps where its contents come from:                                     *)
(*   "twl"   what the launcher put in the TWL area for this title          *)
(*   "ntr"   boot data already placed for NTR code (DS firmware, a loader) *)
(*   "junk"  leftovers in RAM of whatever ran before                       *)
(*   "game"  stored by the running game for the boot after a soft reset    *)
(***************************************************************************)
EXTENDS TwlRegs, Mpu

CONSTANTS
  N,               \* number of words in BOOT_RANGES
  H,               \* first word of the header range, the last range
  UnitWord,        \* header word with the unit code (0x012)
  GameWords,       \* words that carry state across a soft reset (0xC20, 0xC40)
  Ext9Found,       \* SCFG_EXT9 values to consider
  Ext7Found,       \* SCFG_EXT7 values to consider
  LoaderRegions,   \* what region 1 can be when a loader's crt0 is done
  StaleFlags       \* contents of the shared block's flags byte before a boot

Flags == {"DSI_CONSOLE", "TWL_MODE", "BOOT_AREA_OK", "LOADER", "REPORT"}

\* The CRC field (0x15E) is in the last word of the header; it and the unit
\* code are in different words.
ASSUME LayoutAssumption ==
  /\ N \in Nat /\ H \in Nat /\ UnitWord \in Nat
  /\ 1 <= H /\ H <= UnitWord /\ UnitWord < N
  /\ GameWords \subseteq 1 .. H - 1

ASSUME RegisterAssumption ==
  /\ Ext9Found \subseteq SUBSET Bits /\ Ext7Found \subseteq SUBSET Bits
  /\ LoaderRegions \subseteq Region
  /\ StaleFlags \subseteq SUBSET Flags

CPU      == {7, 9}
Words    == 1 .. N + 1             \* in the order mirrorBootArea writes them
Header   == H .. N
CardWord == N + 1

Tags     == {"twl", "ntr", "junk", "game"}
Launches == {"ds", "launcher", "loader"}
Labels   == {"hook", "crcField", "unit", "crc", "switchOff", "compare", "copy",
             "pubValue", "pubFlags", "pubMagic", "osInit", "afterOsInit", "game"}
Blocks   == [magic : BOOLEAN, flags : SUBSET Flags, value : {"stale", "ext7"}]

VARIABLES
  launch,    \* who started the console in this mode (environment, never read)
  snd,       \* SNDEXCNT answers: DSi or 3DS hardware
  a9rom,     \* SCFG_A9ROM reads as the DSi BIOS
  ext,       \* SCFG_EXT of each CPU
  region1,   \* the ARM9's protection region 1
  ntr,       \* the NTR system area, word by word
  blk,       \* the shared block at 0x027FFC24
  pc, idx,   \* where each CPU is, and its loop index
  seen,      \* per CPU: origins of the bytes that went into the CRC check
  twl,       \* state.twl on the ARM9, twlMode on the ARM7
  loader,    \* startedByLoader()'s answer on each CPU
  keep1,     \* state.region1
  console    \* state.console

world == <<launch, snd, a9rom>>
local == <<seen, twl, loader>>
vars  == <<launch, snd, a9rom, ext, region1, ntr, blk, pc, idx, seen, twl,
           loader, keep1, console>>

(***************************************************************************)
(* Mode detection, from registers only.  SCFG_EXT reads as zero on a DS    *)
(* and once access to it is revoked.                                       *)
(***************************************************************************)
Detects9(rom, e) == rom /\ ScfgUnlocked(e) /\ RamLimit(e) >= SCFG_EXT_RAM_16MB
Detects7(e)      == ScfgUnlocked(e) /\ RamLimit(e) >= SCFG_EXT_RAM_16MB

NoRegion == [on |-> FALSE, base |-> 0, size |-> 0]

\* Region 1 when the first hook runs: crt0's 8MB, unless a loader chose it.
Crt0Regions == IF launch = "loader" THEN LoaderRegions ELSE {REGION1_8MB}

\* What the NTR area can hold when the console starts the title.  A leftover
\* word may happen to equal the launcher's (zeros do), but a leftover CRC field
\* is not the CRC of this title's header.
ColdArea ==
  CASE launch \in {"ds", "loader"} -> [Words -> {"ntr"}]
    [] launch = "launcher" ->
         {a \in [Words -> {"junk", "twl"}] : a[N] = "junk"}

Init ==
  /\ launch \in Launches
  /\ snd \in BOOLEAN /\ (launch # "ds" => snd)
  /\ a9rom \in BOOLEAN
  /\ \E e9 \in Ext9Found, e7 \in Ext7Found :
       /\ Detects9(a9rom, e9) <=> launch # "ds"
       /\ Detects7(e7) <=> launch # "ds"
       /\ ext = [c \in CPU |-> IF c = 9 THEN e9 ELSE e7]
  /\ region1 \in Crt0Regions
  /\ ntr \in ColdArea
  /\ blk \in [magic : BOOLEAN, flags : StaleFlags, value : {"stale"}]
  /\ pc = [c \in CPU |-> "hook"]
  /\ idx = [c \in CPU |-> 0]
  /\ seen = [c \in CPU |-> {}]
  /\ twl = [c \in CPU |-> FALSE]
  /\ loader = [c \in CPU |-> FALSE]
  /\ keep1 = NoRegion
  /\ console = FALSE

Goto(c, l)     == pc' = [pc EXCEPT ![c] = l]
SetIdx(c, i)   == idx' = [idx EXCEPT ![c] = i]
\* Where a CPU goes when its hook has nothing left to do to the boot area.
AfterMirror(c) == IF c = 9 THEN "osInit" ELSE "pubValue"

(***************************************************************************)
(* The entry of each hook.                                                 *)
(***************************************************************************)
DetectArm9 ==
  /\ pc[9] = "hook"
  /\ LET isTwl == Detects9(a9rom, ext[9])
         wide  == IF isTwl THEN WidenRegion1(region1, REGION1_16MB) ELSE keep1
     IN  /\ twl' = [twl EXCEPT ![9] = isTwl]
         /\ keep1' = wide
         /\ region1' = IF isTwl THEN wide ELSE region1
         /\ Goto(9, IF isTwl THEN "crcField" ELSE "osInit")
  /\ UNCHANGED <<world, ext, ntr, blk, idx, seen, loader, console>>

DetectArm7 ==
  /\ pc[7] = "hook"
  /\ twl' = [twl EXCEPT ![7] = Detects7(ext[7])]
  /\ Goto(7, IF Detects7(ext[7]) THEN "crcField" ELSE "pubValue")
  /\ UNCHANGED <<world, ext, region1, ntr, blk, idx, seen, loader, keep1, console>>

(***************************************************************************)
(* startedByLoader(), on either CPU: the two bytes of the CRC field, then  *)
(* the unit code, then the header again word by word for its CRC.  A CRC   *)
(* matches only bytes that were written together: seen is one origin, and  *)
(* not "junk".                                                             *)
(***************************************************************************)
\* Mutant: what counts is the field as the sum meets it, its last word.
SeenInFieldLate(c) == seen[c]
SeenInField(c)     == seen[c] \cup {ntr[N]}

ReadCrcField(c) ==
  /\ pc[c] = "crcField"
  /\ seen' = [seen EXCEPT ![c] = SeenInField(c)]
  /\ IF idx[c] = 0
     THEN SetIdx(c, 1) /\ UNCHANGED pc
     ELSE Goto(c, "unit") /\ UNCHANGED idx
  /\ UNCHANGED <<world, ext, region1, ntr, blk, twl, loader, keep1, console>>

\* The title's own header is DSi-enhanced, a loader's is not; a leftover byte
\* may be anything.
ReadUnit(c) ==
  /\ pc[c] = "unit"
  /\ \/ /\ ntr[UnitWord] \in {"ntr", "junk"}
        /\ Goto(c, "crc") /\ SetIdx(c, H)
     \/ /\ ntr[UnitWord] \in {"twl", "junk"}
        /\ Goto(c, "switchOff") /\ UNCHANGED idx
  /\ UNCHANGED <<world, ext, region1, ntr, blk, local, keep1, console>>

CrcMatches(origins) == \E t \in Tags \ {"junk"} : origins = {t}

\* Mutant: the early return under a loader is missing.
AfterVerdictNoReturn(c, isLoader) == "switchOff"
AfterVerdict(c, isLoader) == IF isLoader THEN AfterMirror(c) ELSE "switchOff"

CrcStep(c) ==
  /\ pc[c] = "crc"
  /\ LET all == seen[c] \cup {ntr[idx[c]]} IN
       /\ seen' = [seen EXCEPT ![c] = all]
       /\ IF idx[c] < N
          THEN SetIdx(c, idx[c] + 1) /\ UNCHANGED <<pc, loader>>
          ELSE /\ loader' = [loader EXCEPT ![c] = CrcMatches(all)]
               /\ Goto(c, AfterVerdict(c, CrcMatches(all)))
               /\ UNCHANGED idx
  /\ UNCHANGED <<world, ext, region1, ntr, blk, twl, keep1, console>>

(***************************************************************************)
(* Not a loader: NITRO behaviour back, then mirrorBootArea().              *)
(***************************************************************************)
NitroClear(c) == IF c = 9 THEN SCFG_EXT9_NITRO_CLEAR ELSE SCFG_EXT7_NITRO_CLEAR

SwitchOffCircuits(c) ==
  /\ pc[c] = "switchOff"
  /\ ext' = [ext EXCEPT ![c] = @ \ NitroClear(c)]
  /\ Goto(c, "compare") /\ SetIdx(c, H)
  /\ UNCHANGED <<world, region1, ntr, blk, local, keep1, console>>

\* Mutants: the loop leaves out the last word; the copy is made on every boot;
\* on a mismatch a CPU leaves the copy to the other one and looks again.
CompareEndShort == N - 1
CompareEnd      == N
DiffersAlways(w) == w \in Words
Differs(w)       == ntr[w] # "twl"
OnMismatchWait(c) == UNCHANGED pc /\ SetIdx(c, H)
OnMismatch(c)     == Goto(c, "copy") /\ SetIdx(c, 1)

\* One word of bootAreaMirrored().
CompareWord(c) ==
  /\ pc[c] = "compare"
  /\ IF Differs(idx[c])
     THEN OnMismatch(c)
     ELSE IF idx[c] < CompareEnd
          THEN SetIdx(c, idx[c] + 1) /\ UNCHANGED pc
          ELSE Goto(c, AfterMirror(c)) /\ UNCHANGED idx
  /\ UNCHANGED <<world, ext, region1, ntr, blk, local, keep1, console>>

\* Mutant: one word too many.
CopyEndPast == CardWord + 1
CopyEnd     == CardWord

\* One word of the copy; the card ID is the last.
CopyWord(c) ==
  /\ pc[c] = "copy"
  /\ ntr' = [ntr EXCEPT ![idx[c]] = "twl"]
  /\ IF idx[c] < CopyEnd
     THEN SetIdx(c, idx[c] + 1) /\ UNCHANGED pc
     ELSE Goto(c, AfterMirror(c)) /\ UNCHANGED idx
  /\ UNCHANGED <<world, ext, region1, blk, local, keep1, console>>

(***************************************************************************)
(* The ARM7 fills in the shared block, the magic last.                     *)
(***************************************************************************)
\* Mutant: outside DSi mode the flags are left as they were.
FlagsFoundInTwl ==
  IF twl[7] THEN {"DSI_CONSOLE", "TWL_MODE", "BOOT_AREA_OK"} ELSE blk.flags
FlagsFound ==
  (IF snd THEN {"DSI_CONSOLE"} ELSE {})
    \cup (IF twl[7] THEN {"TWL_MODE", "BOOT_AREA_OK"} ELSE {})
    \cup (IF loader[7] THEN {"LOADER"} ELSE {})

PublishValue ==
  /\ pc[7] = "pubValue"
  /\ blk' = [blk EXCEPT !.value = "ext7"]
  /\ Goto(7, "pubFlags")
  /\ UNCHANGED <<world, ext, region1, ntr, idx, local, keep1, console>>

PublishFlags ==
  /\ pc[7] = "pubFlags"
  /\ blk' = [blk EXCEPT !.flags = FlagsFound]
  /\ Goto(7, "pubMagic")
  /\ UNCHANGED <<world, ext, region1, ntr, idx, local, keep1, console>>

PublishMagic ==
  /\ pc[7] = "pubMagic"
  /\ blk' = [blk EXCEPT !.magic = TRUE]
  /\ Goto(7, "osInit")
  /\ UNCHANGED <<world, ext, region1, ntr, idx, local, keep1, console>>

(***************************************************************************)
(* OS_Init, the game's SDK code.  The ARM7's answers the ARM9's PXI        *)
(* handshake; the ARM9's does not return before, and may shrink region 1.  *)
(***************************************************************************)
OsInitArm7 ==
  /\ pc[7] = "osInit"
  /\ Goto(7, "game")
  /\ UNCHANGED <<world, ext, region1, ntr, blk, idx, local, keep1, console>>

OsInitArm9 ==
  /\ pc[9] = "osInit" /\ pc[7] = "game"
  /\ region1' \in {region1, REGION1_4MB}
  /\ Goto(9, "afterOsInit")
  /\ UNCHANGED <<world, ext, ntr, blk, idx, local, keep1, console>>

\* DSi_afterOsInit in a build of the core alone: the block is read, region 1
\* put back.  (What it drives in the other components is module Stages.)
AfterOsInit ==
  /\ pc[9] = "afterOsInit"
  /\ console' = (twl[9] \/ (blk.magic /\ "DSI_CONSOLE" \in blk.flags))
  /\ region1' = IF twl[9] THEN keep1 ELSE region1
  /\ Goto(9, "game")
  /\ UNCHANGED <<world, ext, ntr, blk, idx, local, keep1>>

(***************************************************************************)
(* The game: it leaves a reset parameter or multiboot info behind and      *)
(* resets both CPUs, which reloads the program and clears its variables.   *)
(* RAM, the block and SCFG stay.                                           *)
(***************************************************************************)
GameStore ==
  /\ pc[9] = "game"
  /\ \E w \in GameWords : ntr' = [ntr EXCEPT ![w] = "game"]
  /\ UNCHANGED <<world, ext, region1, blk, pc, idx, local, keep1, console>>

SoftReset ==
  /\ pc[9] = "game" /\ pc[7] = "game"
  /\ pc' = [c \in CPU |-> "hook"]
  /\ idx' = [c \in CPU |-> 0]
  /\ seen' = [c \in CPU |-> {}]
  /\ twl' = [c \in CPU |-> FALSE]
  /\ loader' = [c \in CPU |-> FALSE]
  /\ keep1' = NoRegion
  /\ console' = FALSE
  /\ region1' \in Crt0Regions
  /\ UNCHANGED <<world, ext, ntr, blk>>

\* What either CPU can do, and what only one of them does.
Common(c) ==
  \/ ReadCrcField(c) \/ ReadUnit(c) \/ CrcStep(c)
  \/ SwitchOffCircuits(c) \/ CompareWord(c) \/ CopyWord(c)
Arm9 == DetectArm9 \/ Common(9) \/ OsInitArm9 \/ AfterOsInit
Arm7 == DetectArm7 \/ Common(7) \/ PublishValue \/ PublishFlags \/ PublishMagic
          \/ OsInitArm7

Next == Arm9 \/ Arm7 \/ GameStore \/ SoftReset

Spec     == Init /\ [][Next]_vars
\* Neither hook waits for anything, and both CPUs keep running.
FairSpec == Spec /\ WF_vars(Arm9) /\ WF_vars(Arm7)

-----------------------------------------------------------------------------
(***************************************************************************)
(* Properties.                                                             *)
(***************************************************************************)

\* Every variable holds a value of its kind.
TypeOK ==
  /\ launch \in Launches /\ snd \in BOOLEAN /\ a9rom \in BOOLEAN
  /\ ext \in [CPU -> SUBSET Bits]
  /\ region1 \in Region /\ keep1 \in Region
  /\ ntr \in [Words -> Tags]
  /\ blk \in Blocks
  /\ pc \in [CPU -> Labels]
  /\ idx \in [CPU -> 0 .. N + 1]
  /\ seen \in [CPU -> SUBSET Tags]
  /\ twl \in [CPU -> BOOLEAN] /\ loader \in [CPU -> BOOLEAN]
  /\ console \in BOOLEAN

InStartedByLoader == {"hook", "crcField", "unit", "crc"}
InHook  == InStartedByLoader \cup {"switchOff", "compare", "copy"}
Past(c) == pc[c] \notin InHook
\* Where boot data for NTR code comes from in this launch.
Placed  == IF launch = "launcher" THEN "twl" ELSE "ntr"

\* Both CPUs decide alike, and as the console was really started, although
\* either may check the header while the other is overwriting it
\* (startedByLoader against mirrorBootArea).
LoaderVerdict ==
  \A c \in CPU : pc[c] \notin InStartedByLoader =>
    /\ twl[c] <=> launch # "ds"
    /\ loader[c] <=> launch = "loader"

\* A CPU leaves its hook only with all of BOOT_RANGES in place, whichever CPU
\* copied it; once the ARM9's OS_Init is over the card ID is there as well.
BootDataReady ==
  /\ \A c \in CPU : Past(c) => \A w \in 1 .. N : ntr[w] \in {Placed, "game"}
  /\ pc[9] \in {"afterOsInit", "game"} => ntr[CardWord] = Placed

\* What the game leaves for the boot after a soft reset is never overwritten:
\* no CPU is still copying, and none starts to (bootAreaMirrored).
GameWordsSurvive ==
  [][\A w \in GameWords : ntr[w] = "game" => ntr'[w] = "game"]_vars

\* When the ARM9 has read the shared block, it was this boot's block and not
\* whatever the RAM held before, and it says what the ARM9 found by itself.
SharedBlockTrusted ==
  pc[9] = "game" =>
    /\ console <=> snd
    /\ blk.magic /\ blk.value = "ext7"
    /\ "TWL_MODE" \in blk.flags <=> twl[9]
    /\ "LOADER" \in blk.flags <=> loader[9]

\* The ARM9 touches the TWL system area only while region 1 covers all of
\* main RAM, and is left with such a region after OS_Init shrank it.
TwlAreaMapped ==
  pc[9] \in {"compare", "copy"} \/ (pc[9] = "game" /\ launch # "ds")
    => Covers(region1, REGION1_16MB)

\* On a DS, in DS mode and under a loader the hooks change neither SCFG nor
\* the boot area, on any schedule and after any number of soft resets, and a
\* region 1 that covers all of main RAM already is not narrowed.
OthersUntouched ==
  [][launch # "launcher" =>
       /\ UNCHANGED ext
       /\ \A w \in Words : ntr'[w] \in {ntr[w], "game"}
       /\ pc[9] \in InHook /\ Covers(region1, REGION1_16MB)
            => UNCHANGED region1]_vars

\* Every boot ends: neither CPU waits for ever in its hook or its OS_Init.
BootCompletes == \A c \in CPU : pc[c] = "hook" ~> pc[c] = "game"

\* The shared header says of SHARED_BOOT_AREA_OK that the NTR boot area holds
\* the boot data, and that a matching header means the area was mirrored.
BootAreaOkMeansDone ==
  pc[7] \in {"osInit", "game"} /\ "BOOT_AREA_OK" \in blk.flags =>
    \A w \in Words : ntr[w] \in {Placed, "game"}

(***************************************************************************)
(* What all this amounts to, as seen by the game.                          *)
(***************************************************************************)
Answer ==
  CASE pc[9] # "game" -> "none"
    [] pc[9] = "game" /\ ~twl[9] -> "ds"
    [] pc[9] = "game" /\ twl[9] -> IF loader[9] THEN "loader" ELSE "launcher"

Promise == INSTANCE BootSpec WITH
  mode   <- launch,
  stage  <- IF pc[9] = "game" THEN "up" ELSE "booting",
  data   <- IF \A w \in Words : ntr[w] \in {Placed, "game"}
            THEN "ready" ELSE "missing",
  kept   <- {w \in GameWords : ntr[w] = "game"},
  answer <- Answer

\* The two hooks and the handshake implement BootSpec.
KeepsPromise == Promise!FairSpec

==============================================================================
