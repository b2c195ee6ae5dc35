------------------------- MODULE BootProtocolProofs -------------------------
(***************************************************************************)
(* Proofs about BootProtocol, for every layout of the boot area, every     *)
(* register value the premises allow and every interleaving; about the     *)
(* pitch table, which rests on it; and about what it takes for granted of  *)
(* the real area and the real checksum.                                    *)
(***************************************************************************)
EXTENDS BootPremises, Pitch, FiniteSetTheorems, TLAPS

\* The named fragments of the actions are always expanded.
USE DEF SeenInField, AfterVerdict, CompareEnd, Differs, OnMismatch, CopyEnd, CardWord

\* widenRegion1 returns a region.
LEMMA WidenTyped ==
  ASSUME NEW r \in Region, NEW s \in Region
  PROVE  WidenRegion1(r, s) \in Region
  BY DEF WidenRegion1

\* The region values of the code and its SDK are regions.
LEMMA RegionConstants ==
  /\ REGION1_4MB \in Region /\ REGION1_8MB \in Region
  /\ REGION1_16MB \in Region /\ NoRegion \in Region
  BY DEF REGION1_4MB, REGION1_8MB, REGION1_16MB, NoRegion, AtMain, Region, MAIN_RAM

\* The types hold when the console starts the title.
LEMMA InitTypeOK == Init => TypeOK
<1> SUFFICES ASSUME Init PROVE TypeOK
  OBVIOUS
<1> USE LayoutAssumption, RegisterAssumption
<1>1. launch \in Launches /\ snd \in BOOLEAN /\ a9rom \in BOOLEAN /\ console \in BOOLEAN
  BY DEF Init
<1>2. ext \in [CPU -> SUBSET Bits]
  BY DEF Init, CPU
<1>3. region1 \in Region /\ keep1 \in Region
  BY RegionConstants DEF Init, Crt0Regions
<1>4. ntr \in [Words -> Tags]
  <2>1. CASE launch = "launcher"
    BY <2>1 DEF Init, ColdArea, Tags
  <2>2. CASE launch # "launcher"
    BY <2>2 DEF Init, ColdArea, Tags, Launches
  <2> QED BY <2>1, <2>2
<1>5. blk \in Blocks
  BY DEF Init, Blocks
<1>6. pc \in [CPU -> Labels] /\ idx \in [CPU -> 0 .. N + 1]
  BY DEF Init, Labels, CPU
<1>7. seen \in [CPU -> SUBSET Tags]
  BY DEF Init, CPU
<1>8. twl \in [CPU -> BOOLEAN] /\ loader \in [CPU -> BOOLEAN]
  BY DEF Init, CPU
<1> QED BY <1>1, <1>2, <1>3, <1>4, <1>5, <1>6, <1>7, <1>8 DEF TypeOK

\* The CRC check answers yes or no.
LEMMA CrcMatchesTyped ==
  ASSUME NEW s PROVE CrcMatches(s) \in BOOLEAN
  BY DEF CrcMatches

\* No step of either hook, the SDK or the game breaks the types; where a CRC
\* check is in the header is what CrcCheckFits adds.
LEMMA NextTypeOK == TypeOK /\ CrcCheckFits /\ [Next]_vars => TypeOK'
<1> SUFFICES ASSUME TypeOK, CrcCheckFits, [Next]_vars PROVE TypeOK'
  OBVIOUS
<1> USE LayoutAssumption, RegisterAssumption DEF TypeOK, world, local, Goto, SetIdx, CPU
<1>1. CASE DetectArm9
  <2>1. WidenRegion1(region1, REGION1_16MB) \in Region
    BY WidenTyped, RegionConstants
  <2> QED BY <1>1, <2>1 DEF DetectArm9, Labels, Detects9
<1>2. CASE DetectArm7
  BY <1>2 DEF DetectArm7, Labels, Detects7
<1>3. ASSUME NEW c \in CPU, Common(c) PROVE TypeOK'
  <2>1. CASE ReadCrcField(c)
    BY <1>3, <2>1 DEF ReadCrcField, Labels, Words
  <2>2. CASE ReadUnit(c)
    BY <1>3, <2>2 DEF ReadUnit, Labels
  <2>3. CASE CrcStep(c)
    <3>1. idx' \in [CPU -> 0 .. N + 1]
      BY <2>3 DEF CrcStep
    <3>2. seen' \in [CPU -> SUBSET Tags]
      <4>1. ntr[idx[c]] \in Tags
        BY <2>3 DEF CrcStep, CrcCheckFits, Header, Words
      <4> QED BY <2>3, <4>1 DEF CrcStep
    <3>3. loader' \in [CPU -> BOOLEAN]
      BY <2>3, CrcMatchesTyped DEF CrcStep
    <3>4. pc' \in [CPU -> Labels]
      BY <2>3 DEF CrcStep, Labels, AfterMirror
    <3> QED BY <2>3, <3>1, <3>2, <3>3, <3>4 DEF CrcStep
  <2>4. CASE SwitchOffCircuits(c)
    BY <1>3, <2>4 DEF SwitchOffCircuits, Labels
  <2>5. CASE CompareWord(c)
    BY <1>3, <2>5 DEF CompareWord, Labels, AfterMirror
  <2>6. CASE CopyWord(c)
    <3>1. idx' \in [CPU -> 0 .. N + 1]
      BY <2>6 DEF CopyWord
    <3>2. ntr' \in [Words -> Tags]
      BY <2>6 DEF CopyWord, Tags
    <3>3. pc' \in [CPU -> Labels]
      BY <2>6 DEF CopyWord, Labels, AfterMirror
    <3> QED BY <2>6, <3>1, <3>2, <3>3 DEF CopyWord
  <2> QED BY <1>3, <2>1, <2>2, <2>3, <2>4, <2>5, <2>6 DEF Common
<1>4. CASE PublishValue
  BY <1>4 DEF PublishValue, Labels, Blocks
<1>5. CASE PublishFlags
  BY <1>5 DEF PublishFlags, Labels, Blocks, FlagsFound, Flags
<1>6. CASE PublishMagic
  BY <1>6 DEF PublishMagic, Labels, Blocks
<1>7. CASE OsInitArm7
  BY <1>7 DEF OsInitArm7, Labels
<1>8. CASE OsInitArm9
  BY <1>8, RegionConstants DEF OsInitArm9, Labels
<1>9. CASE AfterOsInit
  BY <1>9 DEF AfterOsInit, Labels
<1>10. CASE GameStore
  BY <1>10 DEF GameStore, Tags
<1>11. CASE SoftReset
  <2>1. region1' \in Region /\ keep1' \in Region
    BY <1>11, RegionConstants DEF SoftReset, Crt0Regions
  <2>2. pc' \in [CPU -> Labels] /\ idx' \in [CPU -> 0 .. N + 1]
    BY <1>11 DEF SoftReset, Labels
  <2>3. /\ seen' \in [CPU -> SUBSET Tags]
        /\ twl' \in [CPU -> BOOLEAN] /\ loader' \in [CPU -> BOOLEAN]
    BY <1>11 DEF SoftReset
  <2> QED BY <1>11, <2>1, <2>2, <2>3 DEF SoftReset
<1>12. CASE UNCHANGED vars
  BY <1>12 DEF vars
<1> QED BY <1>1, <1>2, <1>3, <1>4, <1>5, <1>6, <1>7, <1>8, <1>9, <1>10, <1>11, <1>12
        DEF Next, Arm9, Arm7

(***************************************************************************)
(* Every step keeps the inductive invariant.  In each lemma the first step *)
(* takes the parts the action leaves alone or only narrows; the parts it   *)
(* could break follow one by one.                                          *)
(***************************************************************************)
\* widenRegion1 covers what it was asked to cover, whatever the region was.
LEMMA WidenCovers ==
  ASSUME NEW r \in Region, NEW s \in Region
  PROVE  Covers(WidenRegion1(r, s), s)
  BY DEF WidenRegion1, Covers, Region

\* The bits the hooks clear in SCFG_EXT are none that mode detection reads, so a
\* boot after a soft reset detects what the first one did.
LEMMA ClearKeepsMode ==
  ASSUME NEW e, NEW rom
  PROVE  /\ Detects9(rom, e \ SCFG_EXT9_NITRO_CLEAR) <=> Detects9(rom, e)
         /\ Detects7(e \ SCFG_EXT7_NITRO_CLEAR) <=> Detects7(e)
  BY DEF Detects9, Detects7, ScfgUnlocked, RamLimit, SCFG_EXT_ACCESS,
         SCFG_EXT_RAM_16MB, SCFG_EXT9_NITRO_CLEAR, SCFG_EXT7_NITRO_CLEAR

\* DSi_bootArm9 up to its CRC check preserves the invariant.
LEMMA StepDetectArm9 ==
  ASSUME BootInv, DetectArm9, TypeOK' PROVE BootInv'
<1> USE LayoutAssumption DEF BootInv, TypeOK, world, local, Goto, SetIdx, CPU, Launches
<1>1. /\ RegistersTell' /\ LabelsFit' /\ OriginsFit' /\ CrcWordLast' /\
         ProgressFits' /\ NoLateCopy' /\ CrcCheckFits' /\ BlockFits'
  BY DEF DetectArm9, AfterMirror, RegistersTell, LabelsFit, OriginsFit,
         CrcWordLast, ProgressFits, NoLateCopy, CrcCheckFits, BlockFits,
         AnswersFit, Words, FlagsFound
<1>2. Detects9(a9rom, ext[9]) <=> launch # "ds"
  BY DEF RegistersTell
<1>3. AnswersFit'
  BY <1>2 DEF DetectArm9, AnswersFit, InStartedByLoader
<1>4. HeaderBeforeExit'
  BY <1>2 DEF DetectArm9, HeaderBeforeExit, Past, InHook, InStartedByLoader
<1>5. RegionFits'
  <2>1. Covers(WidenRegion1(region1, REGION1_16MB), REGION1_16MB)
    BY WidenCovers, RegionConstants
  <2> QED BY <1>2, <2>1 DEF DetectArm9, RegionFits
<1> QED BY <1>1, <1>3, <1>4, <1>5

\* DSi_bootArm7 up to its CRC check preserves it.
LEMMA StepDetectArm7 ==
  ASSUME BootInv, DetectArm7, TypeOK' PROVE BootInv'
<1> USE LayoutAssumption DEF BootInv, TypeOK, world, local, Goto, SetIdx, CPU, Launches
<1>1. /\ RegistersTell' /\ LabelsFit' /\ OriginsFit' /\ CrcWordLast' /\
         ProgressFits' /\ NoLateCopy' /\ CrcCheckFits' /\ BlockFits' /\
         RegionFits'
  BY DEF DetectArm7, AfterMirror, RegistersTell, LabelsFit, OriginsFit,
         CrcWordLast, ProgressFits, NoLateCopy, CrcCheckFits, BlockFits,
         RegionFits, AnswersFit, Words, FlagsFound
<1>2. Detects7(ext[7]) <=> launch # "ds"
  BY DEF RegistersTell
<1>3. AnswersFit'
  BY <1>2 DEF DetectArm7, AnswersFit, InStartedByLoader
<1>4. HeaderBeforeExit'
  BY <1>2 DEF DetectArm7, HeaderBeforeExit, Past, InHook, InStartedByLoader
<1> QED BY <1>1, <1>3, <1>4

\* The ARM7's OS_Init preserves the invariant.
LEMMA StepOsInitArm7 ==
  ASSUME BootInv, OsInitArm7, TypeOK' PROVE BootInv'
<1> USE LayoutAssumption DEF BootInv, TypeOK, world, local, Goto, SetIdx, CPU, Launches
<1>1. /\ RegistersTell' /\ AnswersFit' /\ LabelsFit' /\ OriginsFit' /\
         CrcWordLast' /\ ProgressFits' /\ HeaderBeforeExit' /\ NoLateCopy' /\
         CrcCheckFits' /\ BlockFits' /\ RegionFits'
  BY DEF OsInitArm7, AfterMirror, RegistersTell, AnswersFit, LabelsFit,
         OriginsFit, CrcWordLast, ProgressFits, HeaderBeforeExit, NoLateCopy,
         CrcCheckFits, BlockFits, RegionFits, InStartedByLoader, Words, Past,
         InHook, FlagsFound
<1> QED BY <1>1

\* The ARM9's OS_Init preserves it, though it may shrink region 1.
LEMMA StepOsInitArm9 ==
  ASSUME BootInv, OsInitArm9, TypeOK' PROVE BootInv'
<1> USE LayoutAssumption DEF BootInv, TypeOK, world, local, Goto, SetIdx, CPU, Launches
<1>1. /\ RegistersTell' /\ AnswersFit' /\ LabelsFit' /\ OriginsFit' /\
         CrcWordLast' /\ ProgressFits' /\ HeaderBeforeExit' /\ NoLateCopy' /\
         CrcCheckFits' /\ BlockFits' /\ RegionFits'
  BY DEF OsInitArm9, AfterMirror, RegistersTell, AnswersFit, LabelsFit,
         OriginsFit, CrcWordLast, ProgressFits, HeaderBeforeExit, NoLateCopy,
         CrcCheckFits, BlockFits, RegionFits, InStartedByLoader, Words, Past,
         InHook, FlagsFound
<1> QED BY <1>1

\* DSi_afterOsInit preserves it: it reads the block and puts region 1 back.
LEMMA StepAfterOsInit ==
  ASSUME BootInv, AfterOsInit, TypeOK' PROVE BootInv'
<1> USE LayoutAssumption DEF BootInv, TypeOK, world, local, Goto, SetIdx, CPU, Launches
<1>1. /\ RegistersTell' /\ AnswersFit' /\ LabelsFit' /\ OriginsFit' /\
         CrcWordLast' /\ ProgressFits' /\ HeaderBeforeExit' /\ NoLateCopy' /\
         CrcCheckFits' /\ RegionFits'
  BY DEF AfterOsInit, AfterMirror, RegistersTell, AnswersFit, LabelsFit,
         OriginsFit, CrcWordLast, ProgressFits, HeaderBeforeExit, NoLateCopy,
         CrcCheckFits, RegionFits, InStartedByLoader, Words, Past, InHook
<1>2. pc[7] = "game" /\ blk.magic /\ blk.flags = FlagsFound
  BY DEF AfterOsInit, LabelsFit, BlockFits
<1>3. "DSI_CONSOLE" \in FlagsFound <=> snd
  BY DEF FlagsFound
<1>4. twl[9] => snd
  BY DEF AfterOsInit, AnswersFit, RegistersTell
<1>5. console' <=> snd
  BY <1>2, <1>3, <1>4 DEF AfterOsInit
<1>6. BlockFits'
  BY <1>2, <1>5 DEF AfterOsInit, BlockFits, FlagsFound
<1> QED BY <1>1, <1>6

\* The ARM7's write of the block's value preserves it.
LEMMA StepPublishValue ==
  ASSUME BootInv, PublishValue, TypeOK' PROVE BootInv'
<1> USE LayoutAssumption DEF BootInv, TypeOK, world, local, Goto, SetIdx, CPU, Launches
<1>1. /\ RegistersTell' /\ AnswersFit' /\ LabelsFit' /\ OriginsFit' /\
         CrcWordLast' /\ ProgressFits' /\ HeaderBeforeExit' /\ NoLateCopy' /\
         CrcCheckFits' /\ BlockFits' /\ RegionFits'
  BY DEF PublishValue, AfterMirror, RegistersTell, AnswersFit, LabelsFit,
         OriginsFit, CrcWordLast, ProgressFits, HeaderBeforeExit, NoLateCopy,
         CrcCheckFits, BlockFits, RegionFits, InStartedByLoader, Words, Past,
         InHook, FlagsFound
<1> QED BY <1>1

\* So does its write of the flags.
LEMMA StepPublishFlags ==
  ASSUME BootInv, PublishFlags, TypeOK' PROVE BootInv'
<1> USE LayoutAssumption DEF BootInv, TypeOK, world, local, Goto, SetIdx, CPU, Launches
<1>1. /\ RegistersTell' /\ AnswersFit' /\ LabelsFit' /\ OriginsFit' /\
         CrcWordLast' /\ ProgressFits' /\ HeaderBeforeExit' /\ NoLateCopy' /\
         CrcCheckFits' /\ BlockFits' /\ RegionFits'
  BY DEF PublishFlags, AfterMirror, RegistersTell, AnswersFit, LabelsFit,
         OriginsFit, CrcWordLast, ProgressFits, HeaderBeforeExit, NoLateCopy,
         CrcCheckFits, BlockFits, RegionFits, InStartedByLoader, Words, Past,
         InHook, FlagsFound
<1> QED BY <1>1

\* So does its write of the magic, the last.
LEMMA StepPublishMagic ==
  ASSUME BootInv, PublishMagic, TypeOK' PROVE BootInv'
<1> USE LayoutAssumption DEF BootInv, TypeOK, world, local, Goto, SetIdx, CPU, Launches
<1>1. /\ RegistersTell' /\ AnswersFit' /\ LabelsFit' /\ OriginsFit' /\
         CrcWordLast' /\ ProgressFits' /\ HeaderBeforeExit' /\ NoLateCopy' /\
         CrcCheckFits' /\ BlockFits' /\ RegionFits'
  BY DEF PublishMagic, AfterMirror, RegistersTell, AnswersFit, LabelsFit,
         OriginsFit, CrcWordLast, ProgressFits, HeaderBeforeExit, NoLateCopy,
         CrcCheckFits, BlockFits, RegionFits, InStartedByLoader, Words, Past,
         InHook, FlagsFound
<1> QED BY <1>1

\* The game's stores preserve it, for nobody is copying or about to.
LEMMA StepGameStore ==
  ASSUME BootInv, GameStore, TypeOK' PROVE BootInv'
<1> USE LayoutAssumption DEF BootInv, TypeOK, world, local, Goto, SetIdx, CPU, Launches
<1>1. /\ RegistersTell' /\ AnswersFit' /\ LabelsFit' /\ BlockFits' /\
         RegionFits'
  BY DEF GameStore, AfterMirror, RegistersTell, AnswersFit, LabelsFit,
         BlockFits, RegionFits, InStartedByLoader, FlagsFound
<1>2. PICK w \in GameWords : ntr' = [ntr EXCEPT ![w] = "game"]
  BY DEF GameStore
<1>3. w \in Words /\ w \notin Header /\ w # CardWord
  BY DEF Words, Header, CardWord
<1>4. \A v \in Words : ntr'[v] = IF v = w THEN "game" ELSE ntr[v]
  BY <1>2
<1>5. pc[7] = "game" /\ pc[9] = "game"
  BY DEF GameStore, LabelsFit
<1>6. OriginsFit'
  BY <1>3, <1>4 DEF GameStore, OriginsFit
<1>7. CrcWordLast'
  BY <1>4 DEF CrcWordLast, Words
<1>8. N \in Words /\ CardWord \in Words /\ N \in Header
  BY DEF Words, CardWord, Header
<1>9. NoLateCopy'
  BY <1>3, <1>4, <1>5, <1>8
     DEF GameStore, NoLateCopy, HeaderBeforeExit, Past, InHook, InStartedByLoader
<1>10. HeaderBeforeExit'
  BY <1>3, <1>4, <1>8 DEF GameStore, HeaderBeforeExit, Past
<1>11. ProgressFits' /\ CrcCheckFits'
  BY <1>3, <1>4, <1>5, <1>8 DEF GameStore, ProgressFits, CrcCheckFits
<1> QED BY <1>1, <1>6, <1>7, <1>9, <1>10, <1>11

\* A soft reset preserves it: RAM, the block and SCFG stay.
LEMMA StepSoftReset ==
  ASSUME BootInv, SoftReset, TypeOK' PROVE BootInv'
<1> USE LayoutAssumption DEF BootInv, TypeOK, world, local, Goto, SetIdx, CPU, Launches
<1>1. /\ RegistersTell' /\ AnswersFit' /\ LabelsFit' /\ OriginsFit' /\
         CrcWordLast' /\ ProgressFits' /\ HeaderBeforeExit' /\ NoLateCopy' /\
         CrcCheckFits' /\ BlockFits' /\ RegionFits'
  BY DEF SoftReset, AfterMirror, RegistersTell, AnswersFit, LabelsFit,
         OriginsFit, CrcWordLast, ProgressFits, HeaderBeforeExit, NoLateCopy,
         CrcCheckFits, BlockFits, RegionFits, InStartedByLoader, Words, Past,
         InHook, FlagsFound
<1> QED BY <1>1

\* On either CPU, the read of the CRC field preserves it.
LEMMA StepReadCrcField ==
  ASSUME NEW c \in CPU, BootInv, ReadCrcField(c), TypeOK' PROVE BootInv'
<1> USE LayoutAssumption DEF BootInv, TypeOK, world, local, Goto, SetIdx, CPU, Launches
<1>1. /\ RegistersTell' /\ AnswersFit' /\ LabelsFit' /\ OriginsFit' /\
         CrcWordLast' /\ ProgressFits' /\ HeaderBeforeExit' /\ NoLateCopy' /\
         BlockFits' /\ RegionFits'
  BY DEF ReadCrcField, AfterMirror, RegistersTell, AnswersFit, LabelsFit,
         OriginsFit, CrcWordLast, ProgressFits, HeaderBeforeExit, NoLateCopy,
         BlockFits, RegionFits, InStartedByLoader, Words, Past, InHook,
         FlagsFound
<1>2. launch # "ds" /\ N \in Words /\ N \notin GameWords
  BY DEF ReadCrcField, AnswersFit, Words
<1>3. ntr[N] \in IF launch = "launcher" THEN {"twl", "junk"} ELSE {"ntr"}
  BY <1>2 DEF OriginsFit
<1>4. idx[c] \in {0, 1} /\ (idx[c] = 0 => seen[c] = {})
  BY DEF ReadCrcField, CrcCheckFits
<1>5. CrcCheckFits'
  BY <1>2, <1>3, <1>4 DEF ReadCrcField, CrcCheckFits
<1> QED BY <1>1, <1>5

\* So does the read of the unit code: a CRC check goes on only if the new header
\* had not arrived when the CRC field was read.
LEMMA StepReadUnit ==
  ASSUME NEW c \in CPU, BootInv, ReadUnit(c), TypeOK' PROVE BootInv'
<1> USE LayoutAssumption DEF BootInv, TypeOK, world, local, Goto, SetIdx, CPU, Launches
<1>1. /\ RegistersTell' /\ LabelsFit' /\ OriginsFit' /\ CrcWordLast' /\
         ProgressFits' /\ HeaderBeforeExit' /\ NoLateCopy' /\ BlockFits' /\
         RegionFits'
  BY DEF ReadUnit, AfterMirror, RegistersTell, LabelsFit, OriginsFit,
         CrcWordLast, ProgressFits, HeaderBeforeExit, NoLateCopy, BlockFits,
         RegionFits, AnswersFit, Words, Past, InHook, InStartedByLoader,
         FlagsFound
<1>2. launch # "ds" /\ UnitWord \in Words /\ UnitWord \notin GameWords
  BY DEF ReadUnit, AnswersFit, Words
<1>3. ntr[UnitWord] \in IF launch = "launcher" THEN {"twl", "junk"} ELSE {"ntr"}
  BY <1>2 DEF OriginsFit
<1>4. AnswersFit'
  BY <1>2, <1>3 DEF ReadUnit, AnswersFit, InStartedByLoader
<1>5. CASE pc'[c] = "switchOff"
  BY <1>1, <1>4, <1>5 DEF ReadUnit, CrcCheckFits
<1>6. CASE pc'[c] = "crc"
  \* The sum starts on a leftover unit code, so the CRC field was one too.
  <2>1. launch = "launcher" => ntr[N] # "twl"
    BY <1>3, <1>6 DEF ReadUnit, CrcWordLast, Words
  <2>2. CrcCheckFits'
    BY <1>2, <1>6, <2>1 DEF ReadUnit, CrcCheckFits, Header
  <2> QED BY <1>1, <1>4, <2>2
<1> QED BY <1>5, <1>6 DEF ReadUnit

\* So does each word of the CRC check, and its verdict.
LEMMA StepCrcStep ==
  ASSUME NEW c \in CPU, BootInv, CrcStep(c), TypeOK' PROVE BootInv'
<1> USE LayoutAssumption DEF BootInv, TypeOK, world, local, Goto, SetIdx, CPU, Launches
<1>1. /\ RegistersTell' /\ LabelsFit' /\ OriginsFit' /\ CrcWordLast' /\
         ProgressFits' /\ NoLateCopy' /\ BlockFits' /\ RegionFits'
  BY DEF CrcStep, AfterMirror, RegistersTell, LabelsFit, OriginsFit,
         CrcWordLast, ProgressFits, NoLateCopy, BlockFits, RegionFits,
         AnswersFit, Words, FlagsFound
<1> DEFINE all == seen[c] \cup {ntr[idx[c]]}
<1>2. launch # "ds" /\ idx[c] \in Words /\ idx[c] \notin GameWords
  BY DEF CrcStep, AnswersFit, CrcCheckFits, Header, Words
<1>3. launch = "loader" => all = {"ntr"}
  BY <1>2 DEF CrcStep, OriginsFit, CrcCheckFits
<1>4. launch = "launcher" => "junk" \in all
  BY DEF CrcStep, CrcCheckFits
<1>5. CrcMatches(all) <=> launch = "loader"
  BY <1>2, <1>3, <1>4 DEF CrcMatches, Tags
<1>6. /\ seen' = [seen EXCEPT ![c] = all]
      /\ UNCHANGED <<launch, ntr, twl>>
      /\ \/ /\ idx[c] < N
            /\ idx' = [idx EXCEPT ![c] = idx[c] + 1] /\ UNCHANGED <<pc, loader>>
         \/ /\ loader' = [loader EXCEPT ![c] = launch = "loader"]
            /\ pc' = [pc EXCEPT ![c] = IF launch = "loader" THEN AfterMirror(c)
                                       ELSE "switchOff"]
  BY <1>5 DEF CrcStep
<1> HIDE DEF all
<1>7. AnswersFit'
  BY <1>2, <1>6 DEF CrcStep, AnswersFit, InStartedByLoader, AfterMirror
<1>8. HeaderBeforeExit'
  BY <1>6 DEF CrcStep, HeaderBeforeExit, Past, InHook, InStartedByLoader, AfterMirror
<1>9. CrcCheckFits'
  BY <1>3, <1>4, <1>6 DEF CrcStep, CrcCheckFits, Header, AfterMirror
<1> QED BY <1>1, <1>7, <1>8, <1>9

\* So does the SCFG_EXT write, which leaves what mode detection reads.
LEMMA StepSwitchOffCircuits ==
  ASSUME NEW c \in CPU, BootInv, SwitchOffCircuits(c), TypeOK' PROVE BootInv'
<1> USE LayoutAssumption DEF BootInv, TypeOK, world, local, Goto, SetIdx, CPU, Launches
<1>1. /\ AnswersFit' /\ LabelsFit' /\ OriginsFit' /\ CrcWordLast' /\
         HeaderBeforeExit' /\ NoLateCopy' /\ BlockFits'
  BY DEF SwitchOffCircuits, AfterMirror, AnswersFit, LabelsFit, OriginsFit,
         CrcWordLast, HeaderBeforeExit, NoLateCopy, BlockFits,
         InStartedByLoader, Words, Past, InHook, FlagsFound
<1>2. launch = "launcher"
  BY DEF SwitchOffCircuits, AnswersFit
<1>3. RegistersTell'
  <2>1. /\ ext'[9] \in {ext[9], ext[9] \ SCFG_EXT9_NITRO_CLEAR}
        /\ ext'[7] \in {ext[7], ext[7] \ SCFG_EXT7_NITRO_CLEAR}
    BY DEF SwitchOffCircuits, NitroClear
  <2>2. Detects9(a9rom, ext'[9]) <=> Detects9(a9rom, ext[9])
    BY <2>1, ClearKeepsMode
  <2>3. Detects7(ext'[7]) <=> Detects7(ext[7])
    BY <2>1, ClearKeepsMode
  <2>4. UNCHANGED <<launch, a9rom, snd>>
    BY DEF SwitchOffCircuits
  <2> QED BY <2>2, <2>3, <2>4 DEF RegistersTell
<1>4. ProgressFits' /\ CrcCheckFits'
  BY DEF SwitchOffCircuits, ProgressFits, CrcCheckFits, Header
<1>5. RegionFits'
  BY DEF SwitchOffCircuits, RegionFits
<1> QED BY <1>1, <1>3, <1>4, <1>5

\* So does each word of the comparison.
LEMMA StepCompareWord ==
  ASSUME NEW c \in CPU, BootInv, CompareWord(c), TypeOK' PROVE BootInv'
<1> USE LayoutAssumption DEF BootInv, TypeOK, world, local, Goto, SetIdx, CPU, Launches
<1>1. /\ RegistersTell' /\ AnswersFit' /\ LabelsFit' /\ OriginsFit' /\
         CrcWordLast' /\ CrcCheckFits' /\ BlockFits' /\ RegionFits'
  BY DEF CompareWord, AfterMirror, RegistersTell, AnswersFit, LabelsFit,
         OriginsFit, CrcWordLast, CrcCheckFits, BlockFits, RegionFits,
         InStartedByLoader, Words, FlagsFound
<1>2. launch = "launcher" /\ idx[c] \in Header
  BY DEF CompareWord, AnswersFit, ProgressFits
<1>3. ProgressFits'
  BY <1>2 DEF CompareWord, ProgressFits, Header, Words, AfterMirror
<1>4. HeaderBeforeExit'
  <2>1. ASSUME NEW d \in CPU, Past(d)' PROVE ntr'[N] = "twl"
    BY <1>2, <2>1 DEF CompareWord, HeaderBeforeExit, ProgressFits, Past, InHook,
                      InStartedByLoader, Header
  <2>2. \A d \in CPU : pc[d] = "copy" => pc'[d] = "copy"
    BY DEF CompareWord
  <2> QED BY <2>1, <2>2 DEF CompareWord, HeaderBeforeExit
\* With a word of the game in the area the whole header is in place, so the
\* comparison does not fail.
<1>5. NoLateCopy'
  <2>1. ntr[N] = "twl" => ntr[idx[c]] = "twl"
    BY <1>2 DEF CrcWordLast, OriginsFit, Header, Words
  <2> QED BY <1>2, <2>1 DEF CompareWord, NoLateCopy, AfterMirror
<1> QED BY <1>1, <1>3, <1>4, <1>5

\* So does each word of the copy: the CRC word comes when all before it has.
LEMMA StepCopyWord ==
  ASSUME NEW c \in CPU, BootInv, CopyWord(c), TypeOK' PROVE BootInv'
<1> USE LayoutAssumption DEF BootInv, TypeOK, world, local, Goto, SetIdx, CPU, Launches
<1>1. /\ RegistersTell' /\ AnswersFit' /\ LabelsFit' /\ NoLateCopy' /\
         CrcCheckFits' /\ BlockFits' /\ RegionFits'
  BY DEF CopyWord, AfterMirror, RegistersTell, AnswersFit, LabelsFit,
         NoLateCopy, CrcCheckFits, BlockFits, RegionFits, InStartedByLoader,
         FlagsFound
<1>2. /\ launch = "launcher" /\ idx[c] \in Words
      /\ \A w \in 1 .. idx[c] - 1 : ntr[w] = "twl"
  BY DEF CopyWord, AnswersFit, ProgressFits
<1>3. \A w \in Words : ntr'[w] = IF w = idx[c] THEN "twl" ELSE ntr[w]
  BY <1>2 DEF CopyWord
<1>4. OriginsFit'
  BY <1>2, <1>3 DEF CopyWord, OriginsFit
<1>5. CrcWordLast'
  <2>1. CASE idx[c] = N
    BY <1>2, <1>3, <2>1 DEF CrcWordLast, Words
  <2>2. CASE idx[c] # N
    BY <1>2, <1>3, <2>2 DEF CrcWordLast, Words
  <2> QED BY <2>1, <2>2
<1>6. ProgressFits'
  BY <1>2, <1>3 DEF CopyWord, ProgressFits, Header, Words, AfterMirror
<1>7. HeaderBeforeExit'
  <2>1. CASE idx[c] < N + 1
    BY <1>2, <1>3, <2>1 DEF CopyWord, HeaderBeforeExit, Past, Words, CardWord
  <2>2. CASE idx[c] = N + 1
    BY <1>2, <1>3, <2>2 DEF CopyWord, HeaderBeforeExit, Past, Words, CardWord
  <2> QED BY <1>2, <2>1, <2>2 DEF Words
<1> QED BY <1>1, <1>4, <1>5, <1>6, <1>7

\* The invariant holds at the start.
LEMMA InitBootInv == Init => BootInv
<1> SUFFICES ASSUME Init PROVE BootInv
  OBVIOUS
<1> USE LayoutAssumption
<1>1. TypeOK
  BY InitTypeOK
<1>2. \A c \in CPU : /\ pc[c] = "hook" /\ idx[c] = 0 /\ seen[c] = {}
                     /\ twl[c] = FALSE /\ loader[c] = FALSE
  BY DEF Init
<1>3. RegistersTell
  <2>1. PICK e9 \in Ext9Found, e7 \in Ext7Found :
          /\ Detects9(a9rom, e9) <=> launch # "ds"
          /\ Detects7(e7) <=> launch # "ds"
          /\ ext = [c \in CPU |-> IF c = 9 THEN e9 ELSE e7]
    BY DEF Init
  <2>2. ext[9] = e9 /\ ext[7] = e7
    BY <2>1 DEF CPU
  <2> QED BY <2>1, <2>2 DEF Init, RegistersTell
<1>4. OriginsFit /\ (ntr[N] = "twl" => FALSE)
  <2>1. CASE launch = "launcher"
    BY <2>1 DEF Init, ColdArea, OriginsFit
  <2>2. CASE launch # "launcher"
    BY <2>2 DEF Init, ColdArea, OriginsFit, Launches, Words
  <2> QED BY <2>1, <2>2
<1>5. ~ \E w \in Words : ntr[w] = "game"
  <2>1. CASE launch = "launcher"
    BY <2>1 DEF Init, ColdArea
  <2>2. CASE launch # "launcher"
    BY <2>2 DEF Init, ColdArea, Launches
  <2> QED BY <2>1, <2>2
<1>6. AnswersFit /\ LabelsFit /\ ProgressFits /\ CrcCheckFits
  BY <1>2 DEF AnswersFit, LabelsFit, ProgressFits, CrcCheckFits, InStartedByLoader, CPU
<1>7. CrcWordLast /\ HeaderBeforeExit /\ NoLateCopy
  BY <1>2, <1>4, <1>5 DEF CrcWordLast, HeaderBeforeExit, NoLateCopy, Past, InHook,
                          InStartedByLoader
<1>8. BlockFits /\ RegionFits
  BY <1>2 DEF BlockFits, RegionFits, CPU
<1> QED BY <1>1, <1>3, <1>4, <1>6, <1>7, <1>8 DEF BootInv

\* Every step preserves it, by the lemma of its action.
LEMMA NextBootInv == BootInv /\ [Next]_vars => BootInv'
<1> SUFFICES ASSUME BootInv, [Next]_vars PROVE BootInv'
  OBVIOUS
<1>1. TypeOK'
  BY NextTypeOK DEF BootInv
<1>2. ASSUME NEW c \in CPU, Common(c) PROVE BootInv'
  BY <1>1, <1>2, StepReadCrcField, StepReadUnit, StepCrcStep, StepSwitchOffCircuits,
     StepCompareWord, StepCopyWord DEF Common
<1>3. CASE Arm9
  BY <1>1, <1>2, <1>3, StepDetectArm9, StepOsInitArm9, StepAfterOsInit DEF Arm9, CPU
<1>4. CASE Arm7
  BY <1>1, <1>2, <1>4, StepDetectArm7, StepPublishValue, StepPublishFlags,
     StepPublishMagic, StepOsInitArm7 DEF Arm7, CPU
<1>5. CASE GameStore \/ SoftReset
  BY <1>1, <1>5, StepGameStore, StepSoftReset
<1>6. CASE UNCHANGED vars
  BY <1>6 DEF vars, world, local, BootInv, TypeOK, RegistersTell, AnswersFit,
     LabelsFit, OriginsFit, CrcWordLast, ProgressFits, HeaderBeforeExit, NoLateCopy,
     CrcCheckFits, BlockFits, RegionFits, Past, FlagsFound
<1> QED BY <1>3, <1>4, <1>5, <1>6 DEF Next

\* The inductive invariant, from which the rest follows.
THEOREM BootInvariance == Spec => []BootInv
  BY InitBootInv, NextBootInv, PTL DEF Spec

\* Every variable of the boot protocol always holds a value of its kind.
THEOREM TypeCorrectness == Spec => []TypeOK
<1>1. BootInv => TypeOK
  BY DEF BootInv
<1> QED BY <1>1, BootInvariance, PTL

\* The invariant implies that both CPUs tell the launch rightly.
LEMMA LoaderVerdictLemma == BootInv => LoaderVerdict
  BY DEF BootInv, TypeOK, AnswersFit, LoaderVerdict, InStartedByLoader

\* A CPU past its hook has all of BOOT_RANGES in place.
LEMMA AreaInPlace ==
  ASSUME BootInv, NEW c \in CPU, Past(c)
  PROVE  \A w \in 1 .. N : ntr[w] \in {Placed, "game"}
<1>1. CASE launch = "launcher"
  BY <1>1 DEF BootInv, HeaderBeforeExit, CrcWordLast, Placed
<1>2. CASE launch # "launcher"
  BY <1>2, LayoutAssumption DEF BootInv, OriginsFit, Placed, Words
<1> QED BY <1>1, <1>2

\* When the ARM9's OS_Init is over the card ID is there: the other CPU, past its
\* hook by the handshake, cannot still be copying.
LEMMA CardInPlace == BootInv /\ pc[9] \in {"afterOsInit", "game"} => ntr[CardWord] = Placed
<1> SUFFICES ASSUME BootInv, pc[9] \in {"afterOsInit", "game"} PROVE ntr[CardWord] = Placed
  OBVIOUS
<1> USE LayoutAssumption DEF BootInv
<1>1. CardWord \in Words /\ CardWord \notin GameWords
  BY DEF CardWord, Words
<1>2. CASE launch = "launcher"
  <2>1. \A c \in CPU : pc[c] # "copy" /\ Past(c)
    BY DEF LabelsFit, CPU, Past, InHook, InStartedByLoader
  <2> QED BY <1>2, <2>1 DEF HeaderBeforeExit, Placed, CPU
<1>3. CASE launch # "launcher"
  BY <1>1, <1>3 DEF OriginsFit, Placed
<1> QED BY <1>2, <1>3

\* The block the ARM9 has read is this boot's, and both CPUs agree.
LEMMA SharedBlockLemma == BootInv => SharedBlockTrusted
<1> SUFFICES ASSUME BootInv, pc[9] = "game" PROVE SharedBlockTrusted
  BY DEF SharedBlockTrusted
<1> USE DEF BootInv
<1>1. pc[7] = "game"
  BY DEF LabelsFit
<1>2. blk.magic /\ blk.value = "ext7" /\ blk.flags = FlagsFound /\ (console <=> snd)
  BY <1>1 DEF BlockFits
<1>3. \A c \in CPU : (twl[c] <=> launch # "ds") /\ (loader[c] <=> launch = "loader")
  BY <1>1, LoaderVerdictLemma DEF LoaderVerdict, InStartedByLoader, CPU
<1>4. /\ "TWL_MODE" \in FlagsFound <=> twl[7]
      /\ "LOADER" \in FlagsFound <=> loader[7]
  BY DEF FlagsFound
<1> QED BY <1>2, <1>3, <1>4 DEF SharedBlockTrusted, CPU, TypeOK

\* The invariant implies that the TWL area is mapped when it is used.
LEMMA TwlAreaLemma == BootInv => TwlAreaMapped
  BY DEF BootInv, AnswersFit, RegionFits, TwlAreaMapped, CPU

\* Under every interleaving of the two hooks, both CPUs tell a loader from the
\* launcher and DSi mode from DS mode alike, and rightly.
THEOREM LoaderVerdictHolds == Spec => []LoaderVerdict
  BY LoaderVerdictLemma, BootInvariance, PTL

\* On every schedule a CPU leaves its hook with the boot data in place, and the
\* ARM9 leaves its OS_Init with the card ID too, whichever CPU copied what.
THEOREM BootDataReadyHolds == Spec => []BootDataReady
<1>1. BootInv => BootDataReady
  BY AreaInPlace, CardInPlace DEF BootDataReady
<1> QED BY <1>1, BootInvariance, PTL

\* What the ARM9 reads from the shared block after its OS_Init is what the ARM7
\* published on this boot, whatever the block held before.
THEOREM SharedBlockTrustedHolds == Spec => []SharedBlockTrusted
  BY SharedBlockLemma, BootInvariance, PTL

\* The ARM9 reads the TWL area only through a region 1 that covers it, and the
\* region OS_Init shrank is put back, however a loader had set it.
THEOREM TwlAreaMappedHolds == Spec => []TwlAreaMapped
  BY TwlAreaLemma, BootInvariance, PTL

(***************************************************************************)
(* What one step may do to the NTR area.                                   *)
(***************************************************************************)
\* Only a copy and the game write there.
LEMMA AreaStep ==
  ASSUME BootInv, [Next]_vars
  PROVE  \/ UNCHANGED ntr
         \/ \E c \in CPU : CopyWord(c)
         \/ GameStore
<1>1. ASSUME NEW c \in CPU, Common(c) PROVE UNCHANGED ntr \/ CopyWord(c)
  BY <1>1 DEF Common, ReadCrcField, ReadUnit, CrcStep, SwitchOffCircuits, CompareWord
<1>2. Arm9 => UNCHANGED ntr \/ CopyWord(9)
  BY <1>1 DEF Arm9, CPU, DetectArm9, OsInitArm9, AfterOsInit
<1>3. Arm7 => UNCHANGED ntr \/ CopyWord(7)
  BY <1>1 DEF Arm7, CPU, DetectArm7, OsInitArm7, PublishValue, PublishFlags, PublishMagic
<1>4. SoftReset \/ UNCHANGED vars => UNCHANGED ntr
  BY DEF SoftReset, vars
<1> QED BY <1>2, <1>3, <1>4 DEF Next, CPU

\* No step overwrites a word the game left for its next boot.
LEMMA SurviveStep ==
  ASSUME BootInv, [Next]_vars, NEW w \in GameWords, ntr[w] = "game"
  PROVE  ntr'[w] = "game"
<1> USE LayoutAssumption DEF BootInv
<1>1. w \in Words
  BY DEF Words
<1>2. ASSUME NEW c \in CPU, CopyWord(c) PROVE FALSE
  BY <1>1, <1>2 DEF CopyWord, AnswersFit, NoLateCopy
<1>3. GameStore => ntr'[w] = "game"
  BY <1>1 DEF GameStore, TypeOK
<1> QED BY <1>2, <1>3, AreaStep

\* No word the game left for its next boot is ever overwritten, by a first copy
\* that is still running or by a later one.
THEOREM GameWordsSurviveHolds == Spec => GameWordsSurvive
<1>1. BootInv /\ [Next]_vars =>
        [\A w \in GameWords : ntr[w] = "game" => ntr'[w] = "game"]_vars
  BY SurviveStep
<1> QED BY <1>1, BootInvariance, PTL DEF Spec, GameWordsSurvive

\* Outside DSi mode and under a loader no step changes SCFG_EXT.
LEMMA ExtStep ==
  ASSUME BootInv, [Next]_vars, launch # "launcher" PROVE UNCHANGED ext
<1>1. ASSUME NEW c \in CPU, Common(c) PROVE UNCHANGED ext
  BY <1>1 DEF Common, ReadCrcField, ReadUnit, CrcStep, SwitchOffCircuits, CompareWord,
              CopyWord, BootInv, AnswersFit
<1>2. Arm9 \/ Arm7 => UNCHANGED ext
  BY <1>1 DEF Arm9, Arm7, CPU, DetectArm9, OsInitArm9, AfterOsInit, DetectArm7, OsInitArm7,
              PublishValue, PublishFlags, PublishMagic
<1>3. GameStore \/ SoftReset \/ UNCHANGED vars => UNCHANGED ext
  BY DEF GameStore, SoftReset, vars
<1> QED BY <1>2, <1>3 DEF Next

\* While the ARM9 is in its hook, region 1 is changed only to widen it.
LEMMA RegionStep ==
  ASSUME BootInv, [Next]_vars, pc[9] \in InHook, Covers(region1, REGION1_16MB)
  PROVE  UNCHANGED region1
<1> USE DEF world, local, Goto, SetIdx
<1>1. WidenRegion1(region1, REGION1_16MB) = region1
  BY DEF WidenRegion1, Covers, REGION1_16MB, AtMain
<1>2. DetectArm9 => UNCHANGED region1
  BY <1>1 DEF DetectArm9
<1>3. ASSUME NEW c \in CPU, Common(c) PROVE UNCHANGED region1
  BY <1>3 DEF Common, ReadCrcField, ReadUnit, CrcStep, SwitchOffCircuits,
              CompareWord, CopyWord
<1>4. ~ OsInitArm9 /\ ~ AfterOsInit /\ ~ SoftReset
  BY DEF OsInitArm9, AfterOsInit, SoftReset, InHook, InStartedByLoader
<1>5. Arm7 \/ GameStore \/ UNCHANGED vars => UNCHANGED region1
  BY <1>3 DEF Arm7, CPU, DetectArm7, PublishValue, PublishFlags, PublishMagic,
              OsInitArm7, GameStore, vars
<1> QED BY <1>2, <1>3, <1>4, <1>5 DEF Next, Arm9, CPU

\* Under a loader and outside DSi mode, SCFG and the boot area are
\* left alone, and a region 1 wide enough is not narrowed.
THEOREM OthersUntouchedHolds == Spec => OthersUntouched
<1>1. ASSUME BootInv, [Next]_vars, launch # "launcher", NEW w \in Words
      PROVE  ntr'[w] \in {ntr[w], "game"}
  <2>1. ASSUME NEW c \in CPU, CopyWord(c) PROVE FALSE
    BY <1>1, <2>1 DEF CopyWord, BootInv, AnswersFit
  <2>2. GameStore => ntr'[w] \in {ntr[w], "game"}
    BY <1>1 DEF GameStore, BootInv, TypeOK
  <2> QED BY <1>1, <2>1, <2>2, AreaStep
<1>2. BootInv /\ [Next]_vars =>
        [launch # "launcher" =>
           /\ UNCHANGED ext
           /\ \A w \in Words : ntr'[w] \in {ntr[w], "game"}
           /\ pc[9] \in InHook /\ Covers(region1, REGION1_16MB)
                => UNCHANGED region1]_vars
  BY <1>1, ExtStep, RegionStep
<1> QED BY <1>2, BootInvariance, PTL DEF Spec, OthersUntouched

(***************************************************************************)
(* The hooks implement BootSpec.                                           *)
(***************************************************************************)
\* The boot data is in place, or the game's own words where it has put some.
Complete == \A w \in Words : ntr[w] \in {Placed, "game"}

\* The start of the protocol is a start of BootSpec.
LEMMA InitPromise == Init => Promise!Init
<1> SUFFICES ASSUME Init PROVE Promise!Init
  OBVIOUS
<1> USE LayoutAssumption
<1>1. pc[9] = "hook"
  BY DEF Init, CPU
<1>2. BootInv
  BY InitBootInv
<1>3. ~ \E w \in Words : ntr[w] = "game"
  <2>1. CASE launch = "launcher"
    BY <2>1 DEF Init, ColdArea
  <2>2. CASE launch # "launcher"
    BY <2>2 DEF Init, ColdArea, Launches
  <2> QED BY <2>1, <2>2
<1>4. {w \in GameWords : ntr[w] = "game"} = {}
  <2>1. GameWords \subseteq Words
    BY DEF Words
  <2> QED BY <1>3, <2>1
<1>5. launch = "launcher" => ~ Complete
  BY DEF Init, ColdArea, Complete, Placed, Words
<1>6. launch # "launcher" => Complete
  BY <1>2 DEF BootInv, OriginsFit, Complete, Placed
<1> QED BY <1>1, <1>4, <1>5, <1>6 DEF Init, Launches, Promise!Init, Answer, Complete

\* Boot data that is complete stays so.
LEMMA CompleteStays ==
  ASSUME BootInv, [Next]_vars, Complete, launch' = launch PROVE Complete'
<1> USE DEF BootInv
<1>1. ASSUME NEW c \in CPU, CopyWord(c) PROVE Complete'
  BY <1>1 DEF CopyWord, Complete, Placed, AnswersFit, TypeOK
<1>2. GameStore => Complete'
  BY DEF GameStore, Complete, Placed, TypeOK
<1>3. UNCHANGED ntr => Complete'
  BY DEF Complete, Placed
<1> QED BY <1>1, <1>2, <1>3, AreaStep

\* The steps BootSpec does not see.
Hidden ==
  /\ UNCHANGED <<launch, ntr>>
  /\ pc[9] = "game" <=> pc'[9] = "game"
  /\ pc[9] = "game" => twl'[9] = twl[9] /\ loader'[9] = loader[9]

\* Every step is hidden, or one of the four kinds BootSpec may see.
LEMMA HiddenStep ==
  ASSUME BootInv, [Next]_vars
  PROVE  \/ Hidden \/ AfterOsInit \/ GameStore \/ SoftReset
         \/ \E c \in CPU : CopyWord(c)
<1> USE DEF BootInv, TypeOK, Hidden, CPU, Goto, SetIdx, world, local, AfterMirror
<1>1. ASSUME NEW c \in CPU, Common(c) PROVE Hidden \/ CopyWord(c)
  BY <1>1 DEF Common, ReadCrcField, ReadUnit, CrcStep, SwitchOffCircuits, CompareWord
<1>2. DetectArm9 \/ OsInitArm9 => Hidden
  BY DEF DetectArm9, OsInitArm9
<1>3. DetectArm7 \/ OsInitArm7 \/ PublishValue \/ PublishFlags \/ PublishMagic => Hidden
  BY DEF DetectArm7, OsInitArm7, PublishValue, PublishFlags, PublishMagic
<1>4. UNCHANGED vars => Hidden
  BY DEF vars
<1> QED BY <1>1, <1>2, <1>3, <1>4 DEF Next, Arm9, Arm7

\* How the console was started does not change.
LEMMA LaunchStays == [Next]_vars => UNCHANGED launch
  BY DEF Next, vars, world, Arm9, Arm7, Common, DetectArm9, DetectArm7, ReadCrcField,
         ReadUnit, CrcStep, SwitchOffCircuits, CompareWord, CopyWord, PublishValue,
         PublishFlags, PublishMagic, OsInitArm7, OsInitArm9, AfterOsInit, GameStore,
         SoftReset

\* The boot data is complete when the ARM9 is back from OS_Init.
LEMMA CompleteWhenUp ==
  ASSUME BootInv, pc[9] \in {"afterOsInit", "game"} PROVE Complete
<1>1. Past(9)
  BY DEF Past, InHook, InStartedByLoader
<1>2. \A w \in 1 .. N : ntr[w] \in {Placed, "game"}
  BY <1>1, AreaInPlace DEF CPU
<1>3. \A w \in Words : w \in 1 .. N \/ w = CardWord
  BY LayoutAssumption DEF Words, CardWord
<1> QED BY <1>2, <1>3, CardInPlace DEF Complete

\* The ARM9's answers then name how the console was started.
LEMMA AnswerTrue ==
  ASSUME BootInv, pc[9] \in {"afterOsInit", "game"}
  PROVE  IF ~ twl[9] THEN launch = "ds"
         ELSE launch = IF loader[9] THEN "loader" ELSE "launcher"
  BY LoaderVerdictLemma DEF LoaderVerdict, InStartedByLoader, CPU, BootInv, TypeOK, Launches

\* Every step of the protocol is one of BootSpec or leaves its state as it is.
LEMMA StepPromise ==
  BootInv /\ BootInv' /\ [Next]_vars => [Promise!Next]_(Promise!vars)
<1> SUFFICES ASSUME BootInv, BootInv', [Next]_vars
             PROVE  [Promise!Next]_(Promise!vars)
  OBVIOUS
<1> USE LaunchStays DEF Complete, Answer
<1>1. CASE Hidden
  BY <1>1 DEF Hidden, Promise!vars, Placed
<1>2. CASE AfterOsInit
  <2>1. pc[9] = "afterOsInit" /\ pc'[9] = "game" /\ UNCHANGED <<ntr, twl, loader>>
    BY <1>2 DEF AfterOsInit, Goto, BootInv, TypeOK, CPU, local
  <2>2. Complete /\ Complete'
    BY <2>1, CompleteWhenUp DEF Placed
  <2>3. Answer' = launch
    BY <2>1, AnswerTrue
  <2>4. Promise!ComeUp
    BY <2>1, <2>2, <2>3 DEF Promise!ComeUp
  <2> QED BY <2>4 DEF Promise!Next
<1>3. CASE GameStore
  <2>1. PICK w \in GameWords : ntr' = [ntr EXCEPT ![w] = "game"]
    BY <1>3 DEF GameStore
  <2>2. pc[9] = "game" /\ UNCHANGED <<pc, twl, loader>>
    BY <1>3 DEF GameStore, local
  <2>3. Complete /\ Complete'
    BY <1>3, <2>2, CompleteWhenUp, CompleteStays
  <2>4. GameWords \subseteq Words
    BY LayoutAssumption DEF Words
  <2>5. {v \in GameWords : ntr'[v] = "game"} = {v \in GameWords : ntr[v] = "game"} \cup {w}
    BY <2>1, <2>4 DEF BootInv, TypeOK
  <2>6. Promise!Store(w)
    BY <2>2, <2>3, <2>5 DEF Promise!Store
  <2> QED BY <2>6 DEF Promise!Next
<1>4. CASE SoftReset
  <2>1. pc[9] = "game" /\ pc'[9] = "hook" /\ UNCHANGED ntr
    BY <1>4 DEF SoftReset, CPU
  <2>2. Complete /\ Complete'
    BY <2>1, CompleteWhenUp DEF Placed
  <2>3. Promise!Reset
    BY <2>1, <2>2 DEF Promise!Reset
  <2> QED BY <2>3 DEF Promise!Next
<1>5. ASSUME NEW c \in CPU, CopyWord(c) PROVE [Promise!Next]_(Promise!vars)
  <2>1. pc[9] # "game" /\ pc'[9] # "game"
    BY <1>5 DEF CopyWord, BootInv, LabelsFit, CPU, TypeOK, Goto, AfterMirror
  <2>2. \A w \in Words : ntr[w] # "game"
    BY <1>5 DEF CopyWord, BootInv, NoLateCopy, AnswersFit
  <2>3. \A w \in Words : ntr'[w] # "game"
    BY <1>5, <2>2 DEF CopyWord, BootInv, TypeOK
  <2>4. GameWords \subseteq Words
    BY LayoutAssumption DEF Words
  <2>5. {v \in GameWords : ntr'[v] = "game"} = {v \in GameWords : ntr[v] = "game"}
    BY <2>2, <2>3, <2>4
  <2>6. Complete => Complete'
    BY CompleteStays
  <2>7. CASE Complete <=> Complete'
    BY <2>1, <2>5, <2>7 DEF Promise!vars
  <2>8. CASE ~ Complete /\ Complete'
    <3>1. Promise!Provide
      BY <2>1, <2>5, <2>8 DEF Promise!Provide
    <3> QED BY <3>1 DEF Promise!Next
  <2> QED BY <2>6, <2>7, <2>8
<1> QED BY <1>1, <1>2, <1>3, <1>4, <1>5, HiddenStep

\* The two hooks, the handshake and the soft resets implement BootSpec: the
\* game comes up on complete boot data, with true answers, and with everything
\* it left for itself.
THEOREM ImplementsBootSpec == Spec => Promise!Spec
  BY InitPromise, StepPromise, BootInvariance, PTL DEF Spec, Promise!Spec

-----------------------------------------------------------------------------
(***************************************************************************)
(* The pitch table's correction: that the ARM7 knows the mode it was       *)
(* started in, whatever the ARM9 is doing meanwhile and after any number   *)
(* of soft resets, is part of BootInv.                                     *)
(***************************************************************************)

\* Every entry of the table is the one the game asked for, exactly where DSi mode
\* is the mode in which the module has the whole RAM.
THEOREM MusicInTune == Spec => []InTune
<1>1. BootInv => InTune
  <2> SUFFICES ASSUME BootInv, pc[7] = "game",
                      NEW dsiMode \in DsiModes, NEW index \in PitchEntries
               PROVE  GetPitchTable(dsiMode, index) = index
                        <=> (dsiMode => launch # "ds")
    BY DEF InTune
  <2>1. twl[7] <=> launch # "ds"
    BY DEF BootInv, AnswersFit, CPU
  <2>2. twl[7] => ScfgUnlocked(ext[7])
    BY <2>1 DEF BootInv, RegistersTell, Detects7, CPU
  <2>3. dsiMode \in BOOLEAN /\ (twl[7] => dsiMode)
    BY <2>2 DEF DsiModes
  <2>4. GetPitchTable(dsiMode, index)
          = index + (IF dsiMode THEN SineOffset ELSE 0)
                  - (IF twl[7] THEN SineOffset ELSE 0)
    BY <2>3 DEF GetPitchTable, LoaderCorrects, VeneerIsGames, Bios, R0,
                PitchEntries, SineOffset
  <2> QED BY <2>1, <2>3, <2>4 DEF PitchEntries, SineOffset
<1> QED BY <1>1, BootInvariance, PTL

-----------------------------------------------------------------------------
(***************************************************************************)
(* What BootProtocol takes for granted of the boot area: the numbering of  *)
(* its words is one, and the copy is in the order of the numbers.          *)
(***************************************************************************)

\* The real constants satisfy what BootProtocol assumes of its layout.
THEOREM RealLayout ==
  /\ RealN \in Nat /\ RealH \in Nat /\ RealUnitWord \in Nat
  /\ 1 <= RealH /\ RealH <= RealUnitWord /\ RealUnitWord < RealN
  /\ RealGameWords \subseteq 1 .. RealH - 1
  /\ OffsetOf(RealH) = \hE00 /\ OffsetOf(RealUnitWord) = \hE10 /\ OffsetOf(RealN) = \hF5C
  BY SMT DEF RealN, RealH, RealUnitWord, RealGameWords, OffsetOf

\* A word with a number is in the area, no other number stands for it, and it
\* is none of the words that others own.
THEOREM NumberingSound ==
  ASSUME NEW j \in 1 .. RealN, NEW k \in 1 .. RealN
  PROVE  /\ \hA80 <= OffsetOf(k) /\ OffsetOf(k) < \hF60
         /\ OffsetOf(j) = OffsetOf(k) => j = k
         /\ ~ Within(OffsetOf(k), \hC24, \hC2C)
         /\ ~ Within(OffsetOf(k), \hD80, \hE00)
<1> DEFINE Piece(m) ==
      \/ m \in 1 .. 88    /\ OffsetOf(m) = \hA80 + 4 * (m - 1)
      \/ m \in 89 .. 97   /\ OffsetOf(m) = \hC00 + 4 * (m - 89)
      \/ m \in 98 .. 118  /\ OffsetOf(m) = \hC2C + 4 * (m - 98)
      \/ m \in 119 .. 182 /\ OffsetOf(m) = \hC80 + 4 * (m - 119)
      \/ m \in 183 .. 270 /\ OffsetOf(m) = \hE00 + 4 * (m - 183)
<1>1. ASSUME NEW m \in 1 .. RealN PROVE Piece(m)
  BY SMT DEF RealN, OffsetOf
<1>2. Piece(j) /\ Piece(k)
  BY <1>1
<1> QED BY <1>2, SMT DEF Within, RealN

\* The recursion over the table has its five steps.
LEMMA RangesCopiedSteps ==
  /\ RangesCopied[0] = << >>
  /\ \A i \in 1 .. 5 : RangesCopied[i] = RangesCopied[i - 1] \o WordsOf(BOOT_RANGES[i])
<1> DEFINE W(i) == WordsOf(BOOT_RANGES[i])
           Eqn(h) == h = [i \in 0 .. 5 |-> IF i = 0 THEN << >> ELSE h[i - 1] \o W(i)]
           s1 == << >> \o W(1)
           s2 == s1 \o W(2)
           s3 == s2 \o W(3)
           s4 == s3 \o W(4)
           s5 == s4 \o W(5)
           g == [i \in 0 .. 5 |-> CASE i = 0 -> << >> [] i = 1 -> s1 [] i = 2 -> s2
                                    [] i = 3 -> s3 [] i = 4 -> s4 [] i = 5 -> s5]
<1>1. Len(BOOT_RANGES) = 5 BY DEF BOOT_RANGES
<1>2. RangesCopied = CHOOSE h : Eqn(h) BY <1>1 DEF RangesCopied
<1> HIDE DEF W
<1>3. Eqn(g)
  <2> HIDE DEF s1, s2, s3, s4, s5
  <2>1. /\ g[0] = << >> /\ g[1] = s1 /\ g[2] = s2 /\ g[3] = s3 /\ g[4] = s4 /\ g[5] = s5
        /\ g = [i \in 0 .. 5 |-> g[i]]
    OBVIOUS
  <2> HIDE DEF g
  <2>2. \A i \in 1 .. 5 : g[i] = g[i - 1] \o W(i)
    <3>1. g[1] = g[0] \o W(1) BY <2>1 DEF s1
    <3>2. g[2] = g[1] \o W(2) BY <2>1 DEF s2
    <3>3. g[3] = g[2] \o W(3) BY <2>1 DEF s3
    <3>4. g[4] = g[3] \o W(4) BY <2>1 DEF s4
    <3>5. g[5] = g[4] \o W(5) BY <2>1 DEF s5
    <3>6. /\ 1 - 1 = 0 /\ 2 - 1 = 1 /\ 3 - 1 = 2 /\ 4 - 1 = 3 /\ 5 - 1 = 4
          /\ \A i \in 1 .. 5 : i = 1 \/ i = 2 \/ i = 3 \/ i = 4 \/ i = 5
      OBVIOUS
    <3> QED BY <3>1, <3>2, <3>3, <3>4, <3>5, <3>6, Zenon
  <2>3. \A i \in 0 .. 5 : g[i] = IF i = 0 THEN << >> ELSE g[i - 1] \o W(i)
    <3>1. \A i \in 0 .. 5 : i = 0 \/ i \in 1 .. 5 OBVIOUS
    <3> QED BY <2>1, <2>2, <3>1, Zenon
  <2> QED BY <2>1, <2>3, Zenon
<1> HIDE DEF g, Eqn
<1>4. Eqn(RangesCopied) BY <1>2, <1>3
<1> HIDE DEF RangesCopied
<1>5. \A i \in 0 .. 5 : RangesCopied[i] = IF i = 0 THEN << >> ELSE RangesCopied[i - 1] \o W(i)
  BY <1>4, Zenon DEF Eqn
<1>6. 0 \in 0 .. 5 /\ \A i \in 1 .. 5 : i \in 0 .. 5 /\ i # 0 OBVIOUS
<1> QED BY <1>5, <1>6, Zenon DEF W

\* The five ranges, as lengths and offsets.
LEMMA RangeWords ==
  ASSUME NEW i \in 1 .. 5
  PROVE  /\ WordsOf(BOOT_RANGES[i]) \in Seq(Nat)
         /\ Len(WordsOf(BOOT_RANGES[i])) = <<88, 9, 21, 64, 88>>[i]
         /\ \A k \in 1 .. Len(WordsOf(BOOT_RANGES[i])) :
              WordsOf(BOOT_RANGES[i])[k] = OffsetOf(<<0, 88, 97, 118, 182>>[i] + k)
<1>1. CASE i = 1
  <2>1. WordsOf(BOOT_RANGES[1]) = [k \in 1 .. 88 |-> \hA80 + 4 * (k - 1)]
    BY SMT DEF WordsOf, BOOT_RANGES
  <2>2. \A k \in 1 .. 88 : OffsetOf(0 + k) = \hA80 + 4 * (k - 1)
    BY SMT DEF OffsetOf
  <2> QED BY <1>1, <2>1, <2>2, SMT
<1>2. CASE i = 2
  <2>1. WordsOf(BOOT_RANGES[2]) = [k \in 1 .. 9 |-> \hC00 + 4 * (k - 1)]
    BY SMT DEF WordsOf, BOOT_RANGES
  <2>2. \A k \in 1 .. 9 : OffsetOf(88 + k) = \hC00 + 4 * (k - 1)
    BY SMT DEF OffsetOf
  <2> QED BY <1>2, <2>1, <2>2, SMT
<1>3. CASE i = 3
  <2>1. WordsOf(BOOT_RANGES[3]) = [k \in 1 .. 21 |-> \hC2C + 4 * (k - 1)]
    BY SMT DEF WordsOf, BOOT_RANGES
  <2>2. \A k \in 1 .. 21 : OffsetOf(97 + k) = \hC2C + 4 * (k - 1)
    BY SMT DEF OffsetOf
  <2> QED BY <1>3, <2>1, <2>2, SMT
<1>4. CASE i = 4
  <2>1. WordsOf(BOOT_RANGES[4]) = [k \in 1 .. 64 |-> \hC80 + 4 * (k - 1)]
    BY SMT DEF WordsOf, BOOT_RANGES
  <2>2. \A k \in 1 .. 64 : OffsetOf(118 + k) = \hC80 + 4 * (k - 1)
    BY SMT DEF OffsetOf
  <2> QED BY <1>4, <2>1, <2>2, SMT
<1>5. CASE i = 5
  <2>1. WordsOf(BOOT_RANGES[5]) = [k \in 1 .. 88 |-> \hE00 + 4 * (k - 1)]
    BY SMT DEF WordsOf, BOOT_RANGES
  <2>2. \A k \in 1 .. 88 : OffsetOf(182 + k) = \hE00 + 4 * (k - 1)
    BY SMT DEF OffsetOf
  <2> QED BY <1>5, <2>1, <2>2, SMT
<1> QED BY <1>1, <1>2, <1>3, <1>4, <1>5

\* What \o makes of two sequences.
LEMMA Appended ==
  ASSUME NEW s \in Seq(Nat), NEW t \in Seq(Nat)
  PROVE  /\ s \o t \in Seq(Nat) /\ Len(s \o t) = Len(s) + Len(t)
         /\ \A k \in 1 .. Len(s) : (s \o t)[k] = s[k]
         /\ \A k \in 1 .. Len(t) : (s \o t)[Len(s) + k] = t[k]
  OBVIOUS

\* What a step appends comes behind what is there, in the order of the numbers.
LEMMA NumberedSoFar ==
  ASSUME NEW s \in Seq(Nat), NEW t \in Seq(Nat),
         \A k \in 1 .. Len(s) : s[k] = OffsetOf(k),
         \A k \in 1 .. Len(t) : t[k] = OffsetOf(Len(s) + k)
  PROVE  /\ s \o t \in Seq(Nat) /\ Len(s \o t) = Len(s) + Len(t)
         /\ \A k \in 1 .. Len(s \o t) : (s \o t)[k] = OffsetOf(k)
<1>1. s \o t \in Seq(Nat) /\ Len(s \o t) = Len(s) + Len(t) OBVIOUS
<1>2. ASSUME NEW k \in 1 .. Len(s \o t) PROVE (s \o t)[k] = OffsetOf(k)
  <2>1. CASE k <= Len(s) BY <2>1
  <2>2. CASE k > Len(s)
    <3>1. k - Len(s) \in 1 .. Len(t) /\ Len(s) + (k - Len(s)) = k BY <1>1, <2>2
    <3>2. (s \o t)[k] = t[k - Len(s)] BY <1>1, <2>2
    <3> QED BY <3>1, <3>2
  <2> QED BY <2>1, <2>2
<1> QED BY <1>1, <1>2

\* How many words the first i - 1 ranges have.
Before == <<0, 88, 97, 118, 182, 270>>

\* The first n words of the copy, as numbered.
Numbered(s, n) ==
  /\ s \in Seq(Nat) /\ Len(s) = n
  /\ \A k \in 1 .. Len(s) : s[k] = OffsetOf(k)

\* One more range.
LEMMA RangeAppended ==
  ASSUME NEW i \in 1 .. 5, NEW n \in Nat, n = Before[i], Numbered(RangesCopied[i - 1], n)
  PROVE  Numbered(RangesCopied[i], Before[i + 1])
<1> DEFINE s == RangesCopied[i - 1]
           t == WordsOf(BOOT_RANGES[i])
<1>1. RangesCopied[i] = s \o t BY RangesCopiedSteps
<1>2. /\ t \in Seq(Nat) /\ Len(t) = <<88, 9, 21, 64, 88>>[i]
      /\ \A k \in 1 .. Len(t) : t[k] = OffsetOf(<<0, 88, 97, 118, 182>>[i] + k)
  BY ONLY i \in 1 .. 5, RangeWords, Zenon
<1>3. <<0, 88, 97, 118, 182>>[i] = n /\ Before[i + 1] = n + <<88, 9, 21, 64, 88>>[i]
  <2>1. i = 1 \/ i = 2 \/ i = 3 \/ i = 4 \/ i = 5 OBVIOUS
  <2> QED BY <2>1 DEF Before
<1>4. s \in Seq(Nat) /\ Len(s) = n /\ \A k \in 1 .. Len(s) : s[k] = OffsetOf(k)
  BY DEF Numbered
<1> HIDE DEF s, t
<1>5. \A k \in 1 .. Len(t) : t[k] = OffsetOf(Len(s) + k)
  <2> DEFINE m == <<0, 88, 97, 118, 182>>[i]
  <2>1. \A k \in 1 .. Len(t) : t[k] = OffsetOf(m + k) BY <1>2
  <2>2. m = Len(s) BY <1>3, <1>4
  <2> HIDE DEF m
  <2> QED BY <2>1, <2>2
<1>6. /\ s \o t \in Seq(Nat) /\ Len(s \o t) = Len(s) + Len(t)
      /\ \A k \in 1 .. Len(s \o t) : (s \o t)[k] = OffsetOf(k)
  BY <1>2, <1>4, <1>5, NumberedSoFar
<1> QED BY <1>1, <1>2, <1>3, <1>4, <1>6 DEF Numbered

\* The whole copy but the card ID.
LEMMA RangesInOrder == Numbered(RangesCopied[5], RealN)
<1>0. /\ Before[1] = 0 /\ Before[2] = 88 /\ Before[3] = 97 /\ Before[4] = 118
      /\ Before[5] = 182 /\ Before[6] = RealN
  BY DEF Before, RealN
<1>1. ASSUME NEW i \in 1 .. 5, Numbered(RangesCopied[i - 1], Before[i])
      PROVE  Numbered(RangesCopied[i], Before[i + 1])
  <2>1. Before[i] \in Nat
    <3>1. i = 1 \/ i = 2 \/ i = 3 \/ i = 4 \/ i = 5 OBVIOUS
    <3> QED BY <1>0, <3>1
  <2> QED BY <1>1, <2>1, RangeAppended
<1>2. Numbered(RangesCopied[0], Before[1])
  BY <1>0, RangesCopiedSteps DEF Numbered
<1>3. /\ 1 - 1 = 0 /\ 2 - 1 = 1 /\ 3 - 1 = 2 /\ 4 - 1 = 3 /\ 5 - 1 = 4
      /\ 1 + 1 = 2 /\ 2 + 1 = 3 /\ 3 + 1 = 4 /\ 4 + 1 = 5 /\ 5 + 1 = 6
      /\ 1 \in 1 .. 5 /\ 2 \in 1 .. 5 /\ 3 \in 1 .. 5 /\ 4 \in 1 .. 5 /\ 5 \in 1 .. 5
  OBVIOUS
<1>4. Numbered(RangesCopied[1], Before[2]) BY <1>1, <1>2, <1>3, Zenon
<1>5. Numbered(RangesCopied[2], Before[3]) BY <1>1, <1>3, <1>4, Zenon
<1>6. Numbered(RangesCopied[3], Before[4]) BY <1>1, <1>3, <1>5, Zenon
<1>7. Numbered(RangesCopied[4], Before[5]) BY <1>1, <1>3, <1>6, Zenon
<1>8. Numbered(RangesCopied[5], Before[6]) BY <1>1, <1>3, <1>7, Zenon
<1> QED BY <1>0, <1>8

\* The copy is the numbering, then the card ID.
LEMMA WrittenInOrder ==
  /\ Written \in Seq(Nat) /\ Len(Written) = RealN + 2
  /\ \A k \in 1 .. RealN : Written[k] = OffsetOf(k)
  /\ Written[RealN + 1] = \h800 /\ Written[RealN + 2] = \h804
  /\ InTheNumberedOrder
<1> DEFINE s == RangesCopied[5]
<1>0. Len(BOOT_RANGES) = 5 BY DEF BOOT_RANGES
<1>1. Written = s \o HW_RED BY <1>0 DEF Written
<1>2. HW_RED \in Seq(Nat) /\ Len(HW_RED) = 2 /\ HW_RED[1] = \h800 /\ HW_RED[2] = \h804
  BY SMT DEF HW_RED
<1>3. s \in Seq(Nat) /\ Len(s) = RealN /\ \A k \in 1 .. RealN : s[k] = OffsetOf(k)
  BY RangesInOrder DEF Numbered
<1>4. s = [k \in 1 .. RealN |-> OffsetOf(k)]
  <2> HIDE DEF s
  <2> QED BY <1>3
<1> HIDE DEF s
<1>5. RealN \in Nat BY DEF RealN
<1>6. /\ Written \in Seq(Nat) /\ Len(Written) = RealN + 2
      /\ \A k \in 1 .. RealN : Written[k] = s[k]
      /\ Written[RealN + 1] = HW_RED[1] /\ Written[RealN + 2] = HW_RED[2]
  <2>0. s \in Seq(Nat) /\ HW_RED \in Seq(Nat) BY <1>2, <1>3
  <2>1. /\ s \o HW_RED \in Seq(Nat) /\ Len(s \o HW_RED) = Len(s) + Len(HW_RED)
        /\ \A k \in 1 .. Len(s) : (s \o HW_RED)[k] = s[k]
        /\ \A k \in 1 .. Len(HW_RED) : (s \o HW_RED)[Len(s) + k] = HW_RED[k]
    BY <2>0, Appended
  <2>2. 1 \in 1 .. Len(HW_RED) /\ 2 \in 1 .. Len(HW_RED) BY <1>2
  <2>3. Len(s) = RealN /\ Len(HW_RED) = 2 BY <1>2, <1>3
  <2> QED BY <1>1, <2>1, <2>2, <2>3, Zenon
<1> QED BY <1>1, <1>2, <1>3, <1>4, <1>5, <1>6 DEF InTheNumberedOrder


\* The copy leaves alone what others own.
LEMMA CopySpares == SparesOthers
<1> SUFFICES ASSUME NEW k \in DOMAIN Written
             PROVE  /\ ~ Within(Written[k], \hC24, \hC2C)
                    /\ ~ Within(Written[k], \hD80, \hE00)
                    /\ ~ Within(Written[k], \hA00, \hA80)
  BY DEF SparesOthers
<1>1. k \in 1 .. RealN \/ k = RealN + 1 \/ k = RealN + 2
  <2>1. DOMAIN Written = 1 .. RealN + 2 BY WrittenInOrder
  <2> QED BY <2>1 DEF RealN
<1>2. CASE k \in 1 .. RealN
  <2>1. Written[k] = OffsetOf(k) BY <1>2, WrittenInOrder
  <2>2. /\ k \in Nat /\ k <= 270 /\ k >= 1 BY <1>2 DEF RealN
  <2>3. \/ OffsetOf(k) = \hA80 + 4 * (k - 1) /\ k <= 88
        \/ OffsetOf(k) = \hC00 + 4 * (k - 89) /\ k >= 89 /\ k <= 97
        \/ OffsetOf(k) = \hC2C + 4 * (k - 98) /\ k >= 98 /\ k <= 118
        \/ OffsetOf(k) = \hC80 + 4 * (k - 119) /\ k >= 119 /\ k <= 182
        \/ OffsetOf(k) = \hE00 + 4 * (k - 183) /\ k >= 183
    BY <2>2, SMT DEF OffsetOf
  <2> QED BY <2>1, <2>2, <2>3, SMT DEF Within
<1>3. CASE k = RealN + 1 \/ k = RealN + 2
  <2>1. Written[k] = \h800 \/ Written[k] = \h804 BY <1>3, WrittenInOrder
  <2> QED BY <2>1, SMT DEF Within
<1> QED BY <1>1, <1>2, <1>3

\* With the CRC field all that NTR code reads is there.
LEMMA CopyCloses == HeaderClosesCopy
<1> DEFINE o == \hF5C
<1>0. DOMAIN Written = 1 .. RealN + 2 /\ RealN = 270 BY WrittenInOrder DEF RealN
<1>1. 270 \in DOMAIN Written /\ Written[270] = o
  <2>1. OffsetOf(270) = \hF5C BY SMT DEF OffsetOf
  <2>2. 270 \in 1 .. 270 + 2 /\ 270 \in 1 .. 270 OBVIOUS
  <2> QED BY <1>0, <2>1, <2>2, WrittenInOrder
<1> HIDE DEF o
<1>1a. \A k \in 1 .. 270 : k \in DOMAIN Written /\ Written[k] = OffsetOf(k) /\ k <= 270
  <2>1. ASSUME NEW k \in 1 .. 270 PROVE k \in 1 .. RealN + 2 /\ k <= 270 /\ k \in 1 .. RealN
    BY <1>0
  <2>2. DOMAIN Written = 1 .. RealN + 2 BY <1>0
  <2>3. \A k \in 1 .. RealN : Written[k] = OffsetOf(k) BY WrittenInOrder
  <2> QED BY <2>1, <2>2, <2>3, Zenon
<1>2. ASSUME NEW k \in 1 .. 270 PROVE OffsetOf(k) \in WrittenBy(o)
  <2>1. \E j \in DOMAIN Written : Written[j] = o /\ k <= j BY <1>1, <1>1a, Zenon
  <2>2. Written[k] \in WrittenBy(o) BY <1>1a, <2>1, Zenon DEF WrittenBy
  <2> QED BY <1>1a, <2>2, Zenon
<1>3. /\ OffsetOf(89) = \hC00 /\ OffsetOf(97) = \hC20 /\ OffsetOf(103) = \hC40
      /\ OffsetOf(187) = \hE10 /\ \A k \in 0 .. 63 : OffsetOf(119 + k) = \hC80 + 4 * k
  BY SMT DEF OffsetOf
<1>4. /\ 89 \in 1 .. 270 /\ 97 \in 1 .. 270 /\ 103 \in 1 .. 270 /\ 187 \in 1 .. 270
      /\ \A k \in 0 .. 63 : 119 + k \in 1 .. 270
  OBVIOUS
<1>5. /\ \hC00 \in WrittenBy(o) /\ \hC20 \in WrittenBy(o)
      /\ \hC40 \in WrittenBy(o) /\ \hE10 \in WrittenBy(o)
  BY <1>2, <1>3, <1>4, SMT
<1>6. ASSUME NEW k \in 0 .. 63 PROVE \hC80 + 4 * k \in WrittenBy(o)
  BY <1>2, <1>3, <1>4, SMT
<1> QED BY <1>5, <1>6, SMT DEF HeaderClosesCopy, o

\* Whenever a CPU copies the area, mirrorBootArea writes the words in the order
\* of BootProtocol's numbers, and no word that others own.
THEOREM CopyAsNumberedHolds == Spec => []CopyAsNumbered
<1>1. CopyAsNumbered
  BY WrittenInOrder, CopySpares, CopyCloses DEF CopyAsNumbered
<1> QED BY <1>1, PTL

-----------------------------------------------------------------------------
(***************************************************************************)
(* What BootProtocol takes for granted of the checksum.  The loop over a   *)
(* message is followed bit by bit, by induction over its length.           *)
(***************************************************************************)

\* Induction over the natural numbers, for a set that zero and every successor
\* are in.
LEMMA Induction ==
  ASSUME NEW T, 0 \in T, \A n \in Nat : n \in T => n + 1 \in T
  PROVE  Nat \subseteq T
<1> SUFFICES ASSUME Nat \ T # {} PROVE FALSE OBVIOUS
<1> DEFINE S == Nat \ T
<1>1. IsWellFoundedOn(OpToRel(<, Nat), Nat) BY NatLessThanWellFounded
<1>2. PICK x \in S : \A y \in S : ~ (<<y, x>> \in OpToRel(<, Nat))
  BY <1>1, WFMin
<1>3. \A y \in S : ~ (y < x) BY <1>2 DEF OpToRel
<1> QED BY <1>3, SMT

\* f is what a recursion over the natural numbers computes.
Follows(f, S, base, step) ==
  f \in [Nat -> S] /\ f[0] = base /\ \A n \in Nat : f[n + 1] = step[n][f[n]]

\* A recursion over the natural numbers has a function.
LEMMA Recursion ==
  ASSUME NEW S, NEW base \in S, NEW step \in [Nat -> [S -> S]]
  PROVE  \E f : Follows(f, S, base, step)
<1> DEFINE Upto(n, g) == /\ g \in [0 .. n -> S] /\ g[0] = base
                         /\ \A i \in Nat : i < n => g[i + 1] = step[i][g[i]]
<1>1. ASSUME NEW n \in Nat PROVE \E g : Upto(n, g)
  <2> DEFINE T == {k \in Nat : \E g : Upto(k, g)}
  <2>1. 0 \in T
    <3>1. Upto(0, [i \in 0 .. 0 |-> base]) OBVIOUS
    <3> QED BY <3>1
  <2>2. ASSUME NEW k \in Nat, k \in T PROVE k + 1 \in T
    <3>1. PICK g : Upto(k, g) BY <2>2
    <3> DEFINE h == [i \in 0 .. k + 1 |-> IF i = k + 1 THEN step[k][g[k]] ELSE g[i]]
    <3>2. g[k] \in S BY <3>1
    <3>2a. step[k][g[k]] \in S BY <3>2
    <3>3. h \in [0 .. k + 1 -> S] BY <3>1, <3>2a
    <3>4. h[0] = base BY <3>1
    <3>5. ASSUME NEW i \in Nat, i < k + 1 PROVE h[i + 1] = step[i][h[i]]
      BY <3>1, <3>5
    <3>6. Upto(k + 1, h) BY <3>3, <3>4, <3>5
    <3> HIDE DEF Upto, h
    <3> QED BY <3>6
  <2> HIDE DEF T
  <2>3. Nat \subseteq T BY <2>1, <2>2, Induction
  <2> QED BY <2>3 DEF T
<1>2. ASSUME NEW m \in Nat, NEW n \in Nat, NEW g, NEW h, Upto(m, g), Upto(n, h),
             NEW i \in Nat, i <= m, i <= n
      PROVE  g[i] = h[i]
  <2> DEFINE T == {k \in Nat : k <= m /\ k <= n => g[k] = h[k]}
  <2>1. 0 \in T BY <1>2
  <2>2. ASSUME NEW k \in Nat, k \in T PROVE k + 1 \in T BY <1>2, <2>2
  <2> HIDE DEF T
  <2>3. Nat \subseteq T BY <2>1, <2>2, Induction
  <2> QED BY <1>2, <2>3 DEF T
<1> DEFINE F == [n \in Nat |-> (CHOOSE g : Upto(n, g))[n]]
<1>3. ASSUME NEW n \in Nat PROVE Upto(n, CHOOSE g : Upto(n, g)) BY <1>1
<1> HIDE DEF Upto
<1>4. ASSUME NEW n \in Nat, NEW g, Upto(n, g) PROVE F[n] = g[n]
  BY <1>2, <1>3, <1>4
<1>5. ASSUME NEW n \in Nat PROVE F[n] \in S
  <2>1. PICK g : Upto(n, g) BY <1>1
  <2>2. F[n] = g[n] BY <1>4, <2>1
  <2> HIDE DEF F
  <2> QED BY <2>1, <2>2 DEF Upto
<1>6. F[0] = base
  <2>1. PICK g : Upto(0, g) BY <1>1
  <2> QED BY <1>4, <2>1 DEF Upto
<1>7. ASSUME NEW n \in Nat PROVE F[n + 1] = step[n][F[n]]
  <2>0. n + 1 \in Nat OBVIOUS
  <2>1. PICK g : Upto(n + 1, g) BY <1>1, <2>0
  <2> DEFINE h == [i \in 0 .. n |-> g[i]]
  <2>2. Upto(n, h) /\ h[n] = g[n] BY <2>1 DEF Upto
  <2> HIDE DEF h
  <2>3. F[n] = g[n] BY <1>4, <2>2
  <2>4. F[n + 1] = g[n + 1] BY <1>4, <2>0, <2>1
  <2> QED BY <2>1, <2>3, <2>4 DEF Upto
<1> HIDE DEF F
<1>8. F \in [Nat -> S] BY <1>5 DEF F
<1> QED BY <1>6, <1>7, <1>8 DEF Follows

\* A byte and the register, as sets of their one bits.
Byte     == SUBSET (0 .. 7)
Register == SUBSET (0 .. 15)

\* What the loop's step makes of each bit of the register.
LEMMA CrcBitMembers ==
  ASSUME NEW crc \in Register
  PROVE  /\ CrcBit(crc) \in Register
         /\ 15 \in CrcBit(crc) <=> 0 \in crc
         /\ \A j \in 0 .. 14 : 0 \notin crc \/ j \notin HA001 =>
              (j \in CrcBit(crc) <=> j + 1 \in crc)
         /\ \A j \in 0 .. 14 : 0 \in crc /\ j \in HA001 =>
              (j \in CrcBit(crc) <=> j + 1 \notin crc)
<1>1. ShiftRight(crc) \in SUBSET (0 .. 14) /\ \A j \in 0 .. 14 : j \in ShiftRight(crc) <=> j + 1 \in crc
  BY SMT DEF ShiftRight, Register
<1>2. HA001 \in SUBSET (0 .. 15) /\ 15 \in HA001
  BY SMT DEF HA001
<1>3. CASE 0 \in crc
  <2>1. CrcBit(crc) = SymDiff(ShiftRight(crc), HA001)
    BY <1>3 DEF CrcBit
  <2>2. CrcBit(crc) \in Register
    <3>1. ShiftRight(crc) \in SUBSET (0 .. 15)
      BY <1>1, SMT
    <3> QED BY <1>2, <2>1, <3>1, Zenon DEF SymDiff, Register
  <2>3. 15 \in CrcBit(crc)
    BY <1>1, <1>2, <2>1, SMT DEF SymDiff
  <2>4. ASSUME NEW j \in 0 .. 14
        PROVE  /\ j \notin HA001 => (j \in CrcBit(crc) <=> j + 1 \in crc)
               /\ j \in HA001 => (j \in CrcBit(crc) <=> j + 1 \notin crc)
    BY <1>1, <2>1, SMT DEF SymDiff
  <2> QED BY <1>3, <2>2, <2>3, <2>4
<1>4. CASE 0 \notin crc
  <2>1. CrcBit(crc) = ShiftRight(crc)
    BY <1>4 DEF CrcBit
  <2> QED BY <1>1, <1>4, <2>1, SMT DEF Register
<1> QED BY <1>3, <1>4

\* The step loses nothing: different registers stay different.
LEMMA CrcBitInjective ==
  ASSUME NEW x \in Register, NEW y \in Register, CrcBit(x) = CrcBit(y)
  PROVE  x = y
<1>1. 0 \in x <=> 0 \in y BY CrcBitMembers
<1>2. ASSUME NEW j \in 0 .. 14 PROVE j + 1 \in x <=> j + 1 \in y
  BY CrcBitMembers, <1>1
<1>3. ASSUME NEW b \in 0 .. 15 PROVE b \in x <=> b \in y
  <2>1. CASE b = 0 BY <1>1, <2>1
  <2>2. CASE b # 0
    <3>1. b - 1 \in 0 .. 14 /\ (b - 1) + 1 = b BY <2>2
    <3> QED BY <3>1, <1>2
  <2> QED BY <2>1, <2>2
<1> QED BY <1>3 DEF Register

\* Bits that are not yet at the end of the register are shifted only.
LEMMA CrcBitShifts ==
  ASSUME NEW crc \in Register, NEW bits \in SUBSET (1 .. 15)
  PROVE  CrcBit(SymDiff(crc, bits)) = SymDiff(CrcBit(crc), {b - 1 : b \in bits})
<1> DEFINE up == {b - 1 : b \in bits}
<1>1. 0 \in SymDiff(crc, bits) <=> 0 \in crc
  BY DEF SymDiff
<1>2. ShiftRight(SymDiff(crc, bits)) = SymDiff(ShiftRight(crc), up)
  BY SMT DEF ShiftRight, SymDiff, Register
<1>3. \A A, B, C : SymDiff(SymDiff(A, B), C) = SymDiff(SymDiff(A, C), B)
  BY DEF SymDiff
<1> HIDE DEF up
<1>4. CrcBit(SymDiff(crc, bits)) = SymDiff(CrcBit(crc), up)
  <2>1. CASE 0 \in crc
    <3>1. CrcBit(SymDiff(crc, bits)) = SymDiff(SymDiff(ShiftRight(crc), up), HA001)
      BY <1>1, <1>2, <2>1, Zenon DEF CrcBit
    <3>2. CrcBit(crc) = SymDiff(ShiftRight(crc), HA001)
      BY <2>1 DEF CrcBit
    <3>3. SymDiff(SymDiff(ShiftRight(crc), up), HA001) = SymDiff(SymDiff(ShiftRight(crc), HA001), up)
      BY <1>3
    <3> QED BY <3>1, <3>2, <3>3
  <2>2. CASE 0 \notin crc
    BY <1>1, <1>2, <2>2, Zenon DEF CrcBit
  <2> QED BY <2>1, <2>2
<1> QED BY <1>4 DEF up

\* The next bit of the message goes into the last bit of the register, and the
\* register behind each bit, f[p] behind the first p of them.
Entered(crc, one) == IF one THEN SymDiff(crc, {0}) ELSE crc
IsRun(f, ones) ==
  /\ f \in [Nat -> Register] /\ f[0] = CrcStart
  /\ \A p \in Nat : f[p + 1] = CrcBit(Entered(f[p], p \in ones))

\* A bit that goes in leaves a register.
LEMMA EnteredTyped ==
  ASSUME NEW crc \in Register, NEW one \in BOOLEAN
  PROVE  Entered(crc, one) \in Register
  BY SMT DEF Entered, Register, SymDiff

\* Every message has its registers, whatever bits of it are ones.
LEMMA RunExists ==
  ASSUME NEW ones PROVE \E f : IsRun(f, ones)
<1> DEFINE step == [p \in Nat |-> [crc \in Register |-> CrcBit(Entered(crc, p \in ones))]]
<1>0. ASSUME NEW p \in Nat, NEW crc \in Register
      PROVE  CrcBit(Entered(crc, p \in ones)) \in Register
  <2>1. (p \in ones) \in BOOLEAN OBVIOUS
  <2> QED BY <2>1, CrcBitMembers, EnteredTyped
<1>1. step \in [Nat -> [Register -> Register]]
  BY <1>0
<1>2. CrcStart \in Register BY DEF CrcStart, Register
<1>3. PICK f : Follows(f, Register, CrcStart, step)
  <2> HIDE DEF step
  <2> QED BY <1>1, <1>2, Recursion
<1>4. \A p \in Nat : f[p + 1] = CrcBit(Entered(f[p], p \in ones))
  BY <1>3 DEF Follows
<1> QED BY <1>3, <1>4 DEF IsRun, Follows

\* Eight rounds of headerCrc16's inner loop are eight bits of the message.
LEMMA CrcByteRuns ==
  ASSUME NEW ones, NEW f, IsRun(f, ones), NEW p \in Nat, NEW byte \in Byte,
         \A b \in 0 .. 7 : b \in byte <=> p + b \in ones
  PROVE  CrcByte(f[p], byte) = f[p + 8]
<1> DEFINE Rest(j) == {b - j : b \in {b \in byte : b >= j}}
           X(j) == SymDiff(f[p + j], Rest(j))
<1>1. ASSUME NEW j \in 0 .. 7 PROVE CrcBit(X(j)) = X(j + 1)
  <2> DEFINE y == Entered(f[p + j], p + j \in ones)
             bits == Rest(j) \ {0}
  <2>1. f[p + j] \in Register /\ f[p + (j + 1)] = CrcBit(y)
    <3>1. p + j \in Nat /\ (p + j) + 1 = p + (j + 1) OBVIOUS
    <3> QED BY <3>1 DEF IsRun
  <2>2. y \in Register
    <3>1. (p + j \in ones) \in BOOLEAN OBVIOUS
    <3> QED BY <2>1, <3>1, EnteredTyped
  <2>3. bits \in SUBSET (1 .. 15) BY DEF Byte
  <2>4. 0 \in Rest(j) <=> p + j \in ones
    <3>1. 0 \in Rest(j) <=> j \in byte BY DEF Byte
    <3> QED BY <3>1
  <2>5. X(j) = SymDiff(y, bits)
    <3> HIDE DEF Rest
    <3>1. CASE p + j \in ones
      <4>1. y = SymDiff(f[p + j], {0}) BY <3>1 DEF Entered
      <4>2. 0 \in Rest(j) BY <3>1, <2>4
      <4> HIDE DEF y
      <4> QED BY <4>1, <4>2 DEF SymDiff
    <3>2. CASE p + j \notin ones
      <4>1. y = f[p + j] BY <3>2 DEF Entered
      <4>2. 0 \notin Rest(j) BY <3>2, <2>4
      <4> HIDE DEF y
      <4> QED BY <4>1, <4>2 DEF SymDiff
    <3> QED BY <3>1, <3>2
  <2>6. {b - 1 : b \in bits} = Rest(j + 1)
    <3>1. \A c : c \in Rest(j + 1) <=> \E b \in byte : b >= j + 1 /\ c = b - (j + 1)
      OBVIOUS
    <3>2. \A c : c \in {b - 1 : b \in bits} <=> \E b \in byte : b >= j /\ b - j # 0 /\ c = (b - j) - 1
      OBVIOUS
    <3>3. \A b \in byte : /\ b >= j + 1 <=> b >= j /\ b - j # 0
                          /\ b - (j + 1) = (b - j) - 1
      BY DEF Byte
    <3> HIDE DEF bits, Rest
    <3> QED BY <3>1, <3>2, <3>3
  <2>7. CrcBit(X(j)) = SymDiff(CrcBit(y), {b - 1 : b \in bits})
    <3> HIDE DEF y, bits, X
    <3> QED BY <2>2, <2>3, <2>5, CrcBitShifts
  <2> HIDE DEF y, bits, Rest
  <2> QED BY <2>1, <2>6, <2>7, Zenon
<1>2. Rest(0) = byte
  <2>1. \A b \in byte : b >= 0 /\ b - 0 = b BY DEF Byte
  <2> QED BY <2>1, Zenon
<1>3. Rest(8) = {} BY DEF Byte
<1>4. f[p] \in Register /\ f[p + 8] \in Register BY DEF IsRun
<1>5. X(0) = SymDiff(f[p], byte)
  <2>1. p + 0 = p OBVIOUS
  <2> HIDE DEF Rest
  <2> QED BY <1>2, <2>1
<1>6. X(8) = f[p + 8]
  <2> HIDE DEF Rest
  <2> QED BY <1>3 DEF SymDiff
<1> HIDE DEF X
<1>7. /\ X(1) = CrcBit(X(0)) /\ X(2) = CrcBit(X(1)) /\ X(3) = CrcBit(X(2))
      /\ X(4) = CrcBit(X(3)) /\ X(5) = CrcBit(X(4)) /\ X(6) = CrcBit(X(5))
      /\ X(7) = CrcBit(X(6)) /\ X(8) = CrcBit(X(7))
  BY <1>1
<1> QED BY <1>5, <1>6, <1>7 DEF CrcByte

\* headerCrc16 is the register behind the last bit.
LEMMA CrcRuns ==
  ASSUME NEW data \in Seq(Byte), NEW ones, NEW f, IsRun(f, ones),
         \A i \in 1 .. Len(data), b \in 0 .. 7 : b \in data[i] <=> 8 * (i - 1) + b \in ones
  PROVE  headerCrc16(data) = f[8 * Len(data)]
<1> DEFINE n == Len(data)
           Eqn(h) == h = [i \in 0 .. n |-> IF i = 0 THEN CrcStart ELSE CrcByte(h[i - 1], data[i])]
           Crc == CHOOSE h : Eqn(h)
           g == [i \in 0 .. n |-> f[8 * i]]
<1>0. n \in Nat OBVIOUS
<1>1. headerCrc16(data) = Crc[n] BY DEF headerCrc16
<1>2. Eqn(g)
  <2>1. ASSUME NEW i \in 0 .. n, i # 0 PROVE g[i] = CrcByte(g[i - 1], data[i])
    <3> DEFINE p == 8 * (i - 1)
    <3>1. p \in Nat /\ p + 8 = 8 * i /\ i \in 1 .. n /\ i - 1 \in 0 .. n BY <2>1, <1>0
    <3>2. data[i] \in Byte BY <3>1
    <3>3. \A b \in 0 .. 7 : b \in data[i] <=> p + b \in ones BY <3>1
    <3>4. g[i] = f[p + 8] /\ g[i - 1] = f[p] BY <3>1
    <3>5. IsRun(f, ones) OBVIOUS
    <3> HIDE DEF p, g
    <3>6. CrcByte(f[p], data[i]) = f[p + 8]
      BY ONLY <3>1, <3>2, <3>3, <3>5, CrcByteRuns
    <3> QED BY <3>4, <3>6
  <2>2. g[0] = CrcStart BY <1>0 DEF IsRun
  <2>3. \A i \in 0 .. n : g[i] = IF i = 0 THEN CrcStart ELSE CrcByte(g[i - 1], data[i])
    BY <2>1, <2>2
  <2> QED BY <2>3
<1>3. Eqn(Crc)
  <2> HIDE DEF g, Eqn
  <2> QED BY <1>2
<1>4. Crc[n] = g[n]
  <2> HIDE DEF Crc
  <2>0. \A i \in 0 .. n : Crc[i] = IF i = 0 THEN CrcStart ELSE CrcByte(Crc[i - 1], data[i])
    BY <1>3
  <2>0a. \A i \in 0 .. n : g[i] = IF i = 0 THEN CrcStart ELSE CrcByte(g[i - 1], data[i])
    BY <1>2
  <2> HIDE DEF Eqn, g, n
  <2> DEFINE T == {i \in Nat : i <= n => Crc[i] = g[i]}
  <2>1. 0 \in T
    <3>1. 0 \in 0 .. n BY <1>0
    <3>2. Crc[0] = CrcStart /\ g[0] = CrcStart BY <2>0, <2>0a, <3>1
    <3> QED BY <3>2
  <2>2. ASSUME NEW i \in Nat, i \in T PROVE i + 1 \in T
    <3>1. SUFFICES ASSUME i + 1 <= n PROVE Crc[i + 1] = g[i + 1] OBVIOUS
    <3>2. i + 1 \in 0 .. n /\ i + 1 # 0 /\ (i + 1) - 1 = i /\ i <= n BY <1>0, <3>1
    <3> QED BY <2>2, <2>0, <2>0a, <3>2
  <2> HIDE DEF T
  <2>3. Nat \subseteq T BY <2>1, <2>2, Induction
  <2> QED BY <1>0, <2>3 DEF T
<1> QED BY <1>0, <1>1, <1>4

\* The bits of a message that are one, counted from its first.
Ones(data) ==
  {p \in Nat : \E i \in 1 .. Len(data) : \E b \in data[i] : p = 8 * (i - 1) + b}

\* They are counted so that no two bits of it have the same number.
LEMMA OnesMembers ==
  ASSUME NEW data \in Seq(Byte)
  PROVE  /\ \A i \in 1 .. Len(data), b \in 0 .. 7 :
              b \in data[i] <=> 8 * (i - 1) + b \in Ones(data)
         /\ \A p \in Ones(data) : p < 8 * Len(data)
<1>1. ASSUME NEW i \in 1 .. Len(data) PROVE data[i] \subseteq 0 .. 7
  BY DEF Byte
<1>2. ASSUME NEW i \in 1 .. Len(data), NEW b \in 0 .. 7
      PROVE  b \in data[i] <=> 8 * (i - 1) + b \in Ones(data)
  <2>1. b \in data[i] => 8 * (i - 1) + b \in Ones(data)
    BY DEF Ones
  <2>2. ASSUME 8 * (i - 1) + b \in Ones(data) PROVE b \in data[i]
    <3>0. PICK j \in 1 .. Len(data) : \E c \in data[j] : 8 * (i - 1) + b = 8 * (j - 1) + c
      BY <2>2 DEF Ones
    <3>1. PICK c \in data[j] : 8 * (i - 1) + b = 8 * (j - 1) + c
      BY <3>0
    <3>2. c \in 0 .. 7 BY <1>1
    <3>3. i = j /\ b = c BY <3>1, <3>2
    <3> QED BY <3>3
  <2> QED BY <2>1, <2>2
<1>3. ASSUME NEW p \in Ones(data) PROVE p < 8 * Len(data)
  <2>0. PICK i \in 1 .. Len(data) : \E b \in data[i] : p = 8 * (i - 1) + b
    BY DEF Ones
  <2>1. PICK b \in data[i] : p = 8 * (i - 1) + b
    BY <2>0
  <2>2. b \in 0 .. 7 BY <1>1
  <2> QED BY <2>1, <2>2
<1> QED BY <1>2, <1>3

\* One bit: the register before it and behind it.
LEMMA RunTyped ==
  ASSUME NEW ones, NEW f, IsRun(f, ones), NEW p \in Nat
  PROVE  /\ f[p] \in Register /\ Entered(f[p], p \in ones) \in Register
         /\ f[p + 1] = CrcBit(Entered(f[p], p \in ones))
         /\ 0 \in Entered(f[p], p \in ones) <=> (0 \in f[p] <=> p \notin ones)
         /\ \A j \in 1 .. 15 : j \in Entered(f[p], p \in ones) <=> j \in f[p]
<1>1. (p \in ones) \in BOOLEAN OBVIOUS
<1>2. f[p] \in Register /\ f[p + 1] = CrcBit(Entered(f[p], p \in ones))
  BY DEF IsRun
<1>3. Entered(f[p], p \in ones) \in Register
  BY <1>1, <1>2, EnteredTyped
<1>4. /\ 0 \in Entered(f[p], p \in ones) <=> (0 \in f[p] <=> p \notin ones)
      /\ \A j \in 1 .. 15 : j \in Entered(f[p], p \in ones) <=> j \in f[p]
  <2>1. CASE p \in ones BY <2>1 DEF Entered, SymDiff
  <2>2. CASE p \notin ones BY <2>2 DEF Entered
  <2> QED BY <2>1, <2>2
<1> QED BY <1>2, <1>3, <1>4

\* Where two messages have the same bits, the registers are the same behind if
\* and only if they are the same before.
LEMMA SameBits ==
  ASSUME NEW D, NEW E, NEW f, NEW g, IsRun(f, D), IsRun(g, E),
         NEW p \in Nat, NEW q \in Nat, p <= q,
         \A k \in p .. q - 1 : k \in D <=> k \in E
  PROVE  f[p] = g[p] <=> f[q] = g[q]
<1>1. ASSUME NEW k \in p .. q - 1 PROVE f[k] = g[k] <=> f[k + 1] = g[k + 1]
  <2>1. k \in Nat /\ (k \in D) = (k \in E) OBVIOUS
  <2>2. /\ f[k] \in Register /\ Entered(f[k], k \in D) \in Register
        /\ f[k + 1] = CrcBit(Entered(f[k], k \in D))
        /\ 0 \in Entered(f[k], k \in D) <=> (0 \in f[k] <=> k \notin D)
        /\ \A j \in 1 .. 15 : j \in Entered(f[k], k \in D) <=> j \in f[k]
    BY <2>1, RunTyped
  <2>3. /\ g[k] \in Register /\ Entered(g[k], k \in D) \in Register
        /\ g[k + 1] = CrcBit(Entered(g[k], k \in D))
        /\ 0 \in Entered(g[k], k \in D) <=> (0 \in g[k] <=> k \notin D)
        /\ \A j \in 1 .. 15 : j \in Entered(g[k], k \in D) <=> j \in g[k]
    BY <2>1, RunTyped
  <2>4. ASSUME f[k + 1] = g[k + 1] PROVE f[k] = g[k]
    <3>1. Entered(f[k], k \in D) = Entered(g[k], k \in D)
      BY <2>2, <2>3, <2>4, CrcBitInjective
    <3>2. \A j \in 0 .. 15 : j \in f[k] <=> j \in g[k]
      <4>1. 0 \in f[k] <=> 0 \in g[k] BY <2>2, <2>3, <3>1
      <4>2. \A j \in 1 .. 15 : j \in f[k] <=> j \in g[k] BY <2>2, <2>3, <3>1
      <4> QED BY <4>1, <4>2
    <3> QED BY <3>2, <2>2, <2>3 DEF Register
  <2> QED BY <2>2, <2>3, <2>4
<1> DEFINE T == {k \in Nat : p + k <= q => (f[p] = g[p] <=> f[p + k] = g[p + k])}
<1>2. 0 \in T
  <2>1. p + 0 = p OBVIOUS
  <2> QED BY <2>1
<1>3. ASSUME NEW k \in Nat, k \in T PROVE k + 1 \in T
  <2>1. SUFFICES ASSUME p + (k + 1) <= q PROVE f[p] = g[p] <=> f[p + (k + 1)] = g[p + (k + 1)]
    OBVIOUS
  <2>2. p + k \in p .. q - 1 /\ (p + k) + 1 = p + (k + 1) /\ p + k <= q BY <2>1
  <2>3. f[p + k] = g[p + k] <=> f[p + (k + 1)] = g[p + (k + 1)]
    BY <2>2, <1>1
  <2> QED BY <1>3, <2>2, <2>3
<1> HIDE DEF T
<1>4. Nat \subseteq T BY <1>2, <1>3, Induction
<1>5. q - p \in Nat /\ p + (q - p) = q OBVIOUS
<1>6. p + (q - p) <= q => (f[p] = g[p] <=> f[p + (q - p)] = g[p + (q - p)])
  BY <1>4, <1>5 DEF T
<1> QED BY <1>5, <1>6

\* Sixteen bits that take the same register to the same register are the same:
\* the last of them is still to be seen in the register, and the others then.
LEMMA BurstShows ==
  ASSUME NEW D, NEW E, NEW f, NEW g, IsRun(f, D), IsRun(g, E), NEW at \in Nat,
         f[at] = g[at], f[at + 16] = g[at + 16]
  PROVE  \A p \in at .. at + 15 : p \in D <=> p \in E
<1> DEFINE X(p) == Entered(f[p], p \in D)
           Y(p) == Entered(g[p], p \in E)
           Same(x, y, A) == \A j \in A : j \in x <=> j \in y
           T == {k \in Nat : k <= 15 => /\ Same(f[at + 16 - k], g[at + 16 - k], k .. 15)
                                        /\ Same(X(at + 15 - k), Y(at + 15 - k), {0})}
<1>0. ASSUME NEW p \in Nat
      PROVE  /\ f[p] \in Register /\ X(p) \in Register /\ f[p + 1] = CrcBit(X(p))
             /\ g[p] \in Register /\ Y(p) \in Register /\ g[p + 1] = CrcBit(Y(p))
             /\ 0 \in X(p) <=> (0 \in f[p] <=> p \notin D)
             /\ 0 \in Y(p) <=> (0 \in g[p] <=> p \notin E)
             /\ \A j \in 1 .. 15 : j \in X(p) <=> j \in f[p]
             /\ \A j \in 1 .. 15 : j \in Y(p) <=> j \in g[p]
  BY RunTyped
<1> HIDE DEF X, Y
<1>1. ASSUME NEW p \in Nat, NEW k \in 0 .. 15, Same(f[p + 1], g[p + 1], k .. 15)
      PROVE  Same(X(p), Y(p), {0}) /\ Same(f[p], g[p], k + 1 .. 15)
  <2>1. /\ X(p) \in Register /\ f[p + 1] = CrcBit(X(p))
        /\ Y(p) \in Register /\ g[p + 1] = CrcBit(Y(p))
        /\ \A j \in 1 .. 15 : j \in X(p) <=> j \in f[p]
        /\ \A j \in 1 .. 15 : j \in Y(p) <=> j \in g[p]
    BY <1>0
  <2>2. 15 \in k .. 15 OBVIOUS
  <2>3. 0 \in X(p) <=> 0 \in Y(p)
    BY <1>1, <2>1, <2>2, CrcBitMembers
  <2>4. ASSUME NEW j \in k .. 14 PROVE j + 1 \in X(p) <=> j + 1 \in Y(p)
    <3>1. j \in 0 .. 14 /\ j \in k .. 15 OBVIOUS
    <3>2. j \in CrcBit(X(p)) <=> j \in CrcBit(Y(p)) BY <1>1, <2>1, <3>1
    <3> QED BY <2>1, <2>3, <3>1, <3>2, CrcBitMembers
  <2>5. ASSUME NEW j \in k + 1 .. 15 PROVE j \in f[p] <=> j \in g[p]
    <3>1. j - 1 \in k .. 14 /\ (j - 1) + 1 = j /\ j \in 1 .. 15 OBVIOUS
    <3> QED BY <2>1, <2>4, <3>1
  <2> QED BY <2>3, <2>5
<1>2. 0 \in T
  <2>1. at + 16 - 0 = at + 16 /\ at + 15 - 0 = at + 15 /\ at + 15 \in Nat /\ (at + 15) + 1 = at + 16
    OBVIOUS
  <2>2. Same(f[at + 16], g[at + 16], 0 .. 15) OBVIOUS
  <2> HIDE DEF Same
  <2>3. Same(X(at + 15), Y(at + 15), {0}) BY <2>1, <2>2, <1>1
  <2> QED BY <2>1, <2>2, <2>3
<1>3. ASSUME NEW k \in Nat, k \in T PROVE k + 1 \in T
  <2>1. SUFFICES ASSUME k + 1 <= 15
                 PROVE  /\ Same(f[at + 16 - (k + 1)], g[at + 16 - (k + 1)], k + 1 .. 15)
                        /\ Same(X(at + 15 - (k + 1)), Y(at + 15 - (k + 1)), {0})
    OBVIOUS
  <2> DEFINE p == at + 15 - k
  <2>2. /\ p \in Nat /\ p + 1 = at + 16 - k /\ at + 16 - (k + 1) = p
        /\ p - 1 \in Nat /\ (p - 1) + 1 = p /\ at + 15 - (k + 1) = p - 1
        /\ k \in 0 .. 15 /\ k + 1 \in 0 .. 15 /\ k <= 15
    BY <2>1
  <2> HIDE DEF p, Same
  <2>3. Same(f[p + 1], g[p + 1], k .. 15) BY <1>3, <2>2
  <2>4. Same(f[p], g[p], k + 1 .. 15) BY <1>1, <2>2, <2>3
  <2>5. Same(X(p - 1), Y(p - 1), {0}) BY <1>1, <2>2, <2>4
  <2> QED BY <2>2, <2>4, <2>5
<1>4. Nat \subseteq T
  <2> HIDE DEF T
  <2> QED BY <1>2, <1>3, Induction
<1>5. ASSUME NEW p \in at .. at + 15 PROVE 0 \in X(p) <=> 0 \in Y(p)
  <2> DEFINE k == at + 15 - p
  <2>1. k \in Nat /\ k <= 15 /\ at + 15 - k = p OBVIOUS
  <2> HIDE DEF k
  <2>2. Same(X(at + 15 - k), Y(at + 15 - k), {0}) BY <1>4, <2>1
  <2> QED BY <2>1, <2>2
<1> HIDE DEF Same, T
<1> DEFINE U == {k \in Nat : k <= 15 => f[at + k] = g[at + k]}
<1>6. ASSUME NEW p \in at .. at + 15, f[p] = g[p] PROVE p \in D <=> p \in E
  BY <1>0, <1>5, <1>6
<1>7. 0 \in U
  <2>1. at + 0 = at OBVIOUS
  <2> QED BY <2>1
<1>8. ASSUME NEW k \in Nat, k \in U PROVE k + 1 \in U
  <2>1. SUFFICES ASSUME k + 1 <= 15 PROVE f[at + (k + 1)] = g[at + (k + 1)]
    OBVIOUS
  <2>2. /\ at + k \in at .. at + 15 /\ at + k \in Nat /\ at + (k + 1) \in Nat
        /\ at + k <= at + (k + 1) /\ (at + (k + 1)) - 1 = at + k
    BY <2>1
  <2>3. f[at + k] = g[at + k] BY <1>8, <2>1
  <2>4. at + k \in D <=> at + k \in E BY <1>6, <2>2, <2>3
  <2>5. \A j \in at + k .. (at + (k + 1)) - 1 : j \in D <=> j \in E
    BY <2>2, <2>4
  <2> QED BY <2>2, <2>3, <2>5, SameBits
<1> HIDE DEF U
<1>9. Nat \subseteq U BY <1>7, <1>8, Induction
<1>10. ASSUME NEW p \in at .. at + 15 PROVE p \in D <=> p \in E
  <2>1. p - at \in Nat /\ p - at <= 15 /\ at + (p - at) = p OBVIOUS
  <2>2. f[at + (p - at)] = g[at + (p - at)] BY <1>9, <2>1 DEF U
  <2> QED BY <1>6, <2>1, <2>2
<1> QED BY <1>10

\* Only a clear register becomes clear by a zero bit, and it stays so.
LEMMA ClearStays ==
  /\ {} \in Register /\ CrcBit({}) = {}
  /\ \A crc \in Register : CrcBit(crc) = {} => crc = {}
<1>1. {} \in Register BY DEF Register
<1>2. CrcBit({}) = {} BY DEF CrcBit, ShiftRight
<1> QED BY <1>1, <1>2, CrcBitInjective

\* The register's own two bytes, low byte first, clear it.
LEMMA FieldClears ==
  ASSUME NEW lo \in Byte, NEW hi \in Byte
  PROVE  CrcByte(CrcByte(FieldOf(lo, hi), lo), hi) = {}
<1> DEFINE Y(j) == {b + (8 - j) : b \in hi}
<1>1. ASSUME NEW j \in 0 .. 7 PROVE CrcBit(Y(j)) = Y(j + 1)
  <2>1. 0 \notin Y(j) BY DEF Byte
  <2>2. ShiftRight(Y(j)) = Y(j + 1)
    <3>1. \A b \in hi : b + (8 - j) # 0 /\ (b + (8 - j)) - 1 = b + (8 - (j + 1))
      BY DEF Byte
    <3>2. \A c : c \in ShiftRight(Y(j)) <=> \E b \in hi : b + (8 - j) # 0 /\ c = (b + (8 - j)) - 1
      BY DEF ShiftRight
    <3>3. \A c : c \in Y(j + 1) <=> \E b \in hi : c = b + (8 - (j + 1))
      OBVIOUS
    <3> HIDE DEF Y
    <3>4. \A c : c \in ShiftRight(Y(j)) <=> c \in Y(j + 1) BY <3>1, <3>2, <3>3
    <3> QED BY <3>4
  <2> HIDE DEF Y
  <2> QED BY <2>1, <2>2 DEF CrcBit
<1>2. SymDiff(FieldOf(lo, hi), lo) = Y(0)
  <2>1. \A b \in hi : b + (8 - 0) = b + 8 /\ b + 8 \notin lo BY DEF Byte
  <2>2. Y(0) = {b + 8 : b \in hi} BY <2>1
  <2>3. \A b \in hi : b + 8 \notin lo BY <2>1
  <2> HIDE DEF Y
  <2>4. {b + 8 : b \in hi} \cap lo = {} BY <2>3
  <2>5. SymDiff(FieldOf(lo, hi), lo) = {b + 8 : b \in hi}
    <3> DEFINE up == {b + 8 : b \in hi}
    <3>1. FieldOf(lo, hi) = lo \cup up /\ up \cap lo = {} BY <2>4 DEF FieldOf
    <3> HIDE DEF up
    <3>2. SymDiff(FieldOf(lo, hi), lo) = up BY <3>1 DEF SymDiff
    <3> QED BY <3>2 DEF up
  <2> QED BY <2>2, <2>5
<1>3. Y(8) = hi
  <2>1. \A b \in hi : b + (8 - 8) = b BY DEF Byte
  <2> QED BY <2>1, Zenon
<1> HIDE DEF Y
<1>4. /\ Y(1) = CrcBit(Y(0)) /\ Y(2) = CrcBit(Y(1)) /\ Y(3) = CrcBit(Y(2))
      /\ Y(4) = CrcBit(Y(3)) /\ Y(5) = CrcBit(Y(4)) /\ Y(6) = CrcBit(Y(5))
      /\ Y(7) = CrcBit(Y(6)) /\ Y(8) = CrcBit(Y(7))
  BY <1>1
<1>5. CrcByte(FieldOf(lo, hi), lo) = hi
  BY <1>2, <1>3, <1>4 DEF CrcByte
<1>6. SymDiff(hi, hi) = {} BY DEF SymDiff
<1> QED BY <1>5, <1>6, ClearStays DEF CrcByte

\* A header that startedByLoader() accepts clears the register with its CRC field.
LEMMA AcceptedClears ==
  ASSUME NEW n \in Nat, NEW x \in Seq(Byte), Len(x) = n + 2,
         Accepts(SubSeq(x, 1, n), x[n + 1], x[n + 2]), NEW f, IsRun(f, Ones(x))
  PROVE  f[8 * (n + 2)] = {}
<1> DEFINE data == SubSeq(x, 1, n)
<1>1. data \in Seq(Byte) /\ Len(data) = n /\ \A i \in 1 .. n : data[i] = x[i]
  OBVIOUS
<1>2. x[n + 1] \in Byte /\ x[n + 2] \in Byte OBVIOUS
<1>3. \A i \in 1 .. n + 2, b \in 0 .. 7 : b \in x[i] <=> 8 * (i - 1) + b \in Ones(x)
  BY OnesMembers
<1>4. headerCrc16(data) = f[8 * n]
  <2> HIDE DEF data
  <2>1. \A i \in 1 .. Len(data), b \in 0 .. 7 : b \in data[i] <=> 8 * (i - 1) + b \in Ones(x)
    <3>1. ASSUME NEW i \in 1 .. n, NEW b \in 0 .. 7
          PROVE  b \in data[i] <=> 8 * (i - 1) + b \in Ones(x)
      <4>1. i \in 1 .. n + 2 OBVIOUS
      <4>2. data[i] = x[i] BY <1>1
      <4> QED BY <1>3, <4>1, <4>2
    <3> QED BY <1>1, <3>1
  <2>2. headerCrc16(data) = f[8 * Len(data)] BY <1>1, <2>1, CrcRuns
  <2> QED BY <1>1, <2>2
<1>5. f[8 * n] = FieldOf(x[n + 1], x[n + 2])
  BY <1>4 DEF Accepts
<1>6. CrcByte(f[8 * n], x[n + 1]) = f[8 * n + 8]
  <2>1. 8 * n \in Nat OBVIOUS
  <2>2. \A b \in 0 .. 7 : b \in x[n + 1] <=> 8 * n + b \in Ones(x)
    <3>1. n + 1 \in 1 .. n + 2 /\ 8 * ((n + 1) - 1) = 8 * n OBVIOUS
    <3> QED BY <1>3, <3>1
  <2> QED BY <1>2, <2>1, <2>2, CrcByteRuns
<1>7. CrcByte(f[8 * n + 8], x[n + 2]) = f[8 * (n + 2)]
  <2>1. 8 * n + 8 \in Nat /\ 8 * (n + 2) = (8 * n + 8) + 8 OBVIOUS
  <2>2. \A b \in 0 .. 7 : b \in x[n + 2] <=> (8 * n + 8) + b \in Ones(x)
    <3>1. n + 2 \in 1 .. n + 2 /\ 8 * ((n + 2) - 1) = 8 * n + 8 OBVIOUS
    <3> QED BY <1>3, <3>1
  <2> QED BY <1>2, <2>1, <2>2, CrcByteRuns
<1> QED BY <1>2, <1>5, <1>6, <1>7, FieldClears

\* Of two different headers, of any length, whose differences, the CRC field
\* included, all lie within sixteen bits, startedByLoader() accepts at most one.
THEOREM CrcFindsBursts ==
  ASSUME NEW n \in Nat, NEW x \in Seq(Byte), NEW y \in Seq(Byte),
         Len(x) = n + 2, Len(y) = n + 2, x # y,
         NEW at \in Nat, SymDiff(Ones(x), Ones(y)) \subseteq at .. at + 15
  PROVE  ~ (/\ Accepts(SubSeq(x, 1, n), x[n + 1], x[n + 2])
            /\ Accepts(SubSeq(y, 1, n), y[n + 1], y[n + 2]))
<1> SUFFICES ASSUME Accepts(SubSeq(x, 1, n), x[n + 1], x[n + 2]),
                    Accepts(SubSeq(y, 1, n), y[n + 1], y[n + 2])
             PROVE  FALSE
  OBVIOUS
<1> DEFINE D == Ones(x)
           E == Ones(y)
           q == 8 * (n + 2)
<1>1. PICK f : IsRun(f, D) BY RunExists
<1>2. PICK g : IsRun(g, E) BY RunExists
<1>3. f[q] = g[q]
  <2>1. f[8 * (n + 2)] = {} BY <1>1, AcceptedClears
  <2>2. g[8 * (n + 2)] = {} BY <1>2, AcceptedClears
  <2> QED BY <2>1, <2>2
<1>4. \A p \in Nat : p \notin at .. at + 15 => (p \in D <=> p \in E)
  BY DEF SymDiff
<1>5. \A p \in Nat : p >= q => (p \in D <=> p \in E)
  <2>1. \A p \in D : p < q BY OnesMembers
  <2>2. \A p \in E : p < q BY OnesMembers
  <2>3. q \in Nat OBVIOUS
  <2> HIDE DEF D, E, q
  <2> QED BY <2>1, <2>2, <2>3
<1>6. q \in Nat /\ 0 \in Nat /\ at + 16 \in Nat /\ 0 <= at OBVIOUS
<1> HIDE DEF D, E, q
<1>7. f[at] = g[at]
  <2>1. f[0] = g[0] BY <1>1, <1>2 DEF IsRun
  <2>2. \A k \in 0 .. at - 1 : k \in D <=> k \in E BY <1>4
  <2> QED BY <1>1, <1>2, <1>6, <2>1, <2>2, SameBits
<1>8. f[at + 16] = g[at + 16]
  <2>1. CASE q <= at + 16
    <3>1. \A k \in q .. (at + 16) - 1 : k \in D <=> k \in E BY <1>5, <1>6
    <3> QED BY <1>1, <1>2, <1>3, <1>6, <2>1, <3>1, SameBits
  <2>2. CASE at + 16 <= q
    <3>1. \A k \in at + 16 .. q - 1 : k \in D <=> k \in E BY <1>4, <1>6
    <3> QED BY <1>1, <1>2, <1>3, <1>6, <2>2, <3>1, SameBits
  <2> QED BY <1>6, <2>1, <2>2
<1>9. \A p \in at .. at + 15 : p \in D <=> p \in E
  BY <1>1, <1>2, <1>7, <1>8, BurstShows
<1>10. \A p \in Nat : p \in D <=> p \in E BY <1>4, <1>9
<1>11. ASSUME NEW i \in 1 .. n + 2 PROVE x[i] = y[i]
  <2>1. x[i] \in Byte /\ y[i] \in Byte OBVIOUS
  <2>2. ASSUME NEW b \in 0 .. 7 PROVE b \in x[i] <=> b \in y[i]
    <3>1. 8 * (i - 1) + b \in Nat OBVIOUS
    <3>2. b \in x[i] <=> 8 * (i - 1) + b \in D BY OnesMembers DEF D
    <3>3. b \in y[i] <=> 8 * (i - 1) + b \in E BY OnesMembers DEF E
    <3> QED BY <1>10, <3>1, <3>2, <3>3
  <2> QED BY <2>1, <2>2 DEF Byte
<1> QED BY <1>11

\* Memory that was cleared, of whatever size, is never accepted as a header.
THEOREM ClearedIsNoHeader ==
  ASSUME NEW data \in Seq({{}}) PROVE ~ Accepts(data, {}, {})
<1>1. PICK f : IsRun(f, {}) BY RunExists
<1> DEFINE T == {p \in Nat : f[p] # {}}
<1>2. 0 \in T
  <2>1. CrcStart # {} BY SMT DEF CrcStart
  <2> QED BY <1>1, <2>1 DEF IsRun
<1>3. ASSUME NEW p \in Nat, p \in T PROVE p + 1 \in T
  <2>1. f[p + 1] = CrcBit(f[p]) /\ f[p] \in Register BY <1>1 DEF IsRun, Entered
  <2> QED BY <1>3, <2>1, ClearStays
<1> HIDE DEF T
<1>4. Nat \subseteq T BY <1>2, <1>3, Induction
<1>5. data \in Seq(Byte) /\ \A i \in 1 .. Len(data) : data[i] = {} 
  BY DEF Byte
<1>6. headerCrc16(data) = f[8 * Len(data)] BY <1>1, <1>5, CrcRuns
<1>7. 8 * Len(data) \in Nat BY <1>5
<1>8. headerCrc16(data) # {} BY <1>4, <1>6, <1>7 DEF T
<1>9. FieldOf({}, {}) = {} BY DEF FieldOf
<1> QED BY <1>8, <1>9 DEF Accepts

-----------------------------------------------------------------------------

\* A polynomial times x.
Up(S) == {k + 1 : k \in S}

\* Multiplied by x and reduced, term by term.
LEMMA TimesXMembers ==
  ASSUME NEW r \in Register
  PROVE  /\ TimesX(r) \in Register
         /\ \A e \in 0 .. 15 :
              e \in TimesX(r) <=> (e # 0 /\ e - 1 \in r) # (e \in G /\ 15 \in r)
<1> DEFINE up == {e + 1 : e \in r}
<1>1. /\ up \in SUBSET (1 .. 16) /\ (16 \in up <=> 15 \in r)
      /\ \A e \in 0 .. 15 : e \in up <=> e # 0 /\ e - 1 \in r
  BY SMT DEF Register
<1>2. TimesX(r) = IF 16 \in up THEN SymDiff(up, G) ELSE up
  BY DEF TimesX
<1>3. G \in SUBSET (0 .. 16) /\ 16 \in G BY SMT DEF G
<1> HIDE DEF up
<1>4. CASE 15 \in r
  <2>1. TimesX(r) = SymDiff(up, G) BY <1>1, <1>2, <1>4
  <2>2. SymDiff(up, G) \in SUBSET (0 .. 15)
    <3>1. \A e \in SymDiff(up, G) : e \in 0 .. 16 /\ e # 16
      BY <1>1, <1>3, <1>4, SMT DEF SymDiff
    <3> QED BY <3>1, SMT
  <2>3. ASSUME NEW e \in 0 .. 15
        PROVE  e \in SymDiff(up, G) <=> (e \in up) # (e \in G)
    BY DEF SymDiff
  <2> QED BY <1>1, <1>4, <2>1, <2>2, <2>3 DEF Register
<1>5. CASE 15 \notin r
  <2>1. TimesX(r) = up BY <1>1, <1>2, <1>5
  <2>2. up \in SUBSET (0 .. 15)
    <3>1. \A e \in up : e \in 1 .. 16 /\ e # 16 BY <1>1, <1>5
    <3> QED BY <3>1, SMT
  <2> QED BY <1>1, <1>5, <2>1, <2>2 DEF Register
<1> QED BY <1>4, <1>5

\* The powers of x mod G are what their recursion says.
LEMMA PowModEquation ==
  /\ PowMod \in [Nat -> Register] /\ PowMod[0] = {0}
  /\ \A k \in Nat : PowMod[k + 1] = TimesX(PowMod[k])
<1> DEFINE Eqn(h) == h = [k \in Nat |-> IF k = 0 THEN {0} ELSE TimesX(h[k - 1])]
           step == [k \in Nat |-> [r \in Register |-> TimesX(r)]]
<1>1. step \in [Nat -> [Register -> Register]] BY TimesXMembers
<1>2. {0} \in Register BY DEF Register
<1>3. PICK f : Follows(f, Register, {0}, step)
  <2> HIDE DEF step
  <2> QED BY <1>1, <1>2, Recursion
<1>4. /\ f \in [Nat -> Register] /\ f[0] = {0} /\ \A k \in Nat : f[k + 1] = TimesX(f[k])
  BY <1>3 DEF Follows
<1>5. Eqn(f)
  <2>1. ASSUME NEW k \in Nat PROVE f[k] = IF k = 0 THEN {0} ELSE TimesX(f[k - 1])
    <3>1. CASE k = 0 BY <1>4, <3>1
    <3>2. CASE k # 0
      <4>1. k - 1 \in Nat /\ (k - 1) + 1 = k BY <3>2
      <4> QED BY <1>4, <3>2, <4>1
    <3> QED BY <3>1, <3>2
  <2> QED BY <1>4, <2>1
<1>6. Eqn(PowMod)
  <2>1. PowMod = CHOOSE h : Eqn(h) BY DEF PowMod
  <2> HIDE DEF Eqn
  <2> QED BY <1>5, <2>1
<1>7. PowMod = [k \in Nat |-> IF k = 0 THEN {0} ELSE TimesX(PowMod[k - 1])]
  BY <1>6
<1>8. PowMod[0] = {0} BY <1>7
<1>9. ASSUME NEW k \in Nat PROVE PowMod[k + 1] = TimesX(PowMod[k])
  <2>1. k + 1 \in Nat /\ k + 1 # 0 /\ (k + 1) - 1 = k OBVIOUS
  <2>2. PowMod[k + 1] = IF k + 1 = 0 THEN {0} ELSE TimesX(PowMod[(k + 1) - 1])
    BY <1>7, <2>1
  <2> QED BY <2>1, <2>2
<1>10. \A k \in Nat : PowMod[k] \in Register
  <2> DEFINE T == {k \in Nat : PowMod[k] \in Register}
  <2>1. 0 \in T BY <1>2, <1>8
  <2>2. ASSUME NEW k \in Nat, k \in T PROVE k + 1 \in T BY <1>9, <2>2, TimesXMembers
  <2> HIDE DEF T
  <2>3. Nat \subseteq T BY <2>1, <2>2, Induction
  <2> QED BY <2>3 DEF T
<1> QED BY <1>7, <1>8, <1>9, <1>10

\* The first sixteen are not reduced, the next one once.
LEMMA LowPowers ==
  /\ \A k \in 0 .. 15 : PowMod[k] = {k}
  /\ PowMod[16] = {15, 2, 0}
<1> DEFINE T == {k \in Nat : k <= 15 => PowMod[k] = {k}}
<1>1. 0 \in T BY PowModEquation
<1>2. ASSUME NEW k \in Nat, k \in T PROVE k + 1 \in T
  <2>1. SUFFICES ASSUME k + 1 <= 15 PROVE PowMod[k + 1] = {k + 1} OBVIOUS
  <2>2. PowMod[k + 1] = TimesX({k}) BY <1>2, <2>1, PowModEquation
  <2>3. {e + 1 : e \in {k}} = {k + 1} OBVIOUS
  <2>4. 16 \notin {k + 1} BY <2>1
  <2> QED BY <2>2, <2>3, <2>4 DEF TimesX
<1> HIDE DEF T
<1>3. Nat \subseteq T BY <1>1, <1>2, Induction
<1>4. \A k \in 0 .. 15 : PowMod[k] = {k} BY <1>3 DEF T
<1>5. PowMod[16] = TimesX({15})
  <2>1. 15 \in Nat /\ 15 + 1 = 16 /\ 15 \in 0 .. 15 OBVIOUS
  <2> QED BY <1>4, <2>1, PowModEquation
<1>6. {e + 1 : e \in {15}} = {16} OBVIOUS
<1>7. TimesX({15}) = SymDiff({16}, G)
  BY <1>6 DEF TimesX
<1>8. SymDiff({16}, G) = {15, 2, 0} BY SMT DEF SymDiff, G
<1> QED BY <1>4, <1>5, <1>7, <1>8

\* Of a sum mod 2.
LEMMA OddSymDiff ==
  ASSUME NEW A, NEW B, IsFiniteSet(A), IsFiniteSet(B)
  PROVE  /\ IsFiniteSet(SymDiff(A, B))
         /\ Odd(SymDiff(A, B)) <=> ~ (Odd(A) <=> Odd(B))
<1> DEFINE a == Cardinality(A)
           b == Cardinality(B)
           c == Cardinality(A \cap B)
           d == Cardinality(A \ B)
           e == Cardinality(B \ A)
           s == Cardinality(SymDiff(A, B))
<1>1. /\ IsFiniteSet(A \cap B) /\ IsFiniteSet(A \ B) /\ IsFiniteSet(B \ A)
      /\ d = a - c
  BY FS_Difference, FS_Intersection
<1>2. e = b - c
  <2>1. Cardinality(B \ A) = Cardinality(B) - Cardinality(B \cap A) BY FS_Difference
  <2>2. B \cap A = A \cap B OBVIOUS
  <2> QED BY <2>1, <2>2
<1>3. IsFiniteSet(SymDiff(A, B)) /\ s = d + e
  <2>1. (A \ B) \cap (B \ A) = {} OBVIOUS
  <2>2. /\ IsFiniteSet((A \ B) \cup (B \ A))
        /\ Cardinality((A \ B) \cup (B \ A)) = d + e - Cardinality((A \ B) \cap (B \ A))
    BY <1>1, FS_Union
  <2>3. Cardinality((A \ B) \cap (B \ A)) = 0 BY <2>1, FS_EmptySet
  <2>4. d \in Nat /\ e \in Nat BY <1>1, FS_CardinalityType
  <2> HIDE DEF d, e
  <2> QED BY <2>2, <2>3, <2>4 DEF SymDiff
<1>4. a \in Nat /\ b \in Nat /\ c \in Nat BY <1>1, FS_CardinalityType
<1> HIDE DEF a, b, c, d, e, s
<1>5. s = a + b - 2 * c BY <1>1, <1>2, <1>3, <1>4
<1>6. s % 2 = 1 <=> (a % 2 = 1) # (b % 2 = 1) BY <1>4, <1>5
<1> QED BY <1>3, <1>6 DEF Odd, a, b, s

\* A shift does not change how many there are.
LEMMA OddUp ==
  ASSUME NEW S \in SUBSET Nat, IsFiniteSet(S)
  PROVE  IsFiniteSet(Up(S)) /\ (Odd(Up(S)) <=> Odd(S))
<1> DEFINE f == [k \in S |-> k + 1]
<1>1. f \in Bijection(S, Up(S))
  <2>1. f \in [S -> Up(S)] BY DEF Up
  <2>2. \A x, y \in S : f[x] = f[y] => x = y
    <3>1. \A x, y \in S : x + 1 = y + 1 => x = y OBVIOUS
    <3> QED BY <3>1
  <2>3. \A t \in Up(S) : \E x \in S : f[x] = t BY DEF Up
  <2> HIDE DEF f
  <2> QED BY <2>1, <2>2, <2>3 DEF Bijection, Injection, Surjection, IsInjective
<1>2. ExistsBijection(S, Up(S)) BY <1>1 DEF ExistsBijection
<1> QED BY <1>2, FS_Bijection DEF Odd

\* The register holds its polynomial back to front.
Rev(r) == {15 - e : e \in r}

\* What is left of a polynomial mod G fits the register.
LEMMA ResidueTyped == ASSUME NEW P PROVE Residue(P) \in Register
  BY DEF Residue, Register

\* What is left of a polynomial times x.
LEMMA ResidueUp ==
  ASSUME NEW P \in SUBSET Nat, IsFiniteSet(P)
  PROVE  Residue(Up(P)) = TimesX(Residue(P))
<1>1. ASSUME NEW e \in 0 .. 15
      PROVE  e \in Residue(Up(P)) <=> e \in TimesX(Residue(P))
  <2> DEFINE S == {k \in P : e \in PowMod[k + 1]}
             A == {k \in P : e # 0 /\ e - 1 \in PowMod[k]}
             B == {k \in P : e \in G /\ 15 \in PowMod[k]}
  <2>1. S \in SUBSET Nat /\ IsFiniteSet(S) /\ IsFiniteSet(A) /\ IsFiniteSet(B)
    BY FS_Subset
  <2>2. {k \in Up(P) : e \in PowMod[k]} = Up(S)
    BY DEF Up
  <2>3. S = SymDiff(A, B)
    <3>1. ASSUME NEW k \in P PROVE k \in S <=> (k \in A) # (k \in B)
      <4>1. PowMod[k] \in Register /\ PowMod[k + 1] = TimesX(PowMod[k])
        BY PowModEquation
      <4>2. e \in TimesX(PowMod[k]) <=> (e # 0 /\ e - 1 \in PowMod[k]) # (e \in G /\ 15 \in PowMod[k])
        BY <4>1, TimesXMembers
      <4> QED BY <4>1, <4>2
    <3>2. S \subseteq P /\ A \subseteq P /\ B \subseteq P OBVIOUS
    <3> HIDE DEF S, A, B
    <3>3. \A k \in P : k \in SymDiff(A, B) <=> (k \in A) # (k \in B) BY DEF SymDiff
    <3>4. SymDiff(A, B) \subseteq P BY <3>2 DEF SymDiff
    <3> QED BY <3>1, <3>2, <3>3, <3>4
  <2>4. Odd(Up(S)) <=> ~ (Odd(A) <=> Odd(B))
    <3> HIDE DEF S, A, B
    <3>1. Odd(Up(S)) <=> Odd(S) BY <2>1, OddUp
    <3>2. Odd(S) <=> ~ (Odd(A) <=> Odd(B)) BY <2>1, <2>3, OddSymDiff
    <3> QED BY <3>1, <3>2
  <2>5. Odd(A) <=> e # 0 /\ e - 1 \in Residue(P)
    <3>1. CASE e = 0
      <4>1. A = {} BY <3>1
      <4> HIDE DEF A
      <4>2. ~ Odd(A) BY <4>1, FS_EmptySet DEF Odd
      <4> QED BY <3>1, <4>2
    <3>2. CASE e # 0
      <4>1. A = {k \in P : e - 1 \in PowMod[k]} /\ e - 1 \in 0 .. 15 BY <3>2
      <4> HIDE DEF A
      <4> QED BY <3>2, <4>1 DEF Residue
    <3> QED BY <3>1, <3>2
  <2>6. Odd(B) <=> e \in G /\ 15 \in Residue(P)
    <3>1. CASE e \notin G
      <4>1. B = {} BY <3>1
      <4> HIDE DEF B
      <4>2. ~ Odd(B) BY <4>1, FS_EmptySet DEF Odd
      <4> QED BY <3>1, <4>2
    <3>2. CASE e \in G
      <4>1. B = {k \in P : 15 \in PowMod[k]} /\ 15 \in 0 .. 15 BY <3>2
      <4> HIDE DEF B
      <4> QED BY <3>2, <4>1 DEF Residue
    <3> QED BY <3>1, <3>2
  <2>7. e \in Residue(Up(P)) <=> Odd(Up(S))
    <3> HIDE DEF S
    <3> QED BY <2>2 DEF Residue
  <2>8. e \in TimesX(Residue(P)) <=> (e # 0 /\ e - 1 \in Residue(P)) # (e \in G /\ 15 \in Residue(P))
    BY ResidueTyped, TimesXMembers
  <2> HIDE DEF S, A, B
  <2> QED BY <2>4, <2>5, <2>6, <2>7, <2>8
<1>2. Residue(Up(P)) \in Register /\ TimesX(Residue(P)) \in Register
  BY ResidueTyped, TimesXMembers
<1> QED BY <1>1, <1>2 DEF Register

\* What is left once x^16 is added.
LEMMA ResidueAdd ==
  ASSUME NEW P \in SUBSET Nat, IsFiniteSet(P)
  PROVE  Residue(SymDiff(P, {16})) = SymDiff(Residue(P), {15, 2, 0})
<1>1. ASSUME NEW e \in 0 .. 15
      PROVE  e \in Residue(SymDiff(P, {16})) <=> (e \in Residue(P)) # (e \in {15, 2, 0})
  <2> DEFINE A == {k \in P : e \in PowMod[k]}
             B == {k \in {16} : e \in PowMod[k]}
  <2>1. IsFiniteSet(A) BY FS_Subset
  <2>2. B = IF e \in {15, 2, 0} THEN {16} ELSE {} BY LowPowers
  <2>3. IsFiniteSet(B) /\ (Odd(B) <=> e \in {15, 2, 0})
    <3> HIDE DEF B
    <3>1. CASE e \in {15, 2, 0}
      <4>1. Cardinality(B) = 1 /\ IsFiniteSet(B) BY <2>2, <3>1, FS_Singleton
      <4> QED BY <3>1, <4>1 DEF Odd
    <3>2. CASE e \notin {15, 2, 0}
      <4>1. Cardinality(B) = 0 /\ IsFiniteSet(B) BY <2>2, <3>2, FS_EmptySet
      <4> QED BY <3>2, <4>1 DEF Odd
    <3> QED BY <3>1, <3>2
  <2>4. {k \in SymDiff(P, {16}) : e \in PowMod[k]} = SymDiff(A, B)
    BY DEF SymDiff
  <2>5. e \in Residue(P) <=> Odd(A) BY DEF Residue
  <2>6. e \in Residue(SymDiff(P, {16})) <=> Odd(SymDiff(A, B))
    <3> HIDE DEF A, B
    <3> QED BY <2>4 DEF Residue
  <2> HIDE DEF A, B
  <2>7. Odd(SymDiff(A, B)) <=> ~ (Odd(A) <=> Odd(B))
    BY <2>1, <2>3, OddSymDiff
  <2> QED BY <2>3, <2>5, <2>6, <2>7
<1>2. Residue(SymDiff(P, {16})) \in Register /\ Residue(P) \in Register
  BY ResidueTyped
<1>3. \A e \in {15, 2, 0} : e \in 0 .. 15 OBVIOUS
<1>4. SymDiff(Residue(P), {15, 2, 0}) \in Register
  BY <1>2, <1>3 DEF SymDiff, Register
<1>5. \A e : e \in SymDiff(Residue(P), {15, 2, 0}) <=> (e \in Residue(P)) # (e \in {15, 2, 0})
  BY DEF SymDiff
<1> QED BY <1>1, <1>2, <1>4, <1>5 DEF Register

\* One step of the loop is one step of the division.
LEMMA StepDivides ==
  ASSUME NEW r \in Register, NEW one \in BOOLEAN
  PROVE  CrcBit(Entered(Rev(r), one)) =
           Rev(IF one THEN SymDiff(TimesX(r), {15, 2, 0}) ELSE TimesX(r))
<1> DEFINE x == Entered(Rev(r), one)
           s == IF one THEN SymDiff(TimesX(r), {15, 2, 0}) ELSE TimesX(r)
<1>1. ASSUME NEW q \in Register
      PROVE  Rev(q) \in Register /\ \A j \in 0 .. 15 : j \in Rev(q) <=> 15 - j \in q
  BY SMT DEF Rev, Register
<1>2. x \in Register
  BY <1>1, EnteredTyped
<1>3. TimesX(r) \in Register BY TimesXMembers
<1>4. s \in Register
  <2>1. \A e \in {15, 2, 0} : e \in 0 .. 15 OBVIOUS
  <2> QED BY <1>3, <2>1 DEF SymDiff, Register
<1>5. 0 \in x <=> (15 \in r) # one
  <2>1. 0 \in Rev(r) <=> 15 \in r BY <1>1
  <2>2. CASE one BY <2>1, <2>2 DEF Entered, SymDiff
  <2>3. CASE ~ one BY <2>1, <2>3 DEF Entered
  <2> QED BY <2>2, <2>3
<1>6. ASSUME NEW j \in 1 .. 15 PROVE j \in x <=> 15 - j \in r
  <2>1. j \in Rev(r) <=> 15 - j \in r BY <1>1
  <2>2. CASE one BY <2>1, <2>2 DEF Entered, SymDiff
  <2>3. CASE ~ one BY <2>1, <2>3 DEF Entered
  <2> QED BY <2>2, <2>3
<1>7. ASSUME NEW e \in 0 .. 15
      PROVE  e \in s <=> (e # 0 /\ e - 1 \in r) # (e \in {15, 2, 0} /\ 0 \in x)
  <2>1. e \in TimesX(r) <=> (e # 0 /\ e - 1 \in r) # (e \in {15, 2, 0} /\ 15 \in r)
    <3>1. e \in G <=> e \in {15, 2, 0} BY SMT DEF G
    <3> QED BY <3>1, TimesXMembers
  <2>2. CASE one
    <3>1. e \in s <=> (e \in TimesX(r)) # (e \in {15, 2, 0}) BY <2>2 DEF SymDiff
    <3>2. 0 \in x <=> 15 \notin r BY <1>5, <2>2
    <3> HIDE DEF x, s
    <3> QED BY <2>1, <3>1, <3>2
  <2>3. CASE ~ one
    <3>1. s = TimesX(r) BY <2>3
    <3>2. 0 \in x <=> 15 \in r BY <1>5, <2>3
    <3> HIDE DEF x, s
    <3> QED BY <2>1, <3>1, <3>2
  <2> QED BY <2>2, <2>3
<1> HIDE DEF x, s
<1>8. ASSUME NEW j \in 0 .. 15 PROVE j \in CrcBit(x) <=> j \in Rev(s)
  <2>1. j \in Rev(s) <=> 15 - j \in s BY <1>1, <1>4
  <2>2. CASE j = 15
    <3>1. 15 \in CrcBit(x) <=> 0 \in x BY <1>2, CrcBitMembers
    <3>2. 0 \in s <=> 0 \in x
      <4>1. 0 \in 0 .. 15 /\ 0 \in {15, 2, 0} OBVIOUS
      <4> QED BY <1>7, <4>1
    <3>3. 15 - 15 = 0 OBVIOUS
    <3> QED BY <2>1, <2>2, <3>1, <3>2, <3>3
  <2>3. CASE j # 15
    <3>1. j \in 0 .. 14 /\ j + 1 \in 1 .. 15 /\ 15 - j \in 0 .. 15 /\ 15 - j # 0
      BY <2>3
    <3>2. (15 - j) - 1 = 15 - (j + 1) OBVIOUS
    <3>3. j \in HA001 <=> 15 - j \in {15, 2, 0} BY <3>1, SMT DEF HA001
    <3>4. j \in CrcBit(x) <=> (j + 1 \in x) # (j \in HA001 /\ 0 \in x)
      BY <1>2, <3>1, CrcBitMembers
    <3>5. j + 1 \in x <=> 15 - (j + 1) \in r BY <1>6, <3>1
    <3>6. 15 - j \in s <=> (15 - (j + 1) \in r) # (15 - j \in {15, 2, 0} /\ 0 \in x)
      BY <1>7, <3>1, <3>2
    <3> QED BY <2>1, <3>3, <3>4, <3>5, <3>6
  <2> QED BY <2>2, <2>3
<1>9. CrcBit(x) \in Register /\ Rev(s) \in Register BY <1>1, <1>2, <1>4, CrcBitMembers
<1>10. CrcBit(x) = Rev(s) BY <1>8, <1>9 DEF Register
<1> QED BY <1>10 DEF x, s

\* The first p bits of a message as a polynomial, as Polynomial has them all.
Poly(D, p) == SymDiff({p + 15 - q : q \in {q \in D : q < p}}, p .. p + 15)

\* It is one.
LEMMA PolyTyped ==
  ASSUME NEW D \in SUBSET Nat, NEW p \in Nat
  PROVE  Poly(D, p) \in SUBSET Nat /\ IsFiniteSet(Poly(D, p))
<1>1. Poly(D, p) \subseteq 0 .. p + 15
  BY DEF Poly, SymDiff
<1>2. IsFiniteSet(0 .. p + 15) BY FS_Interval
<1>3. 0 .. p + 15 \subseteq Nat OBVIOUS
<1> QED BY <1>1, <1>2, <1>3, FS_Subset

\* The next bit: times x, and x^16 more if it is a one.
LEMMA Horner ==
  ASSUME NEW D \in SUBSET Nat, NEW p \in Nat
  PROVE  Poly(D, p + 1) = IF p \in D THEN SymDiff(Up(Poly(D, p)), {16}) ELSE Up(Poly(D, p))
<1> DEFINE M(k) == {k + 15 - q : q \in {q \in D : q < k}}
<1>1. ASSUME NEW e
      PROVE  e \in M(p + 1) <=> (e \in Up(M(p)) \/ (e = 16 /\ p \in D))
  <2>1. \A q \in D : q < p + 1 <=> (q < p \/ q = p) OBVIOUS
  <2>2. \A q \in D : (p + 1) + 15 - q = (p + 15 - q) + 1 OBVIOUS
  <2>3. e \in Up(M(p)) <=> \E q \in D : q < p /\ e = (p + 15 - q) + 1 BY DEF Up
  <2>4. e \in M(p + 1) <=> \E q \in D : q < p + 1 /\ e = (p + 1) + 15 - q OBVIOUS
  <2>5. (p + 15 - p) + 1 = 16 OBVIOUS
  <2> HIDE DEF M
  <2> QED BY <2>1, <2>2, <2>3, <2>4, <2>5
<1>2. 16 \notin Up(M(p))
  <2>1. \A q \in D : q < p => (p + 15 - q) + 1 # 16 OBVIOUS
  <2>2. 16 \in Up(M(p)) <=> \E q \in D : q < p /\ 16 = (p + 15 - q) + 1 BY DEF Up
  <2> HIDE DEF M
  <2> QED BY <2>1, <2>2
<1>3. Up(p .. p + 15) = (p + 1) .. ((p + 1) + 15)
  <2>1. \A e \in (p + 1) .. ((p + 1) + 15) : e - 1 \in p .. p + 15 /\ e = (e - 1) + 1
    OBVIOUS
  <2>2. \A k \in p .. p + 15 : k + 1 \in (p + 1) .. ((p + 1) + 15) OBVIOUS
  <2> QED BY <2>1, <2>2 DEF Up
<1>4. Up(SymDiff(M(p), p .. p + 15)) = SymDiff(Up(M(p)), Up(p .. p + 15))
  <2>1. M(p) \subseteq Nat /\ p .. p + 15 \subseteq Nat OBVIOUS
  <2> HIDE DEF M
  <2>2. ASSUME NEW S \in SUBSET Nat, NEW e
        PROVE  e \in Up(S) <=> e \in Nat \ {0} /\ e - 1 \in S
    <3>1. \A k \in S : k + 1 \in Nat \ {0} /\ (k + 1) - 1 = k OBVIOUS
    <3>2. e \in Nat \ {0} => (e - 1) + 1 = e OBVIOUS
    <3> QED BY <3>1, <3>2 DEF Up
  <2>3. SymDiff(M(p), p .. p + 15) \in SUBSET Nat BY <2>1 DEF SymDiff
  <2>4. \A e : e \in Up(SymDiff(M(p), p .. p + 15)) <=> e \in SymDiff(Up(M(p)), Up(p .. p + 15))
    <3> DEFINE I == p .. p + 15
    <3> HIDE DEF I
    <3>1. ASSUME NEW e PROVE e \in Up(SymDiff(M(p), I)) <=> e \in SymDiff(Up(M(p)), Up(I))
      <4>1. e \in Up(SymDiff(M(p), I)) <=> e \in Nat \ {0} /\ e - 1 \in SymDiff(M(p), I)
        BY <2>2, <2>3 DEF I
      <4>2. e \in Up(M(p)) <=> e \in Nat \ {0} /\ e - 1 \in M(p) BY <2>1, <2>2
      <4>3. e \in Up(I) <=> e \in Nat \ {0} /\ e - 1 \in I BY <2>1, <2>2 DEF I
      <4> QED BY <4>1, <4>2, <4>3 DEF SymDiff
    <3> QED BY <3>1 DEF I
  <2> QED BY <2>4
<1>5. Poly(D, p + 1) = SymDiff(M(p + 1), (p + 1) .. ((p + 1) + 15))
  BY DEF Poly
<1>6. Up(Poly(D, p)) = SymDiff(Up(M(p)), (p + 1) .. ((p + 1) + 15))
  BY <1>3, <1>4 DEF Poly
<1> DEFINE J == (p + 1) .. ((p + 1) + 15)
<1> HIDE DEF M, J
<1>7. Poly(D, p + 1) = SymDiff(M(p + 1), J) /\ Up(Poly(D, p)) = SymDiff(Up(M(p)), J)
  BY <1>5, <1>6 DEF J
<1>8. CASE p \in D
  <2>1. M(p + 1) = Up(M(p)) \cup {16} BY <1>1, <1>8
  <2>2. SymDiff(M(p + 1), J) = SymDiff(SymDiff(Up(M(p)), J), {16})
    BY <1>2, <2>1 DEF SymDiff
  <2> QED BY <1>7, <1>8, <2>2
<1>9. CASE p \notin D
  <2>1. M(p + 1) = Up(M(p)) BY <1>1, <1>9
  <2> QED BY <1>7, <1>9, <2>1
<1> QED BY <1>8, <1>9

\* The loop divides: the register is what is left of the bits so far.
LEMMA RunDivides ==
  ASSUME NEW D \in SUBSET Nat, NEW f, IsRun(f, D), NEW p \in Nat
  PROVE  f[p] = Rev(Residue(Poly(D, p)))
<1> DEFINE T == {k \in Nat : f[k] = Rev(Residue(Poly(D, k)))}
<1>1. 0 \in T
  <2>1. Poly(D, 0) = 0 .. 15
    <3>1. \A q \in D : ~ (q < 0) OBVIOUS
    <3>2. {0 + 15 - q : q \in {q \in D : q < 0}} = {} BY <3>1
    <3>3. 0 .. 0 + 15 = 0 .. 15 OBVIOUS
    <3> QED BY <3>2, <3>3 DEF Poly, SymDiff
  <2>2. ASSUME NEW e \in 0 .. 15 PROVE Odd({k \in 0 .. 15 : e \in PowMod[k]})
    <3>1. {k \in 0 .. 15 : e \in PowMod[k]} = {e} BY LowPowers
    <3>2. Cardinality({e}) = 1 BY FS_Singleton
    <3>3. 1 % 2 = 1 OBVIOUS
    <3> QED BY <3>1, <3>2, <3>3, Zenon DEF Odd
  <2>3. Residue(0 .. 15) = 0 .. 15 BY <2>2 DEF Residue
  <2>4. Rev(0 .. 15) = 0 .. 15
    <3>1. \A e \in 0 .. 15 : 15 - e \in 0 .. 15 /\ e = 15 - (15 - e) OBVIOUS
    <3> QED BY <3>1 DEF Rev
  <2>5. f[0] = 0 .. 15 BY DEF IsRun, CrcStart
  <2> QED BY <2>1, <2>3, <2>4, <2>5
<1>2. ASSUME NEW k \in Nat, k \in T PROVE k + 1 \in T
  <2> DEFINE P == Poly(D, k)
             r == Residue(P)
  <2>1. P \in SUBSET Nat /\ IsFiniteSet(P) BY PolyTyped
  <2>2. Up(P) \in SUBSET Nat /\ IsFiniteSet(Up(P))
    <3> HIDE DEF P
    <3>1. \A e \in P : e + 1 \in Nat BY <2>1
    <3> QED BY <2>1, <3>1, OddUp DEF Up
  <2>3. r \in Register BY ResidueTyped
  <2>4. (k \in D) \in BOOLEAN OBVIOUS
  <2>5. f[k + 1] = CrcBit(Entered(Rev(r), k \in D)) BY <1>2 DEF IsRun
  <2>6. Poly(D, k + 1) = IF k \in D THEN SymDiff(Up(P), {16}) ELSE Up(P) BY Horner
  <2> HIDE DEF P
  <2>7. Residue(Up(P)) = TimesX(r) BY <2>1, ResidueUp
  <2>8. Residue(SymDiff(Up(P), {16})) = SymDiff(TimesX(r), {15, 2, 0})
    BY <2>2, <2>7, ResidueAdd
  <2> HIDE DEF r
  <2>9. Residue(Poly(D, k + 1)) = IF k \in D THEN SymDiff(TimesX(r), {15, 2, 0}) ELSE TimesX(r)
    BY <2>6, <2>7, <2>8
  <2>10. f[k + 1] = Rev(Residue(Poly(D, k + 1)))
    BY <2>3, <2>4, <2>5, <2>9, StepDivides
  <2> QED BY <2>10
<1> HIDE DEF T
<1>3. Nat \subseteq T BY <1>1, <1>2, Induction
<1> QED BY <1>3 DEF T

\* headerCrc16 is the CRC-16 of every message: what is left of its polynomial,
\* mod x^16 + x^15 + x^2 + 1.
THEOREM CrcIsRemainder ==
  ASSUME NEW data \in Seq(Byte) PROVE headerCrc16(data) = Remainder(data)
<1> DEFINE n == Len(data)
           D == Ones(data)
           bits == UNION {{8 * (n - i) + 23 - b : b \in data[i]} : i \in 1 .. n}
<1>1. PICK f : IsRun(f, D) BY RunExists
<1>2. D \in SUBSET Nat /\ 8 * n \in Nat BY DEF Ones
<1>3. headerCrc16(data) = f[8 * n] BY <1>1, OnesMembers, CrcRuns
<1>4. f[8 * n] = Rev(Residue(Poly(D, 8 * n)))
  <2> HIDE DEF D, n
  <2> QED BY <1>1, <1>2, RunDivides
<1>5. bits = {8 * n + 15 - q : q \in {q \in D : q < 8 * n}}
  <2>1. \A i \in 1 .. n : data[i] \subseteq 0 .. 7 BY DEF Byte
  <2>2. ASSUME NEW i \in 1 .. n, NEW b \in data[i]
        PROVE  8 * (n - i) + 23 - b \in {8 * n + 15 - q : q \in {q \in D : q < 8 * n}}
    <3> DEFINE q == 8 * (i - 1) + b
    <3>1. b \in 0 .. 7 BY <2>1
    <3>2. q < 8 * n /\ 8 * (n - i) + 23 - b = 8 * n + 15 - q BY <3>1
    <3>3. q \in D BY <3>1, OnesMembers
    <3> HIDE DEF q, D
    <3> QED BY <3>2, <3>3
  <2>3. ASSUME NEW q \in D PROVE 8 * n + 15 - q \in bits
    <3>1. PICK i \in 1 .. n : \E b \in data[i] : q = 8 * (i - 1) + b BY DEF Ones
    <3>2. PICK b \in data[i] : q = 8 * (i - 1) + b BY <3>1
    <3>3. b \in 0 .. 7 BY <2>1
    <3>4. 8 * n + 15 - q = 8 * (n - i) + 23 - b BY <3>2, <3>3
    <3> QED BY <3>4
  <2> HIDE DEF D, n
  <2> QED BY <2>2, <2>3
<1>6. Polynomial(data) = SymDiff(bits, (8 * n) .. (8 * n + 15)) BY DEF Polynomial
<1>7. Polynomial(data) = Poly(D, 8 * n)
  <2> HIDE DEF D, n, bits
  <2> QED BY <1>5, <1>6 DEF Poly
<1> QED BY <1>3, <1>4, <1>7 DEF Remainder, Rev

\* The sum is a register.
LEMMA CrcTyped ==
  ASSUME NEW data \in Seq(Byte) PROVE headerCrc16(data) \in Register
<1>1. PICK f : IsRun(f, Ones(data)) BY RunExists
<1>2. headerCrc16(data) = f[8 * Len(data)] BY <1>1, OnesMembers, CrcRuns
<1>3. 8 * Len(data) \in Nat OBVIOUS
<1> QED BY <1>1, <1>2, <1>3 DEF IsRun

\* A header with one burst in it that was accepted without is not accepted.
LEMMA AlteredRefused ==
  ASSUME NEW n \in Nat, NEW data \in Seq(Byte), Len(data) = n, NEW m \in Altered(data)
  PROVE  ~ Accepts(SubSeq(m, 1, n), m[n + 1], m[n + 2])
<1> DEFINE crc == headerCrc16(data)
           x == data \o <<Low(crc), High(crc)>>
<1>1. crc \in Register BY CrcTyped
<1> HIDE DEF crc
<1>2. Low(crc) \in Byte /\ High(crc) \in Byte
  BY <1>1 DEF Low, High, Byte, Register
<1>3. FieldOf(Low(crc), High(crc)) = crc
  <2>1. \A b \in crc \ 0 .. 7 : (b - 8) + 8 = b BY <1>1 DEF Register
  <2>2. {b + 8 : b \in High(crc)} = crc \ 0 .. 7 BY <2>1 DEF High
  <2> QED BY <2>2 DEF FieldOf, Low
<1>4. /\ x \in Seq(Byte) /\ Len(x) = n + 2 /\ x[n + 1] = Low(crc) /\ x[n + 2] = High(crc)
      /\ \A i \in 1 .. n : x[i] = data[i]
  BY <1>2
<1>5. Accepts(SubSeq(x, 1, n), x[n + 1], x[n + 2])
  <2> HIDE DEF x
  <2>1. Len(SubSeq(x, 1, n)) = n /\ \A i \in 1 .. n : SubSeq(x, 1, n)[i] = x[i]
    BY <1>4
  <2>2. SubSeq(x, 1, n) \in Seq(Byte) BY <1>4
  <2>3. SubSeq(x, 1, n) = data BY <1>4, <2>1, <2>2
  <2> QED BY <1>3, <1>4, <2>3 DEF Accepts, crc
<1>6. PICK burst \in Bursts(n + 2) : m = Flip(x, burst)
  <2>1. Altered(data) = {Flip(x, burst) : burst \in Bursts(n + 2)}
    BY DEF Altered, crc
  <2> HIDE DEF x
  <2> QED BY <2>1
<1> HIDE DEF x
<1>7. PICK at \in 0 .. 8 * (n + 2) - 16, shape \in Shapes : burst = {at + b : b \in shape}
  BY DEF Bursts
<1>8. shape \in SUBSET (0 .. 15) /\ 0 \in shape
  <2>1. \A s \in Shapes : 0 \in s BY SMT DEF Shapes
  <2>2. \A s \in Shapes : \A b \in s : b \in 0 .. 15 BY SMT DEF Shapes
  <2> QED BY <2>1, <2>2
<1>9. burst \subseteq at .. at + 15 /\ burst \subseteq 0 .. 8 * (n + 2) - 1 /\ at \in burst
  <2>1. \A b \in shape : at + b \in at .. at + 15 /\ at + b \in 0 .. 8 * (n + 2) - 1
    <3>1. ASSUME NEW b \in shape
          PROVE  at + b \in at .. at + 15 /\ at + b \in 0 .. 8 * (n + 2) - 1
      <4>1. b \in 0 .. 15 BY <1>8
      <4>2. at \in Nat /\ at <= 8 * (n + 2) - 16 OBVIOUS
      <4> QED BY <4>1, <4>2
    <3> QED BY <3>1
  <2>2. at + 0 = at OBVIOUS
  <2>3. at + 0 \in burst BY <1>7, <1>8
  <2> QED BY <1>7, <2>1, <2>2, <2>3
<1>10. m = [i \in 1 .. n + 2 |-> SymDiff(x[i], {b \in 0 .. 7 : 8 * (i - 1) + b \in burst})]
  BY <1>4, <1>6 DEF Flip
<1>11. m \in Seq(Byte) /\ Len(m) = n + 2
  <2>1. ASSUME NEW i \in 1 .. n + 2
        PROVE  SymDiff(x[i], {b \in 0 .. 7 : 8 * (i - 1) + b \in burst}) \in Byte
    BY <1>4 DEF SymDiff, Byte
  <2>2. m \in [1 .. n + 2 -> Byte] BY <1>10, <2>1
  <2>3. n + 2 \in Nat OBVIOUS
  <2> QED BY <2>2, <2>3
<1>12. ASSUME NEW i \in 1 .. n + 2, NEW b \in 0 .. 7
       PROVE  b \in m[i] <=> ~ (b \in x[i] <=> 8 * (i - 1) + b \in burst)
  BY <1>10 DEF SymDiff
<1>13. m # x
  <2> DEFINE i == (at \div 8) + 1
             b == at % 8
  <2>1. i \in 1 .. n + 2 /\ b \in 0 .. 7 /\ 8 * (i - 1) + b = at
    OBVIOUS
  <2> HIDE DEF i, b
  <2>2. b \in m[i] <=> ~ (b \in x[i]) BY <1>9, <1>12, <2>1
  <2> QED BY <2>2
<1>14. SymDiff(Ones(x), Ones(m)) \subseteq at .. at + 15
  <2>1. ASSUME NEW p, p \in Ones(x), p \notin Ones(m) PROVE p \in burst
    <3>1. PICK i \in 1 .. n + 2 : \E b \in x[i] : p = 8 * (i - 1) + b
      BY <1>4, <2>1 DEF Ones
    <3>2. PICK b \in x[i] : p = 8 * (i - 1) + b BY <3>1
    <3>3. b \in 0 .. 7 BY <1>4 DEF Byte
    <3>4. b \notin m[i] BY <1>11, <2>1, <3>2, <3>3, OnesMembers
    <3> QED BY <1>12, <3>2, <3>3, <3>4
  <2>2. ASSUME NEW p, p \in Ones(m), p \notin Ones(x) PROVE p \in burst
    <3>1. PICK i \in 1 .. n + 2 : \E b \in m[i] : p = 8 * (i - 1) + b
      BY <1>11, <2>2 DEF Ones
    <3>2. PICK b \in m[i] : p = 8 * (i - 1) + b BY <3>1
    <3>3. b \in 0 .. 7 BY <1>11 DEF Byte
    <3>4. b \notin x[i] BY <1>4, <2>2, <3>2, <3>3, OnesMembers
    <3> QED BY <1>12, <3>2, <3>3, <3>4
  <2> QED BY <1>9, <2>1, <2>2 DEF SymDiff
<1> QED
  <2>1. at \in Nat OBVIOUS
  <2> QED BY <1>4, <1>5, <1>11, <1>13, <1>14, <2>1, CrcFindsBursts

\* The sum is the one that loaders write, finds the bursts, and never takes
\* zeroes for a header.
LEMMA ChecksumAsTaken == MatchesPolynomial /\ BurstsFound /\ ZeroesAreNoHeader
<1>1. MatchesPolynomial
  <2>1. Samples \subseteq Byte
    BY SMT DEF Samples, Byte
  <2>2. ASSUME NEW data \in Messages PROVE data \in Seq(Byte)
    <3>1. PICK n \in 0 .. 3 : data \in [1 .. n -> Samples] BY DEF Messages
    <3>2. data \in [1 .. n -> Byte] /\ n \in Nat BY <2>1, <3>1
    <3> QED BY <3>2
  <2> QED BY <2>2, CrcIsRemainder DEF MatchesPolynomial, Sums
<1>2. BurstsFound
  <2> DEFINE d1 == <<{}, 0 .. 7, {1}>>
             d2 == <<{0, 3, 4, 6}, {}, {}>>
  <2>1. /\ {} \in Byte /\ 0 .. 7 \in Byte /\ {1} \in Byte /\ {0, 3, 4, 6} \in Byte
    BY SMT DEF Byte
  <2>2. d1 \in Seq(Byte) /\ Len(d1) = 3 /\ d2 \in Seq(Byte) /\ Len(d2) = 3
    BY <2>1
  <2> HIDE DEF d1, d2
  <2>3. ASSUME NEW m \in Altered(d1) \cup Altered(d2) PROVE ~ Accepts(SubSeq(m, 1, 3), m[4], m[5])
    <3>1. 3 \in Nat /\ 3 + 1 = 4 /\ 3 + 2 = 5 OBVIOUS
    <3>2. ~ Accepts(SubSeq(m, 1, 3), m[3 + 1], m[3 + 2])
      BY <2>2, <3>1, AlteredRefused
    <3> QED BY <3>1, <3>2
  <2>4. Verdicts = {Accepts(SubSeq(m, 1, 3), m[4], m[5]) : m \in Altered(d1) \cup Altered(d2)}
    BY DEF Verdicts, d1, d2
  <2> QED BY <2>3, <2>4 DEF BurstsFound
<1>3. ZeroesAreNoHeader
  <2>1. CrcStart # {} BY SMT DEF CrcStart
  <2>2. ASSUME NEW crc \in (SUBSET (0 .. 15)) \ {{}} PROVE CrcBit(crc) # {}
    <3>1. crc \in Register /\ crc # {} BY Zenon DEF Register
    <3> QED BY <3>1, ClearStays
  <2> QED BY <2>1, <2>2, Zenon DEF ZeroesAreNoHeader, AfterZeroBit
<1> QED BY <1>1, <1>2, <1>3

\* Whenever a CPU checks a header, headerCrc16 is the sum that loaders write, and
\* startedByLoader accepts neither two headers that differ in a burst nor zeroes.
THEOREM SumTellsHolds == Spec => []SumTells
<1>1. SumTells
  BY ChecksumAsTaken DEF SumTells
<1> QED BY <1>1, PTL

==============================================================================
