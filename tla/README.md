# Verification of the NSMB DSi module

TLA+ models of the module under `src/modules/dsi`, of its test harness and of
its set-up script, checked with TLC. Every invariant the runs check is also
proved with TLAPS, for every value of the constants; liveness is left to TLC.
Paths below are relative to `src/` unless they name a module of this directory;
`dsi/` stands for `modules/dsi/`.

## 1. The system

New Super Mario Bros. is a program for the Nintendo DS: two CPUs, ARM9 and ARM7,
4MB of RAM, an SDK that knows of nothing else. The module is linked into the
game's binaries and takes over a handful of call sites. Started in DSi mode, it
makes the DSi's registers behave as the game expects, puts boot data where the
game's SDK looks for it, and hands out the resources that are new: 12MB of RAM,
768KB of NWRAM, a faster clock. In DS mode it must change nothing. Under a
*loader* (nds-bootstrap) DSi mode is on but memory, NWRAM and clock belong to
the loader.

### 1.1 Components, their state and their operations

| Component | Source | State | Operations | Modelled by |
|---|---|---|---|---|
| Boot hook, ARM9 | `dsi/source9/core/boot9.cpp` | `state`; SCFG_EXT9; protection region 1 | `DSi_bootArm9`, `DSi_afterOsInit`, `DSi_afterRootHeap`, getters | `BootProtocol`, `Stages` |
| Boot hook, ARM7 | `dsi/source7/core/boot7.cpp` | `twl7`; SCFG_EXT7; the shared block | `DSi_bootArm7` | `BootProtocol` |
| Shared area | `dsi/include/dsi/shared.hpp` | the NTR system area, the shared block | `bootAreaMirrored`, `mirrorBootArea`, `startedByLoader`, `headerCrc16` | `BootProtocol`, `BootRanges`, `HeaderCrc` |
| Registers, region 1 | `dsi/include/dsi/twl_regs.hpp`, `dsi/source9/core/internal.hpp` | | masks, `ramLimit`, `widenRegion1` | `TwlRegs`, `Mpu` |
| ExtendedRam | `dsi/source9/extram/extram.cpp` | main arena, `lowStart/lowEnd`, three heaps | `DSi_extramBeforeRootHeap`, `DSi_extramAfterRootHeap`, `makeHeap` | `Stages` |
| NWram | `dsi/source9/nwram/nwram.cpp` | MBK1-8, `mapped`, one heap | `DSi_nwramInit`, `assignSlots`, `probe`, `DSi_nwramAfterRootHeap` | `Stages`, `NwramLayout` |
| Clock, FastClock | `dsi/source9/core/clock.cpp`, `dsi/source9/fastclock` | SCFG_CLK, `state.fastClock`, the stub in ITCM | `setFastClock`, `installStub`, `DSi_clockInit` | `Clock`, `Stages` |
| Report and its reader | `dsi/source9/report/report.cpp`, `tools/harness/main.cpp` | the report, in cache and in RAM; flag and value of the shared block | `DSi_collectReport`, the two frame hooks, `printReport` | `Report` |
| Public API | `dsi/include/dsi/dsi.hpp` | the answers of all of these | the getters, `setFastClock`, `log` | `Api` (abstract), `Stages`, `Clock`, `Log` |
| MegaLogo | `dsi/source9/megalogo/megalogo.cpp` | a borrowed megabyte, a sound heap in it | `DSi_logoSound`, `DSi_logoSceneEnd` | `MegaLogo` |
| Debug log | `dsi/source9/core/log.cpp` | one line buffer, in cache and in RAM | `DSi::log`, `logBootSummary` | `Log` |
| Pitch table fix | `dsi/source7/core/bios7.cpp` | `twl7` | `DSi_getPitchTable` | `Pitch` |
| Harness, front end | `tools/harness/main.cpp` | consoles, threads, files written, exit code | `parse`, `makeConsole`, `play`, `pace`, `main` | `Harness`, without `parse` and `setArgv` |
| Harness, platform layer | `tools/harness/platform.cpp` | semaphores, the save counter | `Semaphore_*`, `WriteNDSSave`, `OpenFile`, forwarding | `Semaphore`, `Files`, `Harness` |
| Harness, checks | `tools/harness/run.py` | | `check`; scenarios, pictures, sound | `Checks`: `check` |
| Set-up scripts | `tools/bootstrap.sh`, `tools/ncp.sh` | `.deps`, `.ncpatcher.env` | checkout, build, convert | `Setup` |

### 1.2 How they interact

* **Shared memory between the CPUs, without a lock.** Both hooks run at the same
  time. Each decides from registers and from the header in the NTR system area
  whether it is in DSi mode and under a loader. If it is in DSi mode and not
  under a loader it compares the headers and copies the boot data. Each can read
  what the other is in the middle of writing.
* **One handshake.** The ARM7 writes the shared block before its OS_Init; the
  ARM9's OS_Init returns after the ARM7's has answered. The ARM9 reads the
  block after that.
* **Soft resets.** `OS_ResetSystem` reloads both programs and clears their
  variables. RAM, the shared block, SCFG and MBK stay. Every boot but the first
  finds what the one before left.
* **Callbacks in a fixed order.** The core calls NWram, the clock and
  ExtendedRam as weak functions, between the SDK's own changes to region 1 and
  the arena.
* **Game code.** It asks the getters at any time, calls `setFastClock` from
  wherever it likes, allocates in the heaps.
* **Threads of the host.** With `--mp` two emulated consoles run in a thread
  each, beside threads of the emulator's own, and share the platform layer.
* **An observer outside.** The harness stops the emulated console between two
  frames of its own, which is any moment of the console's, and reads RAM.

### 1.3 What is hard, and what would be correct

The list of hazards, each at its line and with the properties that cover it, is
in `PROJECT.json`. In short:

* *Boot core*: two uncoordinated copies and two uncoordinated header checks, on
  every interleaving; a reset that keeps RAM. Correct when both CPUs tell the
  launch rightly, when boot data is complete before SDK code reads it, when the
  game's words for its next boot are never overwritten, when what belongs to a
  loader or to DS mode is not touched, and when every boot ends.
* *Stages*: four heaps from addresses found at run time, one register that
  three parties set, a step that can stop half-way. Correct when heaps are
  apart from each other and from what others own, and mapped when they exist;
  when the answers are settled before the game runs; and when the clock, which
  survives a reset that the answer does not, is told truly.
* *Clock*: check, write, re-read with interrupts enabled. Correct when the
  answer is the speed.
* *Report*: two CPUs' writes, one cache and a reader at any moment. Correct when
  the reader never mixes this boot with the last.
* *MegaLogo*: three calls that can fail in a row. Correct when all is given back.
* *Log*: one buffer, a computed index, a cache and callers nothing keeps apart.
  Correct when the emulator's read always ends in the buffer.
* *Pitch table*: a correction that must be made once, decided again on every boot
  from a register the module changes.
* *Semaphore*: counts added several at a time, notified outside the mutex.
  Correct when no count is lost and nobody sleeps through one.
* *Harness*: two threads, one process that any of them may end, and files whose
  writing nobody checks. Correct when success means that the whole script has been
  played and every file is of its frame, and it always ends.
* *Checks*: thresholds in another language, beside addresses and sizes of four
  components. Correct when a report passes exactly if nothing is missing.
* *Set-up*: a script of ten steps over what earlier runs have left. Correct when
  "Done" means that all is there, in the pinned revision, and when running it
  again helps. For the headers this is only so within limits (section 4).

## 2. Modules

| Module | What it is |
|---|---|
| `TwlRegs` | SCFG_EXT as a set of bits, the two clear masks, `RamLimit`, `ScfgUnlocked` |
| `Mpu` | region 1 as enable, base and size code; `WidenRegion1`, `Covers` |
| `BootSpec` | the abstract promise: the game comes up only on complete boot data, is told the truth, finds its words again |
| `BootProtocol` | the two hooks and the handshake, one memory access per step |
| `BootInvariant` | the inductive invariant, in named parts |
| `BootPremises` | what `BootProtocol` takes for granted of the table and of the checksum, as invariants |
| `BootProtocolProofs` | theorems about `BootProtocol` and `Pitch`, and about the copy loops and the checksum that `BootProtocol` relies on |
| `BootRanges` | the copy loops over the real table of offsets |
| `HeaderCrc` | `headerCrc16` bit by bit, and CRC-16 as a polynomial remainder |
| `Api` | the abstract specification of `dsi.hpp`: what is answered, to whom, from when on |
| `NwramLayout` | the values of `nwram.hpp`, decoded: which byte answers the ARM9 where |
| `Stages`, `StagesProofs` | OS_Init, `DSi_afterOsInit` and `DSi_afterRootHeap` with ExtendedRam, NWram and the clock, and the running game; theorems about it |
| `Checks` | `check()` of `run.py` on the report of a boot that `Stages` has made; its theorem is in `StagesProofs` |
| `Clock`, `ClockProofs` | `setFastClock`, the stub, several callers; theorems about it |
| `Report`, `ReportProofs` | the report, the block it is announced in, the reader; theorems about them |
| `MegaLogo`, `MegaLogoProofs` | the borrowed sound heap; theorems about it |
| `Log`, `LogProofs` | one line of the debug log, byte by byte; theorems about it |
| `Pitch` | the pitch table's correction, over the boot's state |
| `Semaphore` | the harness's semaphore; its theorems are in `ToolsProofs` |
| `Harness`, `HarnessProofs` | set-up, frame loops, files and end of the test harness; theorems about them and about `Files` |
| `Files` | `OpenFile`: the emulator's file modes in terms of C's |
| `Setup` | `bootstrap.sh` and `ncp.sh`; its theorems are in `ToolsProofs` |
| `ToolsProofs` | theorems about the semaphore and the set-up script |
| `MCBoot`, `MCStages`, `MCLog`, `MCHarness` | small values of the constants for TLC |

### 2.1 BootProtocol and the code

The words `mirrorBootArea()` writes are numbered `1 .. N+1` in the order in
which it writes them: `1 .. N` are BOOT_RANGES, of which `H .. N` are the header,
and `N+1` is the card ID (both its words). `BootRanges` checks that the real
table has this form: 270 words, the header from number 183, the CRC field in
the last. Of a word the model keeps its origin: the launcher's data for this
title (`twl`), boot data placed for NTR code (`ntr`), leftovers (`junk`), or
the game's own (`game`). That is all that the comparison, the copy and the
properties tell apart. `BootPremises` says what the protocol presumes of
`BootRanges` and `HeaderCrc`, at every copy and at every check; the run `boot`
checks it, and it is proved (5.2).

A CRC matches only over bytes written together, so the CRC check collects the
origins it has seen, byte reads of the CRC field included, and matches when
there was one and it was not `junk`. Leftovers may share words with the
launcher's data (zeros do), but their CRC field is not this title's: that is
the code's own premise (`shared.hpp:105-107`).

Each CPU goes `hook` (detect) → `crcField` (two byte reads) → `unit` → `crc` →
`switchOff` → `compare` → `copy` → (the ARM7: `pubValue`, `pubFlags`,
`pubMagic`) → `osInit` → (the ARM9: `afterOsInit`) → `game`, leaving early where
the code returns early. `launch` names how the console was started; no step
reads it except to bound the environment, and the properties compare the code's
answers with it. The operators `Detects9`, `Detects7` are the code's conditions
on the registers.

External, and modelled from how the code relies on it: OS_Init (the ARM9's waits
for the ARM7's; it may shrink region 1), the game's stores, soft reset.

### 2.2 The other modules

* `Stages` takes DSi_bootArm9's answers as given and runs everything after it,
  to the game and through its resets. Addresses are real. Which components are
  built in, who launched, what SCFG_EXT9 grants, what MBK1-5 hold at power-on and
  what MBK9 protects, whether the banks really answer, which registers keep what
  is written, and which allocation fails are all choices. NWRAM and clock
  registers survive a reset, the module's variables do not. A whole call of
  `setFastClock` is one step; `Clock` has the steps. `stubFits` is whether the ITCM
  arena that OS_Init made has room for the clock's stub: without one, every call of
  that boot returns before it touches anything (`SetsFastClock`).
* `Api` knows how the console was started, whether the game runs, and what the
  queries answer. `Stages` implements it (`KeepsApi`) under the mapping that has
  the answers silent until `DSi_afterRootHeap` is over, which is what "settled
  during boot" can mean: hook code of the module itself runs before, game code
  does not.
* `NwramLayout` reads the slot bytes as `nwram.hpp:14` describes them, so that
  `Stages` can say that the heap is memory: one byte at each address, and none
  at two.
* `HeaderCrc` has no state. A register is the set of its one bits, so a shift is
  an image and XOR a symmetric difference. The reference divides the message, as
  a polynomial over GF(2), and is built from the definition, not from the loop.
* `Checks` takes `Stages`' state where the report is collected, gives it to the
  conditions of `check()`, and compares the verdict with the state itself.
* `Clock` has one process per caller and one step per access, interrupts off
  where the code has them off. `BOOT` is the call the boot stage makes before
  the game runs.
* `Report` keeps the report twice, in the ARM9's cache and in memory, and lets
  the cache write back at any time. The reader is a state function: it sees the
  console as it stands.
* `MegaLogo` has one step per call that can fail or that others notice.
* `Log` writes one byte per step. `OS_VSNPrintf` is external: it returns an error
  or a length, writes at most one byte less than it is given room for, and a NUL.
* `Pitch` has no state: it says over `BootProtocol`'s what a call of
  `DSi_getPitchTable` comes to. BIOS table entries are counted from the start of
  the pitch table, so a correct answer is the entry asked for. The BIOS is the DSi's
  in DSi mode (`bios7.cpp:5-9`). That mode is read off the registers as
  `twl_regs.hpp:53-54` does: on where an access bit is set, off on a DS, and either
  where a DSi's registers read as zero (`DsiModes`). What the DSi's BIOS and
  nds-bootstrap's patch do is external, as `bios7.cpp` describes it.
* `Semaphore` splits a wait into test and take, as the code does under its
  mutex. `cv.wait` is a loop around sleep, with spurious wake-ups; `wait_for`
  tests once more after its time. `posted`, `taken` and `dropped` are history.
* `Harness` runs both frame loops step by step; `g_saveWrites++` is a load and a
  store, since it is a plain variable that two threads change. Which frames
  save, what fails to open and what the game does to DISPCNT are choices. Files
  are screenshots, backgrounds, memory dumps and, at the end, a recording. A file is
  opened in one step and written in another. Opening is checked and ends the process
  (`CannotOpen`); writing and closing are not, so once the disk is `failing` a file
  may come out in part, and the thread goes on.
* `Files` has no state: a file is there or not, and keeps its contents or not.
  C's `fopen` is external.
* `Setup` has one step per command of `bootstrap.sh` that changes something. Any
  of them may fail or be broken off (`Fail`), which under `set -e` ends the
  script; `headers`, the one directory that is changed in place, has a value for
  every state in which that can leave it, and `converter` is the revision of the
  converter it has been through. The directory given with `--nitro` is taken to hold
  `nitro.h`, which the script does not look at. What git does is external: it takes
  back a clone that fails, and refuses to clone where something is already.

## 3. Runs

| Run | Module, configuration | Result | What it shows |
|---|---|---|---|
| `boot` | `MCBoot`, `MCBoot.cfg` | holds, 23,949 states | verdicts, boot data, shared block, region 1, surviving words, nothing of others, the pitch table in every DSi mode the registers allow; the inductive invariant; every boot ends, and `BootSpec` with its fairness is implemented; the real table fits the numbering and spares what others own; the checksum is CRC-16, finds bursts, and never matches cleared memory |
| `boot_area_ok` | `MCBoot`, `MCBootAreaOk.cfg` | violated | finding 1 |
| `stages` | `MCStages`, `MCStages.cfg` | holds, 148,946 states | heaps apart, mapped and backed, NWRAM all or nothing and back after resets, nothing of others' added to or changed, the clock told truly or not at all, `Api` implemented, `check()` right in both directions |
| `clock` | `Clock`, `MCClock.cfg` | holds, 28,014 states | two callers: no null stub, not the loader's clock, a lone call has its effect, or none |
| `clock_race` | `Clock`, `MCClockRace.cfg` | violated | finding 2 |
| `report` | `Report`, `MCReport.cfg` | holds, 55,392 states | the reader; the frame figures |
| `megalogo` | `MegaLogo`, `MCMegaLogo.cfg` | holds, 393 states | nothing leaks, nothing dangles |
| `log` | `MCLog`, `MCLog.cfg` | holds, 188,681 states | stores and the emulator's read stay in the buffer; a line nobody interrupted is the line logged, cut to the buffer |
| `semaphore` | `Semaphore`, `MCSemaphore.cfg` | holds, 412,079 states | no count lost, no wake-up lost, a count that is there is taken |
| `harness` | `MCHarness`, `MCHarness.cfg` | holds, 238,001 states | behind `play()` nobody runs and every file is closed, of its frame, and whole if the disk is; scripted keys; files opened as asked; the process ends |
| `harness_saves` | `MCHarness`, `MCHarnessSaves.cfg` | violated | finding 3 |
| `setup` | `Setup`, `MCSetup.cfg` | holds, 52,927 states | what "Done" means, of tool, reference, harness, headers and converter; `.ncpatcher.env` names what is there; a run in which nothing fails gets through |

### 3.1 Bounds

* `MCBoot`: one word that carries game state, one other word before the header,
  a header of three (unit code, one in the middle, CRC field), the card ID. Each
  kind of word the code treats differently is there once, the header has a word
  before and after which a CPU can be overtaken. SCFG values: 16MB with extended
  circuits on, 4MB only, and zero. The theorems drop these bounds.
* `MCStages`: an arena on 32-byte boundaries, one off them, one too small for a
  heap; MBK9 open, closed, closed in the middle; MBK1-5 the module's at
  power-on, the first two, none; room for the stub or not, on every boot anew; SCFG_EXT9 with all DSi resources and with RAM
  only; a heap header of 64 bytes. The theorems drop these bounds.
* `HeaderCrc`: all messages of up to three bytes out of five for the polynomial;
  six burst shapes at every place, the field included, for two headers. The
  theorems drop these bounds.
* `Clock`: two callers are enough for each race, since a third only repeats one
  of the two roles; the arena holds two stubs, or fewer when something else has
  been put there.
* `Report`: a ring of 2 (for 64) that 5 frames go round twice; two heaps, each
  there or not. The theorems drop these bounds.
* `MegaLogo`: up to two megabytes free in each heap, so that the one borrowed is
  the last or not. The theorems drop that bound.
* `MCLog`: a buffer of 4 bytes instead of 192, three lines in all; lines that are
  empty, that just fit, and that do not. The theorems drop these bounds. The
  callers run out of lines, so deadlock is not an error there.
* `Pitch` has no bounds of its own: all 768 entries, in every state of `MCBoot`.
* `MCSemaphore`: three threads, so that two can sleep while one posts for both;
  posts of one and two, two in all. The theorems drop these bounds.
* `MCHarness`: three frames (two for the saves), two consoles, and presses that
  begin before, overlap and end within them; as many save flushes as frames;
  frame numbers of 4 bits that the scripts stay within; a screenshot, a
  background and a memory dump of the same frame; one console records. The disk fails
  at any moment or never, and fails for good. The harness ends, so deadlock is not an error there. The theorems drop these bounds.
* `Files` has no bounds: all 32 modes, file there or not.
* `MCSetup`: three revisions of the pins and three failures, so that a failure can
  follow a failure before and after the pins move. The theorems drop these bounds.
* `BootRanges` and `NwramLayout` have no bounds: they are the real tables.

### 3.2 Fairness

`boot` assumes `WF_vars(Arm9)` and `WF_vars(Arm7)`. Both CPUs are
running when the hooks are reached, neither hook contains a wait, and OS_Init
waits for the other CPU only. Nothing is assumed of the game's stores or resets.

`semaphore` assumes `WF_vars(Proceed(t))` for every thread: the host runs each
thread that can run. No thread has to call anything, no condition variable has
to wake by itself, no time has to run out. The mutex need not be fair: whoever
gets it and finds a count takes it.

`harness` assumes weak fairness of main(), of each console's thread and of the
host's clock: no thread waits for the other in `play()`, `sleep_until` returns
when its time has come, and a frame saves only so often. The emulated console's
own waits are `semaphore`'s.

`setup` assumes `WF_scriptVars(ScriptStep)`: the script goes on to its next command. Failures
are bounded, so that `RerunSucceeds` can speak of a run after the last one.

## 4. Findings

None of these changes what the game itself sees in the configurations described.

1. `SHARED_BOOT_AREA_OK` can be published while the card ID is not yet written:
   the header match that the ARM7 goes by comes before it (`shared.hpp:83`).
   `BootDataReady` shows that SDK code on the ARM9 is still safe.
2. With two callers of `setFastClock`, `isFastClock()` can stay wrong after
   both have returned (`clock.cpp:78`). The next call that meets no other puts it
   right (`CallTakesEffect`).
3. With `--mp` the two consoles' threads increment `g_saveWrites` without a lock
   (`platform.cpp:128`): save writes can be lost from the number the harness
   prints (`main.cpp:490`).

Remarks with no run of their own, each excepted by name in a property:

* The answers about heaps are settled after the first heap, not before it
  (`extram.cpp:80`; `dsi.hpp:9-10` says "before the first heap is created").
  `KeepsApi` shows the promise that game code can rely on.
* After a soft reset `SHARED_REPORT` stands for a moment beside a `value` that is
  SCFG_EXT7 (`boot7.cpp:44`), which the harness reads as no report.
* The pitch table is corrected where the module works in DSi mode (`twl7`: SCFG open
  and 16MB of RAM), while the BIOS is wrong wherever the console is in DSi mode
  (`bios7.cpp:5-9`, `docs/how-it-works.md:76-82`). In DSi mode with a smaller RAM
  limit, or with SCFG closed, the game plays out of tune. `InTune` says exactly that.
* On a boot whose ITCM arena has no room for the clock's stub, `isFastClock()`
  (`dsi.hpp:54`, "ARM9 running at 134MHz instead of 67MHz") says 67MHz whatever speed
  the launcher or the boot before has left (`clock.cpp:68-69`). `ClockTold` excepts
  those boots, and `CallTakesEffect` shows that a call then changes nothing.
* The harness checks only that a file can be opened. A short write or a failing
  `fclose` (`main.cpp:290-300`, `309-316`, `447-448`) leaves part of a file and exit
  code 0, with which `run.py:171` goes on. `SuccessMeansAllWritten` claims whole
  files only for a disk that has not failed.
* `bootstrap.sh` promises "everything a build needs, pinned" (line 1), and
  `README.md:65` that running it again "only redoes what changed". Two things that
  changed it does not redo, since it looks for `nitro.h` only (line 53): headers
  that a run left behind which broke off after `nitro.h` was copied and before they
  were converted, and headers converted by an older revision of NSMB-Code-Template
  than the one pinned now (lines 16-17). `DoneMeansReady` states both. Deleting
  `.deps/nitrosdk` repairs either. Nor does `EnvNamesWhatIsThere` or `RerunSucceeds`
  say that the headers are converted.

## 5. Proofs

### 5.1 The boot core

In `BootProtocolProofs`, from two assumptions about the constants:
`LayoutAssumption` (the header is the last range, the unit code is not in the
word of the CRC field, the game's words are not in the header) and
`RegisterAssumption` (types only). No size is fixed: `N`, `H`, the game's words and
the sets of registers are arbitrary.

The argument for a protocol without locks is an inductive invariant, `BootInv`:

* `CrcWordLast`: with the last word of the header in place, so is everything
  before it. This is what makes the header a sign that the copy was made.
* `HeaderBeforeExit`: no CPU is past its hook before that word is there; once it
  is, the card ID is there or someone is about to write it. With the handshake
  (`LabelsFit`: an ARM9 past OS_Init means an ARM7 past its hook) that someone
  is gone, and the card ID is there.
* `NoLateCopy`: while a word of the game's is in the area nobody copies, and
  the header matches, so nobody will. Safety of the first copy against a game
  that runs already rests on the handshake again.
* `CrcCheckFits`: a check that began on leftovers keeps a leftover byte in its
  sum; one that began on the new CRC field finds the new unit code and stops.
  This is why half a copy never passes for a loader's header, and it depends on
  the order in which the code reads CRC field, unit code and header.
* `RegistersTell`, `AnswersFit`, `OriginsFit`, `ProgressFits`, `BlockFits`,
  `RegionFits` tie registers, local variables, area, loop indices, block and
  region 1 to the launch.

The properties by themselves are not inductive: `BootDataReady` says nothing of a
CPU that is still comparing, `LoaderVerdict` nothing of one that is still
summing. `BootInv` is checked by `boot` and proved by one lemma per
action (`Step...`), with one step per part the action can disturb.

| Theorem | States |
|---|---|
| `BootInvariance` | `Spec => []BootInv` |
| `TypeCorrectness` | `Spec => []TypeOK` |
| `LoaderVerdictHolds` | both CPUs decide alike and rightly |
| `BootDataReadyHolds` | boot data complete past the hook, card ID past OS_Init |
| `SharedBlockTrustedHolds` | the block read is this boot's, and true |
| `TwlAreaMappedHolds` | the TWL area is mapped when used |
| `GameWordsSurviveHolds` | the game's words are never overwritten (action property) |
| `OthersUntouchedHolds` | SCFG and area left alone outside our mode, and a wide region 1 by the hook (action property) |
| `ImplementsBootSpec` | `Spec => Promise!Spec`, the refinement of `BootSpec` without its fairness |
| `MusicInTune` | the pitch table is read where it is, exactly if DSi mode goes with the module's |

### 5.2 What the boot core presumes

`BootProtocol` numbers the words of the boot area and lets a sum match only bytes
written together. `CopyAsNumbered` and `SumTells` say what of this the code gives,
and `BootProtocolProofs` proves both, from no assumption.

*The copy.* `RangesCopied` is a function on the number of ranges, so its values are
its five equations (`RangesCopiedSteps`). Each range continues the numbering where
the one before ended (`RangeAppended`), and so `Written` is the numbering itself
(`WrittenInOrder`); that no word of it is another's is arithmetic over it.

*The checksum.* The theorems are about messages of any length, so they need
induction. The library's induction theorems take an operator; here `Induction` is
stated for a set, from the well-foundedness of `<`, and `Recursion` gives a
recursive definition on the naturals its function. With them
`headerCrc16` is a run of single bits (`IsRun`, `CrcRuns`): bit by bit, the message
enters the register at its low end.

* `CrcIsRemainder`: behind `p` bits the register, reversed, is what is left of the first
  `p` bits as a polynomial (`RunDivides`). Each further bit multiplies by x and
  perhaps adds x^16 (`Horner`), and a step of the loop does the same to what is
  left (`StepDivides`). `Residue` is additive (`ResidueAdd`), since a symmetric
  difference has an odd number of terms exactly when one of the two has
  (`OddSymDiff`).
* `CrcFindsBursts`: a zero or one that goes in can be told from the register it leaves
  (`CrcBitInjective`). So two accepted headers, whose registers are both clear behind the
  field (`AcceptedClears`), have had the same register since their last
  difference and before their first (`SameBits`), and sixteen bits between equal
  registers are equal bits (`BurstShows`).
* `ClearedIsNoHeader`: a zero bit clears no register that is not clear (`ClearStays`).

| Theorem | States |
|---|---|
| `NumberingSound` | the numbering of the boot area's words is injective and spares what others own |
| `CopyAsNumberedHolds` | the copy writes the numbered words, in order, and no others |
| `CrcIsRemainder` | `headerCrc16` is CRC-16, for every message |
| `CrcFindsBursts` | of two headers that differ within sixteen bits, at most one is accepted, whatever their length |
| `ClearedIsNoHeader` | cleared memory of any size is no header |
| `SumTellsHolds` | `SumTells`, from the three above |

### 5.3 The clock

`ClockProofs` assumes that the boot stage is not one of the game's callers and that
the arena's room is a number; there may be any number of callers. `NeverCallsNull` by
itself is not inductive: a caller whose own installation failed stores a null that
another is about to jump to. `StubSettled` excludes it: after the boot stage's call,
which nobody meets (`BootAlone`), either there is a stub and nobody installs one, or
there is no room and nobody has got one (`BootKeeps`, `StubWhenUsed`).
`CallTakesEffect` needs `LastAlone` (a call that has met no other is the only one
under way), `LastProgress` (what it has done at each of its places) and `Unswitched`
(as long as there is no stub, clock and answer are as the boot stage found and put
them, whoever has called).

| Theorem | States |
|---|---|
| `StubNeverNull` | nobody jumps to a null stub |
| `LoneCallTakesEffect` | a call that met no other has its effect, or without a stub none, and says so |
| `OtherClocksUntouched` | in DS mode and under a loader nothing changes (action property) |

### 5.4 The log

`LogProofs` assumes a buffer of two bytes or more (`LogAssumption`). Its invariant
adds `LastIsNul` to the types: the last byte, in cache and in memory, is always
NUL, because text and newline stay below it (`FillsFit`, `ClampFits`) and only
the final NUL may fall on it. `EndsInBuffer` by itself is not inductive: which
NUL ends the string changes with every interruption, and the last byte is the
one that all callers leave alone.

`LineWhole` is about a line after any number of garbled ones. `LineInv` adds that a
caller who has met no other is the only one inside (`Alone`), that the newline goes
where the text was cut (`Cut`), and which bytes of its line such a caller has in
place at each step (`Stored`). Nothing is said of the bytes behind the NUL, where
an earlier, longer line still stands.

| Theorem | States |
|---|---|
| `LogTypeCorrect` | no store leaves the buffer |
| `LogEndsInBuffer` | what the emulator is handed ends in the buffer |
| `LogLineWhole` | a line that met no other is printed whole |

### 5.5 The semaphore

`ToolsProofs` assumes of it only that `NoThread` is no thread and that the bounds are
numbers. `NothingLost` needs `Mutex` (who is between lock and unlock holds the
mutex, and nobody else) and `FoundIsThere` (a count that was found is there
until it is taken). `NoLostWakeup` is inductive beside the types: sleep needs an
empty semaphore, filling it leaves a notification pending, and that wakes all.

| Theorem | States |
|---|---|
| `SemaphoreNothingLost` | every count posted is taken, there, or reset away |
| `SemaphoreNoLostWakeup` | nobody sleeps on a count without a notification to come |

### 5.6 The boot stages and the check of them

`StagesProofs` assumes of the constants what `ArenaAssumption` says: an arena of the
SDK's lies in main RAM below what the ARM7 and the shared area own, and SCFG is
open in DSi mode; of a heap's header it assumes one byte to one page
(`HeaderAssumption`). Which arenas, which protected registers, which layouts at
power-on and which components are arbitrary. The invariant, `StagesInv`, says of
each resource how far it has come at each stage (`ConsoleFits`, `ClockFits`,
`ArenaFits`, `HeapsFit`, `NwramFits`, `RegionFits`); the properties speak of the heaps
alone and are not inductive, since a heap is only as good as the arena set aside
two stages earlier and the registers set four stages earlier. The rounding of
`makeHeap` is a lemma of its own (`HeapSpanInside`). `NwramFits` rests on the first
register that fails: it does not hold the layout and is not changed, so not all do.

`HeapsMapped` needs `RegionFits`: region 1 is restored after the registers were set
and before any heap is made, and `state.region1` is 32MB exactly when there can be
a heap in NWRAM. That one bank answers each page of NWRAM (`OneAnswer`, `WindowTiled`)
is arithmetic over the real slot values: which byte of MBK1-5 says which bank and
which offset, and that no two say the same (`AnswersDiffer`).

`ChecksTell` has two directions. `PassIsWhole`: a boot that passes has what it should.
`WholeIsPass`: a boot that has it passes, since rounding costs a heap less than 64
bytes (`RoundedLoss`) and its header at most a page, which the thresholds allow for.

| Theorem | States |
|---|---|
| `StagesInvHolds` | `Spec => []StagesInv` |
| `HeapsApartHolds` | the four heaps share nothing with one another or with others' memory |
| `HeapsMappedHolds` | every byte of every heap is in the region 1 the game has |
| `NothingOfOthersHolds` | on a DS and under a loader nothing is added, and slot registers, window and clock stay (action property) |
| `ClockToldHolds` | `isFastClock()` tells the clock on every boot that has the stub, and 67MHz on one that has not |
| `NwramComesBackHolds` | NWRAM is there when its registers hold the layout, and only then |
| `NwramAllOrNothingHolds` | NWRAM stands on every register and has one bank behind each page |
| `ImplementsApi` | `Spec => KeepsApi`, the refinement of `Api` |
| `ChecksTellHolds` | `check()` passes what is whole, and nothing else |

### 5.7 The report

`ReportProofs` assumes a ring of at least one slot (`WindowAssumption`), and that works
and free amounts are numbers (`FiguresAssumption`). Any ring, any set of heaps, a game
of any length. `HarnessReadsThisBoot` speaks of what is in memory, while the code
writes to the cache; `ReportInv` says field by field what the block is at each step
(`BlockFits`) and what of the report is in memory whatever the cache has done
(`CopyFits`). `FiguresTold` needs `ClockFits` (the start of the frame is what the work
is measured from) and `RingFits`: slot `(n - 1) % Window` holds frame `n` as long as no
frame a whole ring later has worked, since numbers closer than a ring have slots
of their own (`ModApart`). `LowestFits` bounds each heap's samples from
below and keeps the last of them.

| Theorem | States |
|---|---|
| `ReportInvHolds` | `Spec => []ReportInv` |
| `HarnessReadsThisBootHolds` | the reader finds this boot's report, complete, or none |
| `FiguresToldHolds` | ring, lowest and last values are those of the frames run |

### 5.8 The logo

`MegaLogoProofs` assumes that the room in a heap is a number (`MaxRoomAssumption`). The
properties speak of single moments, and none is inductive: that the archive does
not dangle at `DestroyHeap` depends on what was released before. `LogoInv` says what
is held at every step (`ScenesFit`), that each thing held stands on the one below
(`HeldFits`), and that exactly what is held is owed (`DebtFits`).

| Theorem | States |
|---|---|
| `LogoInvHolds` | `Spec => []LogoInv` |
| `ArchiveNeverDanglesHolds` | files of the archive are in memory that is held |
| `AllGivenBackHolds` | nothing is owed when the scene is over or the ding plays |
| `PlaysOnlyWhatIsLoadedHolds` | the Mega Mushroom sounds when, and only when, it is loaded |

### 5.9 The harness

`HarnessProofs` assumes that the first console is one of the consoles, and that
`--frames` is less than the largest frame number (`HarnessAssumption`), none
included: with `--frames 4294967295` the loop's `frame <= frames` never ends. Presses, touches and
files are arbitrary. The invariant, `HarnessInv`, ties each thread's place to how many
frames its console has run (`FramesFit`), main()'s place to the threads'
(`ThreadsFit`), the files on disk to the frames behind and to the disk (`FilesFit`:
only the file of the step under way is open, and a closed one is of its frame), a due background
to the sprites it is taken without (`SpritesFit`), and the keys to the frame they were
set for (`InputFits`). `SuccessMeansAllWritten` by itself speaks only of the end.

`PlayedAsScriptedHolds` has a hypothesis, `NoPressWraps`: no press's `frame + hold`
passes the largest frame number. The code adds both in 32 bits (`main.cpp:408`), and
a press that wraps is never held; the runs' scripts stay within, too.

| Theorem | States |
|---|---|
| `HarnessInvHolds` | `Spec => []HarnessInv` |
| `SuccessMeansAllWrittenHolds` | behind `play()` every console is done, and every file is closed, of its frame, and whole if the disk is |
| `PlayedAsScriptedHolds` | every frame has the keys of the presses that cover it |
| `OneConsoleCountsItsSaves` | finding 3 takes two consoles: one alone counts its saves |
| `OpensAsAskedHolds` | `OpenFile` does what its flags say, whatever C's mode string makes of it |

### 5.10 The set-up script

`ToolsProofs` assumes of it that the bounds on pins and failures are numbers; there may be
any number of either. Both properties speak of the end of a run and are not inductive,
because the script trusts what earlier runs have left. `ScriptInv` says of each place in
the script what is behind it at the revision pinned (`StepsDone`: no pin moves while
a run is under way) and in which states the headers can be (`HeadersFit`: they
are copied over nothing that has `nitro.h`, with this version's converter checked
out; with `nitro.h` there, they are unconverted, or converted by another converter
than that of the version that copied them, only after a run was broken off). `EnvNamesWhatIsThere` rests on `HeadersFit`: the copy only runs while
there is no `nitro.h`, and then no `.ncpatcher.env` is written that it could belie;
the conversion keeps `nitro.h`.

| Theorem | States |
|---|---|
| `DoneMeansReadyHolds` | "Done" means that tool, reference and harness are as pinned, and the headers converted as pinned when copied, unless a run broke off on the way |
| `EnvNamesWhatIsThereHolds` | a written `.ncpatcher.env` names directories that are there |

### 5.11 Only model-checked

* Liveness (`BootCompletes`, `PostedIsTaken`, `ProcessEnds`, `RerunSucceeds`), which is
  out of the prover's reach, and with it the fairness of `BootSpec`: that the boot
  implements it is proved step by step, that it does so fairly is checked by `boot`.
* The three expected violations, which are counterexamples.

## 6. Premises

* Two CRC-16 sums over bytes of different origin do not happen to match, and
  leftovers are not by chance a valid DS header.
* Both CPUs' SCFG registers tell of the same launch; in DSi mode the console has
  the DSi's sound hardware (SNDEXCNT).
* The NTR system area is seen alike by both CPUs, each access whole.
* The launcher does not leave the header of this very title from an earlier
  session in the NTR area. (If it did, the code would take the boot for a soft
  reset; see the hazards.)
* The game resets both CPUs only when both are running game code.

## 7. Plan

Done so far, in this order: `TwlRegs`, `Mpu`, `BootProtocol` with `BootSpec`, its
invariant and proofs, `BootRanges`, `Stages`, `Report`, `MegaLogo`, `Clock`, `Log` and
`Semaphore` with their proofs, `Pitch`, `Harness`, `HeaderCrc`, `Api`, `NwramLayout`,
`Checks`, `Files`, `Setup`, the proofs about `Stages` and `Checks`, the whole line of `Log`,
the proofs about `Report`, `MegaLogo` and `Harness`, and those about the copy loops, the
checksum, `Files` and `Setup`.

No invariant is left unproved. What a later extension would take up is what
section 8 lists, above all the argument block that `setArgv` leaves for the game.

## 8. Not modelled

* What heaps, sounds, frames and files contain; wording of log lines and of the
  harness's output; image and sound comparison (`run.py`).
* The harness's arguments (`parse`) and the argument block `setArgv` leaves for
  the game; its mutexes and threads, which forward to the C++ library; freeing a
  semaphore that is still in use.
* What `run.py` does besides `check()`: starting the harness, scenarios, pictures.
* What git, CMake and the header converter do inside a step of `bootstrap.sh`.
* Build configuration (`module.yaml`, `ncpatcher.yaml`, CMake): which components
  are built in is a choice in `Stages` and `Clock`.
* Caches of the ARM9 for the system area, which is not cached, and instruction
  timing (the stub's eight cycles).
