------------------------------- MODULE Stages -------------------------------
(***************************************************************************)
(* What the ARM9 does between the core's mode detection and the game's     *)
(* first frame: OS_Init, DSi_afterOsInit, the root heap, DSi_afterRootHeap *)
(* and the stages the components NWram, FastClock and ExtendedRam add to   *)
(* them (source9/core/boot9.cpp, source9/nwram, source9/fastclock,         *)
(* source9/extram), then the running game, boot after boot.  What comes    *)
(* before, DSi_bootArm9, is BootProtocol's; a call of setFastClock is one  *)
(* step here and module Clock's there.                                     *)
(*                                                                         *)
(* Addresses are bytes; a heap or an arena is the interval [lo, hi).       *)
(***************************************************************************)
EXTENDS Integers, TwlRegs, Mpu, NwramLayout

CONSTANTS
  ArenasLeft,      \* what OS_Init can leave as the main arena on an NTR layout
  LoaderArenas,    \* the same under a loader, which makes the SDK use 8MB
  Protections,     \* values of MBK9, as the set of MBK1-5 it protects
  MbkFound,        \* which of MBK1-5 hold the module's layout at power-on
  Ext9Kept         \* values of SCFG_EXT9 in DSi mode, as DSi_bootArm9 leaves it

Slots   == 1 .. 5                  \* MBK1 .. MBK5, the slot registers
None    == [lo |-> 0, hi |-> 0]    \* a null pointer
Spans   == [lo : Nat, hi : Nat]
IsHeap(h) == h \in Spans /\ h.lo <= h.hi

DSI_ROOT_HEAP_START == \h02800000
DSI_ROOT_HEAP_END   == \h02FE0000
DSI_EXT_HEAP_START  == \h02400000
DSI_EXT_HEAP_END    == \h027E0000
NWRAM               == [lo |-> BASE, hi |-> BASE + SIZE]

ASSUME ArenaAssumption ==
  /\ ArenasLeft \subseteq Spans /\ LoaderArenas \subseteq Spans
  /\ \A a \in ArenasLeft : \h02000000 < a.lo /\ a.lo < a.hi /\ a.hi <= \h023E0000
  /\ \A a \in LoaderArenas : \h02000000 < a.lo /\ a.lo < a.hi /\ a.hi <= \h027C0000
  /\ Protections \subseteq SUBSET Slots /\ MbkFound \subseteq SUBSET Slots
  /\ \A e \in Ext9Kept : e \subseteq Bits /\ ScfgUnlocked(e)

VARIABLES
  on,           \* components built into the game
  launch,       \* who started the console: "ds", "launcher" or "loader"
  snd,          \* DSi or 3DS hardware, as the ARM7 tells
  ext9,         \* SCFG_EXT9
  protect,      \* MBK9
  works,        \* the console really backs the window with NWRAM
  mbk,          \* MBK1-5: "ours" when they hold the module's layout
  window,       \* MBK6-8 hold the module's layout
  region1,      \* protection region 1
  keep1,        \* state.region1
  mapped,       \* nwram.cpp's `mapped`
  arena,        \* the main arena
  low,          \* extram.cpp's lowStart, lowEnd
  rootHeap,     \* Memory::rootHeapPtr
  console, extendedRam, extendedHeap, lowHeap, nwramHeap,   \* state's answers
  clk,          \* SCFG_CLK bit 0
  fastClock,    \* state.fastClock
  stubFits,     \* the ITCM arena OS_Init has made has room for the clock's stub
  pc

world   == <<on, launch, snd, ext9, protect, works>>
nw      == <<mbk, window, mapped>>
mpu     == <<region1, keep1>>
answers == <<console, extendedRam, extendedHeap, lowHeap, nwramHeap>>
clock   == <<clk, fastClock, stubFits>>
vars    == <<world, nw, mpu, arena, low, rootHeap, answers, clock, pc>>

\* DSi_bootArm9's answers, right by BootProtocol's LoaderVerdict.
twl     == launch # "ds"
loader  == launch = "loader"
granted == SCFG_EXT_NWRAM \in ext9

\* The module's own resources: DSi mode, and not a loader's.
Ours == twl /\ ~ loader
Kept == IF loader THEN REGION1_32MB ELSE REGION1_16MB

\* Region 1 and state.region1 when DSi_bootArm9 is done.
BootRegion == IF twl THEN Kept ELSE REGION1_8MB
BootKeep   == IF twl THEN Kept ELSE [on |-> FALSE, base |-> 0, size |-> 0]

Init ==
  /\ on \in SUBSET {"NWram", "FastClock", "ExtendedRam"}
  /\ launch \in {"ds", "launcher", "loader"} /\ snd \in {twl, TRUE}
  /\ ext9 \in IF twl THEN Ext9Kept ELSE {{}}
  /\ protect \in IF twl THEN Protections ELSE {{}}
  /\ works \in {twl, FALSE} /\ clk \in {twl, FALSE}
  /\ \E found \in IF twl THEN MbkFound ELSE {{}} :
       mbk = [s \in Slots |-> IF s \in found THEN "ours" ELSE "other"]
  /\ window \in {twl, FALSE}
  /\ region1 = BootRegion /\ keep1 = BootKeep
  /\ mapped = FALSE
  /\ arena = None /\ low = None /\ rootHeap = None
  /\ console = FALSE /\ extendedRam = FALSE /\ fastClock = FALSE
  /\ extendedHeap = None /\ lowHeap = None /\ nwramHeap = None
  /\ stubFits = FALSE
  /\ pc = "osInit"

(***************************************************************************)
(* OS_Init: fills in the arena, makes the ITCM arena and, when it believes *)
(* the console is retail, shrinks region 1.  A loader has patched that.    *)
(***************************************************************************)
OsInit ==
  /\ pc = "osInit"
  /\ arena' \in IF loader THEN LoaderArenas ELSE ArenasLeft
  /\ region1' \in IF loader THEN {region1} ELSE {region1, REGION1_4MB}
  /\ stubFits' \in BOOLEAN
  /\ pc' = "findConsole"
  /\ UNCHANGED <<world, nw, keep1, low, rootHeap, answers, clk, fastClock>>

\* DSi_afterOsInit starts with the console; the shared block is this boot's.
FindConsole ==
  /\ pc = "findConsole"
  /\ console' = (twl \/ snd)
  /\ pc' = "nwramInit"
  /\ UNCHANGED <<world, nw, mpu, arena, low, rootHeap, extendedRam, extendedHeap,
                 lowHeap, nwramHeap, clock>>

(***************************************************************************)
(* DSi_nwramInit.  assignSlots() takes the slot registers in order and     *)
(* stops at the first it cannot set: closed by MBK9, or not keeping what   *)
(* is written to it.                                                       *)
(***************************************************************************)
\* Mutant: a closed register is noticed even when it already holds the layout.
PassesIfOpen(s) == s \notin protect
Passes(s)       == mbk[s] = "ours" \/ s \notin protect

\* The registers passed before the first failure; kept is those that keep what
\* is written to them.
Assigned(kept) ==
  {s \in Slots : \A q \in 1 .. s : Passes(q) /\ (mbk[q] = "ours" \/ q \in kept)}

AllOurs(m) == \A s \in Slots : m[s] = "ours"

\* Mutant: the window is set up whether or not assignSlots() succeeded.
ProceedsAnyway(done) == done \subseteq Slots
Proceeds(done)       == done = Slots

\* probe() reads back what it wrote when every bank is in its slot.
ProbeFinds == works /\ AllOurs(mbk')

NwramInit ==
  /\ pc = "nwramInit"
  /\ IF Ours /\ "NWram" \in on /\ granted
     THEN \E kept \in {Slots} \cup {Slots \ {s} : s \in Slots} :
            LET done == Assigned(kept) IN
              /\ mbk' = [s \in Slots |-> IF s \in done THEN "ours" ELSE mbk[s]]
              /\ IF Proceeds(done)
                 THEN /\ window' = TRUE
                      /\ keep1' = REGION1_32MB /\ region1' = REGION1_32MB
                      /\ mapped' = ProbeFinds
                 ELSE UNCHANGED <<window, mapped, mpu>>
     ELSE UNCHANGED <<nw, mpu>>
  /\ pc' = "restoreRegion"
  /\ UNCHANGED <<world, arena, low, rootHeap, answers, clock>>

\* Mutant: region 1 is left as OS_Init made it.
RestoredOnlyLoader == IF loader THEN keep1 ELSE region1
Restored           == IF twl THEN keep1 ELSE region1

RestoreRegion ==
  /\ pc = "restoreRegion"
  /\ region1' = Restored
  /\ pc' = "clockInit"
  /\ UNCHANGED <<world, nw, keep1, arena, low, rootHeap, answers, clock>>

\* DSi::setFastClock, whole, with nobody calling in between.  The boot stage's
\* call, the first one, gets the stub if there is room; without one every call
\* of this boot returns before it touches anything.
SetsFastClock(enable) ==
  /\ IF Ours /\ ScfgUnlocked(ext9) /\ stubFits
     THEN clk' = enable /\ fastClock' = enable
     ELSE UNCHANGED <<clk, fastClock>>
  /\ UNCHANGED stubFits

\* Mutant: a loader's clock is taken for the one a DS has.
ReadsLoadersClockNot == FALSE
ReadsLoadersClock    == clk

\* DSi_clockInit switches up; without FastClock the core switches down.
ClockInit ==
  /\ pc = "clockInit"
  /\ CASE ~ twl -> UNCHANGED clock
       [] loader -> fastClock' = ReadsLoadersClock /\ UNCHANGED <<clk, stubFits>>
       [] Ours -> SetsFastClock("FastClock" \in on)
  /\ pc' = "beforeRootHeap"
  /\ UNCHANGED <<world, nw, mpu, arena, low, rootHeap, answers>>

\* DSi_extramBeforeRootHeap.
BeforeRootHeap ==
  /\ pc = "beforeRootHeap"
  /\ IF Ours /\ "ExtendedRam" \in on
     THEN /\ low' = arena
          /\ arena' = [lo |-> DSI_ROOT_HEAP_START, hi |-> DSI_ROOT_HEAP_END]
     ELSE UNCHANGED <<low, arena>>
  /\ pc' = "initRootHeap"
  /\ UNCHANGED <<world, nw, mpu, rootHeap, answers, clock>>

\* Memory::initRootHeap, the game's: the whole arena, or a null pointer.
InitRootHeap ==
  /\ pc = "initRootHeap"
  /\ rootHeap' \in {arena, None}
  /\ pc' = "afterRootHeap"
  /\ UNCHANGED <<world, nw, mpu, arena, low, answers, clock>>

(***************************************************************************)
(* DSi_afterRootHeap.  makeHeap() rounds a span inwards to 32 bytes; what  *)
(* it asks the allocator for, it may not get.                              *)
(***************************************************************************)
RoundUp(n)   == ((n + 31) \div 32) * 32
RoundDown(n) == (n \div 32) * 32

\* Mutants: both ends are rounded up; no span is too small.
HeapSpanUp(span) ==
  LET s == RoundUp(span.lo)
      e == RoundUp(span.hi)
  IN  IF e <= s + \h1000 THEN None ELSE [lo |-> s, hi |-> e]
HeapSpanAnySize(span) == [lo |-> RoundUp(span.lo), hi |-> RoundDown(span.hi)]
HeapSpan(span) ==
  LET s == RoundUp(span.lo)
      e == RoundDown(span.hi)
  IN  IF e <= s + \h1000 THEN None ELSE [lo |-> s, hi |-> e]

ExtSpan == [lo |-> DSI_EXT_HEAP_START, hi |-> DSI_EXT_HEAP_END]

\* Mutant: the spare heaps are made whoever owns the memory.
ExtendsAlways == "ExtendedRam" \in on /\ twl
Extends       == "ExtendedRam" \in on /\ Ours

AfterRootHeap ==
  /\ pc = "afterRootHeap"
  /\ IF Extends
     THEN /\ extendedRam' = (rootHeap # None)
          /\ IF rootHeap # None
             THEN /\ extendedHeap' \in {HeapSpan(ExtSpan), None}
                  /\ lowHeap' \in {HeapSpan(low), None}
             ELSE UNCHANGED <<extendedHeap, lowHeap>>
     ELSE UNCHANGED <<extendedRam, extendedHeap, lowHeap>>
  /\ IF Ours /\ "NWram" \in on /\ mapped
     THEN nwramHeap' \in {NWRAM, None}
     ELSE UNCHANGED nwramHeap
  /\ pc' = "report"
  /\ UNCHANGED <<world, nw, mpu, arena, low, rootHeap, console, clock>>

\* DSi_collectReport, of module Report, sees what is there now.
ReportDone ==
  /\ pc = "report" /\ pc' = "game"
  /\ UNCHANGED <<world, nw, mpu, arena, low, rootHeap, answers, clock>>

\* The running game, or another module, calls DSi::setFastClock.
GameSetsClock ==
  /\ pc = "game"
  /\ \E enable \in BOOLEAN : SetsFastClock(enable)
  /\ UNCHANGED <<world, nw, mpu, arena, low, rootHeap, answers, pc>>

\* OS_ResetSystem: the program is loaded again, its variables clear, and
\* DSi_bootArm9 has run; the NWRAM and clock registers stay.
SoftReset ==
  /\ pc = "game"
  /\ region1' = BootRegion /\ keep1' = BootKeep
  /\ mapped' = FALSE
  /\ arena' = None /\ low' = None /\ rootHeap' = None
  /\ console' = FALSE /\ extendedRam' = FALSE /\ fastClock' = FALSE
  /\ extendedHeap' = None /\ lowHeap' = None /\ nwramHeap' = None
  /\ stubFits' = FALSE
  /\ pc' = "osInit"
  /\ UNCHANGED <<world, mbk, window, clk>>

Next ==
  \/ OsInit \/ FindConsole \/ NwramInit \/ RestoreRegion \/ ClockInit
  \/ BeforeRootHeap \/ InitRootHeap \/ AfterRootHeap \/ ReportDone
  \/ GameSetsClock \/ SoftReset
Spec == Init /\ [][Next]_vars

-----------------------------------------------------------------------------
(***************************************************************************)
(* Properties.                                                             *)
(***************************************************************************)

Heaps == {rootHeap, extendedHeap, lowHeap, nwramHeap} \ {None}
Apart(a, b) == a.hi <= b.lo \/ b.hi <= a.lo

\* Memory that stays with others in DSi mode: region 2's guard, the ARM7 and
\* the shared area, the launcher's data.
Reserved == {[lo |-> \h023E0000, hi |-> \h02400000],
             [lo |-> \h027E0000, hi |-> \h02800000],
             [lo |-> \h02FE0000, hi |-> \h03000000]}

\* The four heaps share no byte with one another or with what others own, none is
\* of a size that has wrapped, and the spare heap keeps within the arena the SDK
\* had measured out.
HeapsApart ==
  Ours =>
    /\ \A a \in Heaps : IsHeap(a)
    /\ \A a, b \in Heaps : a = b \/ Apart(a, b)
    /\ \A a \in Heaps, b \in Reserved : Apart(a, b)
    /\ lowHeap # None => low.lo <= lowHeap.lo /\ lowHeap.hi <= low.hi

\* Every heap the game is given lies inside what region 1 lets it touch, from
\* the root heap's creation on.
HeapsMapped ==
  twl => \A h \in Heaps : \h02000000 <= h.lo /\ h.hi <= \h02000000 + 2^(region1.size + 1)

\* NWRAM is all or nothing: a heap there means every bank is in its slot, the
\* window is mapped and open to the ARM9, and the registers' values put exactly one
\* bank behind every page of the heap.  Slots assigned before one that could not
\* be open nothing.
NwramAllOrNothing ==
  /\ nwramHeap # None =>
       /\ AllOurs(mbk) /\ window /\ works /\ granted
       /\ Tiled(nwramHeap.lo, nwramHeap.hi)
  /\ Ours /\ pc = "game" /\ ~ AllOurs(mbk) =>
       nwramHeap = None /\ region1 = REGION1_16MB

\* A console set up with the same layout before, by the launcher or an earlier
\* boot, keeps its NWRAM however MBK9 protects it.
NwramComesBack ==
  pc \notin {"osInit", "findConsole", "nwramInit"}
    /\ Ours /\ "NWram" \in on /\ granted /\ works
    => (mapped <=> AllOurs(mbk))

NothingAdded ==
  /\ ~ extendedRam /\ extendedHeap = None /\ lowHeap = None /\ nwramHeap = None
  /\ rootHeap \in {None} \cup (IF loader THEN LoaderArenas ELSE ArenasLeft)

\* Under a loader and outside DSi mode no step of any boot adds a resource or
\* makes another root heap than the SDK's, and none changes the slot registers,
\* the window or the clock (DSi_afterOsInit, DSi_afterRootHeap).
NothingOfOthers ==
  [][~ Ours => NothingAdded' /\ UNCHANGED <<mbk, window, clk>>]_vars

\* isFastClock() tells the clock truly once the game runs, on every boot: after
\* a reset that leaves 134MHz behind, in a build without FastClock, and under a
\* loader that has chosen it (DSi_afterOsInit).  The exception is a boot whose
\* ITCM arena had no room for the stub: it says 67MHz, and the clock is what the
\* launcher or the boot before left.
ClockTold == pc = "game" => (fastClock <=> clk /\ (Ours => stubFits))

(***************************************************************************)
(* The answers as the game sees them: none before it runs.                 *)
(***************************************************************************)
Up == pc = "game"
Answers ==
  [isConsole |-> Up /\ console, isTwlMode |-> Up /\ twl, isLoaderBoot |-> Up /\ loader,
   hasExtendedRam |-> Up /\ extendedRam, extendedHeap |-> Up /\ extendedHeap # None,
   lowHeap |-> Up /\ lowHeap # None, nwramHeap |-> Up /\ nwramHeap # None]

Promised == INSTANCE Api WITH
  mode <- launch, up <- Up, answers <- Answers, fast <- Up /\ fastClock

\* The stages implement what dsi.hpp says of its queries.
KeepsApi == Promised!Spec

==============================================================================
