------------------------------- MODULE Checks --------------------------------
(***************************************************************************)
(* What the harness's front end holds against every build (check() in      *)
(* tools/harness/run.py), applied to the report that the stages' end state *)
(* gives.  That the report is this boot's and the block's magic is there   *)
(* are Report's and BootProtocol's; that frames are counted is Report's.   *)
(***************************************************************************)
EXTENDS Stages

CONSTANT HeapHeader    \* bytes of a heap that go before its first block

ASSUME HeaderAssumption == HeapHeader \in 1 .. 4096

\* What describe() puts in the report for a heap, and the ARM7's flags.
SizeOf(h)  == IF h = None THEN 0 ELSE h.hi - h.lo - HeapHeader
StartOf(h) == IF h = None THEN 0 ELSE h.lo + HeapHeader
Flags7 ==
  (IF snd THEN {"DSI_CONSOLE"} ELSE {})
    \cup (IF twl THEN {"TWL_MODE", "BOOT_AREA_OK"} ELSE {})
    \cup (IF loader THEN {"LOADER"} ELSE {})

PassesAsDs ==
  /\ ~ twl /\ Flags7 = {}
  /\ region1 = REGION1_4MB
  /\ rootHeap.lo < \h02400000
  /\ extendedHeap = None /\ lowHeap = None /\ nwramHeap = None

\* Mutants: the sizes are compared with those of the whole areas; the extended
\* and the low heap are taken together.
LargeEnoughWhole ==
  /\ SizeOf(rootHeap) >= \h7E0000 /\ SizeOf(extendedHeap) > 4000000
  /\ SizeOf(lowHeap) > 2000000 /\ SizeOf(nwramHeap) > 780000
LargeEnoughTogether ==
  /\ SizeOf(rootHeap) > 7800000 /\ SizeOf(extendedHeap) + SizeOf(lowHeap) > 4000000
  /\ SizeOf(nwramHeap) > 780000
LargeEnough ==
  /\ SizeOf(rootHeap) > 7800000 /\ SizeOf(extendedHeap) > 4000000
  /\ SizeOf(lowHeap) > 2000000 /\ SizeOf(nwramHeap) > 780000

PassesAsDsi ==
  /\ twl /\ Flags7 = {"DSI_CONSOLE", "TWL_MODE", "BOOT_AREA_OK"}
  /\ ~ loader /\ console
  /\ ext9 = {31, 25, 24, 18, 17, 16, 15, 14}           \* 0x8307C000
  /\ rootHeap.lo = \h02800000
  /\ StartOf(rootHeap) + SizeOf(rootHeap) <= \h02FE0000
  /\ LargeEnough
  /\ fastClock

-----------------------------------------------------------------------------
AllIn  == on = {"NWram", "FastClock", "ExtendedRam"}
AllGot ==
  stubFits /\ \A h \in {rootHeap, extendedHeap, lowHeap, nwramHeap} : h # None

\* A report that passes as a DSi's was made by a build with every component,
\* started by the launcher, that got all four heaps whole and in working
\* memory and the clock's stub, and runs at 134MHz; one that passes as a DS's by a boot outside DSi
\* mode that was given nothing and whose region 1 is the SDK's.
PassMeansWhole ==
  pc = "report" =>
    /\ PassesAsDsi =>
         /\ launch = "launcher" /\ AllIn /\ AllGot /\ clk
         /\ rootHeap = [lo |-> DSI_ROOT_HEAP_START, hi |-> DSI_ROOT_HEAP_END]
         /\ works /\ AllOurs(mbk) /\ window /\ region1 = REGION1_32MB
    /\ PassesAsDs => launch = "ds" /\ ~ console /\ extendedRam = FALSE

\* A full build that the launcher started and that lacks nothing passes as a
\* DSi's, whatever the game's binary leaves of the low arena above 2MB; a DS
\* boot on a retail console as a DS's.
WholePasses ==
  pc = "report" =>
    /\ launch = "launcher" /\ AllIn /\ AllGot /\ low.hi - low.lo > \h1F0000
         /\ ext9 = {31, 25, 24, 18, 17, 16, 15, 14} => PassesAsDsi
    /\ launch = "ds" /\ ~ snd /\ region1 = REGION1_4MB => PassesAsDs

\* The harness's verdict (check() in run.py) is right in both directions.
ChecksTell == PassMeansWhole /\ WholePasses

==============================================================================
