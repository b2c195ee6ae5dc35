---------------------------- MODULE StagesProofs ----------------------------
(***************************************************************************)
(* Theorems about the boot stages, for every arena the SDK can leave,      *)
(* every protection of the slot registers and every component set.  The    *)
(* invariant says how far each resource has come at each stage; what is    *)
(* there when the game runs follows from the last stage alone.             *)
(***************************************************************************)
EXTENDS Checks, TLAPS, SequenceTheorems

\* The stages, by how far the boot is.
BeforeNwram == {"osInit", "findConsole", "nwramInit"}
BeforeClock == BeforeNwram \cup {"restoreRegion", "clockInit"}
BeforeRoot  == BeforeClock \cup {"beforeRootHeap"}
BeforeHeaps == BeforeRoot \cup {"initRootHeap", "afterRootHeap"}
Labels      == BeforeHeaps \cup {"report", "game"}

SdkArenas == IF loader THEN LoaderArenas ELSE ArenasLeft
RootSpan  == [lo |-> DSI_ROOT_HEAP_START, hi |-> DSI_ROOT_HEAP_END]

TypeOK ==
  /\ launch \in {"ds", "launcher", "loader"} /\ snd \in BOOLEAN /\ works \in BOOLEAN
  /\ mbk \in [Slots -> {"ours", "other"}] /\ mapped \in BOOLEAN
  /\ console \in BOOLEAN /\ extendedRam \in BOOLEAN
  /\ clk \in BOOLEAN /\ fastClock \in BOOLEAN /\ stubFits \in BOOLEAN
  /\ pc \in Labels

\* What was built and where it runs does not change.
WorldFits == on \in SUBSET {"NWram", "FastClock", "ExtendedRam"} /\ (twl => snd)

\* The console is found in the second stage and stays found.
ConsoleFits ==
  console <=> pc \notin {"osInit", "findConsole"} /\ (twl \/ snd)

\* Only DSi mode has a clock to switch, and the clock stage makes the answer
\* agree with it, and the clock with what was built in; without a stub the
\* answer stays 67MHz.
ClockFits ==
  /\ twl => ScfgUnlocked(ext9)
  /\ ~ twl => ~ clk
  /\ fastClock <=> pc \notin BeforeClock /\ clk /\ (Ours => stubFits)
  /\ Ours /\ stubFits /\ pc \notin BeforeClock \cup {"game"} =>
       (clk <=> "FastClock" \in on)

\* The arena is the SDK's until the root heap's stage puts it aside.
ArenaFits ==
  /\ pc = "osInit" => arena = None
  /\ pc \in BeforeRoot \ {"osInit"} => arena \in SdkArenas
  /\ pc \in BeforeRoot => low = None
  /\ pc \notin BeforeRoot =>
       IF Extends THEN low \in SdkArenas /\ arena = RootSpan
                  ELSE low = None /\ arena \in SdkArenas

\* The heaps come in the last two stages.
HeapsFit ==
  /\ rootHeap \in {arena, None}
  /\ pc \in BeforeRoot \cup {"initRootHeap"} => rootHeap = None
  /\ pc \in BeforeHeaps => ~ extendedRam /\ nwramHeap = None
  /\ extendedRam => Extends
  /\ extendedHeap \in {HeapSpan(ExtSpan), None}
  /\ lowHeap \in {HeapSpan(low), None}
  /\ ~ extendedRam => extendedHeap = None /\ lowHeap = None
  /\ nwramHeap \in {NWRAM, None}
  /\ nwramHeap # None => Ours /\ mapped

\* `mapped` is settled with the registers, and only when all of them took.
NwramFits ==
  /\ pc \in BeforeNwram => ~ mapped
  /\ mapped => /\ Ours /\ granted /\ works /\ AllOurs(mbk) /\ window
               /\ "NWram" \in on
  /\ pc \notin BeforeNwram /\ Ours /\ "NWram" \in on /\ granted /\ works =>
       (mapped <=> AllOurs(mbk))

\* state.region1 is as wide as the widest heap that can come, and region 1 is
\* that from its restoring on.
RegionFits ==
  /\ twl => keep1 \in {REGION1_16MB, REGION1_32MB}
  /\ loader => keep1 = REGION1_32MB
  /\ mapped => keep1 = REGION1_32MB
  /\ Ours /\ (pc \in BeforeNwram \/ ~ AllOurs(mbk)) => keep1 = REGION1_16MB
  /\ twl /\ pc \notin BeforeNwram \cup {"restoreRegion"} => region1 = keep1

StagesInv ==
  TypeOK /\ ConsoleFits /\ ClockFits /\ ArenaFits /\ HeapsFit /\ NwramFits /\ RegionFits

-----------------------------------------------------------------------------
(***************************************************************************)
(* The invariant.                                                          *)
(***************************************************************************)

\* Whatever DSi_bootArm9 leaves of SCFG_EXT9 says that SCFG is open.
LEMMA KeptUnlocked == \A e \in Ext9Kept : ScfgUnlocked(e)
BY SMT, ArenaAssumption

\* Nothing is set aside at power-on.
LEMMA StagesInit == Init => StagesInv
<1> SUFFICES ASSUME Init PROVE StagesInv
  OBVIOUS
<1>1. /\ launch \in {"ds", "launcher", "loader"}
      /\ snd \in BOOLEAN /\ works \in BOOLEAN /\ clk \in BOOLEAN /\ (~ twl => ~ clk)
  <2>1. /\ launch \in {"ds", "launcher", "loader"}
        /\ snd = twl \/ snd = TRUE
        /\ works = twl \/ works = FALSE
        /\ clk = twl \/ clk = FALSE
    BY Zenon DEF Init
  <2>2. twl = TRUE \/ twl = FALSE
    BY Zenon DEF twl
  <2>3. snd \in BOOLEAN /\ works \in BOOLEAN
    BY <2>1, <2>2, Zenon
  <2>4. clk \in BOOLEAN
    BY <2>1, <2>2, Zenon
  <2>5. ASSUME ~ twl PROVE ~ clk
    <3>1. twl = FALSE
      BY <2>2, <2>5, Zenon
    <3>2. clk = FALSE
      BY <2>1, <3>1, Zenon
    <3> QED BY <3>2, Zenon
  <2> QED BY <2>1, <2>3, <2>4, <2>5, Zenon
<1>2. /\ mapped = FALSE /\ console = FALSE /\ extendedRam = FALSE /\ fastClock = FALSE
      /\ arena = None /\ low = None /\ rootHeap = None
      /\ extendedHeap = None /\ lowHeap = None /\ nwramHeap = None
      /\ pc = "osInit" /\ keep1 = BootKeep /\ stubFits = FALSE
  BY Zenon DEF Init
<1>3. mbk \in [Slots -> {"ours", "other"}]
  BY SMT DEF Init
<1>4. twl => ScfgUnlocked(ext9)
  BY Zenon, KeptUnlocked DEF Init
<1> USE DEF BeforeHeaps, BeforeRoot, BeforeClock, BeforeNwram, Labels
<1>5. TypeOK
  BY <1>1, <1>2, <1>3, Zenon DEF TypeOK
<1>6. ConsoleFits /\ ArenaFits
  BY <1>2, SMT DEF ConsoleFits, ArenaFits
<1>7. HeapsFit
  BY <1>2, SMT DEF HeapsFit
<1>8. ClockFits
  BY <1>1, <1>2, <1>4, SMT DEF ClockFits
<1>9. NwramFits
  BY <1>2, SMT DEF NwramFits
<1>10. RegionFits
  <2>1. loader => twl
    BY SMT DEF loader, twl
  <2>2. (twl => keep1 = Kept) /\ pc \in BeforeNwram /\ ~ mapped
    BY <1>2, SMT DEF BootKeep
  <2>3. (loader => Kept = REGION1_32MB) /\ (~ loader => Kept = REGION1_16MB)
    BY Zenon DEF Kept
  <2> QED BY <2>1, <2>2, <2>3, SMT DEF RegionFits, Ours
<1> QED BY <1>5, <1>6, <1>7, <1>8, <1>9, <1>10 DEF StagesInv

\* OS_Init leaves an arena of the SDK's and touches no resource.
LEMMA StepOsInit == StagesInv /\ OsInit => StagesInv'
<1> SUFFICES ASSUME StagesInv, OsInit PROVE StagesInv'
  OBVIOUS
<1> USE DEF StagesInv, OsInit, world, nw, mpu, answers, clock,
      BeforeHeaps, BeforeRoot, BeforeClock, BeforeNwram, Labels
<1>1. TypeOK'
  BY SMT DEF TypeOK
<1>2. ConsoleFits'
  BY SMT DEF twl, ConsoleFits, TypeOK
<1>3. ClockFits'
  BY SMT DEF Ours, loader, twl, ClockFits, TypeOK
<1>4. ArenaFits'
  BY SMT DEF SdkArenas, Extends, Ours, loader, twl, ArenaFits, TypeOK
<1>5. HeapsFit'
  BY SMT DEF Extends, Ours, loader, twl, HeapsFit, TypeOK
<1>6. NwramFits'
  BY SMT DEF Ours, granted, loader, twl, NwramFits, TypeOK
<1>7. RegionFits'
  BY SMT DEF Ours, granted, loader, twl, AllOurs, NwramFits, RegionFits, TypeOK
<1> QED BY <1>1, <1>2, <1>3, <1>4, <1>5, <1>6, <1>7, Zenon DEF StagesInv

\* The console's answer is given once, from DSi mode and the ARM7's word.
LEMMA StepFindConsole == StagesInv /\ FindConsole => StagesInv'
<1> SUFFICES ASSUME StagesInv, FindConsole PROVE StagesInv'
  OBVIOUS
<1> USE DEF StagesInv, FindConsole, world, nw, mpu, answers, clock,
      BeforeHeaps, BeforeRoot, BeforeClock, BeforeNwram, Labels
<1>1. TypeOK'
  BY SMT DEF TypeOK
<1>2. ConsoleFits'
  <2>1. pc' \notin {"osInit", "findConsole"}
    BY SMT
  <2>2. console' <=> (twl' \/ snd')
    BY Zenon DEF twl
  <2> QED BY <2>1, <2>2, Zenon DEF ConsoleFits
<1>3. ClockFits'
  BY SMT DEF Ours, loader, twl, ClockFits, TypeOK
<1>4. ArenaFits'
  BY SMT DEF SdkArenas, Extends, Ours, loader, twl, ArenaFits, TypeOK
<1>5. HeapsFit'
  BY SMT DEF Extends, Ours, loader, twl, HeapsFit, TypeOK
<1>6. NwramFits'
  BY SMT DEF Ours, granted, loader, twl, NwramFits, TypeOK
<1>7. RegionFits'
  BY SMT DEF Ours, granted, loader, twl, AllOurs, NwramFits, RegionFits, TypeOK
<1> QED BY <1>1, <1>2, <1>3, <1>4, <1>5, <1>6, <1>7, Zenon DEF StagesInv

\* All registers take, and the probe speaks for the console; or one does not,
\* and the first such keeps its old layout, so that not all are the module's.
LEMMA StepNwramInit == StagesInv /\ NwramInit => StagesInv'
<1> SUFFICES ASSUME StagesInv, NwramInit PROVE StagesInv'
  OBVIOUS
<1> USE DEF StagesInv, NwramInit, world, nw, mpu, answers, clock,
      BeforeHeaps, BeforeRoot, BeforeClock, BeforeNwram, Labels
<1>1. TypeOK'
  <2>1. mbk' \in [Slots -> {"ours", "other"}]
    BY SMT DEF TypeOK
  <2>2. mapped' \in BOOLEAN
    <3>1. mapped' = mapped \/ mapped' = ProbeFinds
      BY Zenon
    <3> QED BY <3>1, Zenon DEF ProbeFinds, TypeOK, AllOurs
  <2> QED BY <2>1, <2>2, SMT DEF TypeOK
<1>2. ConsoleFits'
  BY SMT DEF twl, ConsoleFits, TypeOK
<1>3. ClockFits'
  BY SMT DEF Ours, loader, twl, ClockFits, TypeOK
<1>4. ArenaFits'
  BY SMT DEF SdkArenas, Extends, Ours, loader, twl, ArenaFits, TypeOK
<1>5. HeapsFit'
  BY SMT DEF Extends, Ours, loader, twl, HeapsFit, TypeOK
<1>6. NwramFits'
  <2>1. CASE ~ (Ours /\ "NWram" \in on /\ granted)
    BY <2>1, SMT DEF Ours, granted, loader, twl, NwramFits, TypeOK
  <2>2. CASE Ours /\ "NWram" \in on /\ granted
    <3>1. PICK kept \in {Slots} \cup {Slots \ {s} : s \in Slots} :
            /\ mbk' = [s \in Slots |-> IF s \in Assigned(kept) THEN "ours" ELSE mbk[s]]
            /\ IF Proceeds(Assigned(kept))
               THEN /\ window' = TRUE
                    /\ keep1' = REGION1_32MB /\ region1' = REGION1_32MB
                    /\ mapped' = ProbeFinds
               ELSE UNCHANGED <<window, mapped, mpu>>
      BY <2>2, Zenon
    <3>2. CASE Proceeds(Assigned(kept))
      <4>1. AllOurs(mbk')
        BY <3>1, <3>2, SMT DEF Proceeds, AllOurs
      <4>2. mapped' <=> works
        BY <3>1, <3>2, <4>1, Zenon DEF ProbeFinds
      <4>3. window' /\ Ours' /\ granted' /\ pc' \notin BeforeNwram /\ "NWram" \in on'
        BY <2>2, <3>1, <3>2, SMT DEF Ours, granted, loader, twl
      <4>4. (mapped' => works') /\ works' = works
        BY <4>2, Zenon DEF world
      <4>5. works' => (mapped' <=> AllOurs(mbk'))
        BY ONLY <4>1, <4>2, <4>4, SMT
      <4> QED BY ONLY <4>1, <4>3, <4>4, <4>5, Zenon DEF NwramFits
    <3>3. CASE ~ Proceeds(Assigned(kept))
      <4>1. PICK s \in Slots : s \notin Assigned(kept)
        BY <3>3, SMT DEF Proceeds, Assigned
      <4>2. PICK q \in 1 .. s : ~ (Passes(q) /\ (mbk[q] = "ours" \/ q \in kept))
        BY <4>1, SMT DEF Assigned
      <4>3. q \in Slots /\ q \notin Assigned(kept)
        BY <4>1, <4>2, SMT DEF Assigned, Slots
      <4>4. mbk[q] # "ours"
        BY <3>1, <4>2, <4>3, SMT DEF Passes
      <4>5. ~ AllOurs(mbk')
        BY <3>1, <4>3, <4>4, SMT DEF AllOurs
      <4>6. UNCHANGED <<window, mapped>> /\ ~ mapped
        BY <3>1, <3>3, SMT DEF NwramFits
      <4> QED BY <4>5, <4>6, SMT DEF Ours, granted, loader, twl, NwramFits
    <3> QED BY <3>2, <3>3
  <2> QED BY <2>1, <2>2
<1>7. RegionFits'
  <2>1. pc = "nwramInit" /\ UNCHANGED <<on, launch, ext9, protect, works>>
    BY SMT
  <2>2. twl' = twl /\ loader' = loader /\ Ours' = Ours
    BY <2>1, SMT DEF Ours, loader, twl
  <2>3. pc \in BeforeNwram /\ ~ mapped
    BY <2>1, SMT DEF NwramFits
  <2>4. CASE keep1' = REGION1_32MB /\ Ours /\ AllOurs(mbk')
    BY <2>2, <2>4, SMT DEF RegionFits, Ours
  <2>5. CASE keep1' = keep1 /\ mapped' = mapped
    BY <2>2, <2>3, <2>5, SMT DEF RegionFits
  <2>6. \/ keep1' = REGION1_32MB /\ Ours /\ AllOurs(mbk')
        \/ keep1' = keep1 /\ mapped' = mapped
    BY SMT DEF Proceeds, AllOurs
  <2> QED BY <2>4, <2>5, <2>6
<1> QED BY <1>1, <1>2, <1>3, <1>4, <1>5, <1>6, <1>7, Zenon DEF StagesInv

\* Region 1 becomes what NWRAM's stage decided, wide or not.
LEMMA StepRestoreRegion == StagesInv /\ RestoreRegion => StagesInv'
<1> SUFFICES ASSUME StagesInv, RestoreRegion PROVE StagesInv'
  OBVIOUS
<1> USE DEF StagesInv, RestoreRegion, world, nw, mpu, answers, clock,
      BeforeHeaps, BeforeRoot, BeforeClock, BeforeNwram, Labels
<1>1. TypeOK'
  BY SMT DEF TypeOK
<1>2. ConsoleFits'
  BY SMT DEF twl, ConsoleFits, TypeOK
<1>3. ClockFits'
  BY SMT DEF Ours, loader, twl, ClockFits, TypeOK
<1>4. ArenaFits'
  BY SMT DEF SdkArenas, Extends, Ours, loader, twl, ArenaFits, TypeOK
<1>5. HeapsFit'
  BY SMT DEF Extends, Ours, loader, twl, HeapsFit, TypeOK
<1>6. NwramFits'
  BY SMT DEF Ours, granted, loader, twl, NwramFits, TypeOK
<1>7. RegionFits'
  BY SMT DEF Restored, Ours, loader, twl, AllOurs, NwramFits, RegionFits
<1> QED BY <1>1, <1>2, <1>3, <1>4, <1>5, <1>6, <1>7, Zenon DEF StagesInv

\* Each way through leaves the answer at the register's value: nothing to
\* tell, a loader's clock read, or the module's own switch.
LEMMA StepClockInit == StagesInv /\ ClockInit => StagesInv'
<1> SUFFICES ASSUME StagesInv, ClockInit PROVE StagesInv'
  OBVIOUS
<1> USE DEF StagesInv, ClockInit, world, nw, mpu, answers, clock,
      BeforeHeaps, BeforeRoot, BeforeClock, BeforeNwram, Labels
<1>1. TypeOK'
  <2>1. twl => loader \/ Ours
    BY Zenon DEF Ours
  <2>2. \/ clk' = clk /\ fastClock' = fastClock
        \/ fastClock' = clk /\ clk' = clk
        \/ \E enable \in BOOLEAN : clk' = enable /\ fastClock' = enable
    <3>1. CASE ~ twl
      BY <3>1, SMT DEF Ours, loader, twl
    <3>2. CASE loader
      BY <3>2, SMT DEF Ours, loader, twl, ReadsLoadersClock
    <3>3. CASE Ours
      <4>1. SetsFastClock("FastClock" \in on)
        BY <3>3, SMT DEF Ours, loader, twl
      <4>2. ("FastClock" \in on) \in BOOLEAN
        BY SMT
      <4> QED BY <4>1, <4>2, Zenon DEF SetsFastClock
    <3> QED BY <2>1, <3>1, <3>2, <3>3
  <2>3. clk' \in BOOLEAN /\ fastClock' \in BOOLEAN
    BY <2>2, Zenon DEF TypeOK
  <2>4. stubFits' = stubFits
    <3>1. CASE ~ twl
      BY <3>1, SMT DEF Ours, loader, twl
    <3>2. CASE loader
      BY <3>2, SMT DEF Ours, loader, twl
    <3>3. CASE Ours
      <4>1. SetsFastClock("FastClock" \in on)
        BY <3>3, SMT DEF Ours, loader, twl
      <4> QED BY <4>1, Zenon DEF SetsFastClock
    <3> QED BY <2>1, <3>1, <3>2, <3>3
  <2> QED BY <2>3, <2>4, SMT DEF TypeOK
<1>2. ConsoleFits'
  BY SMT DEF twl, ConsoleFits, TypeOK
<1>3. ClockFits'
  <2>1. pc' \notin BeforeClock /\ twl' = twl /\ ext9' = ext9 /\ ~ fastClock
    BY SMT DEF twl, ClockFits
  <2>2. CASE ~ twl
    <3>1. clk' = clk /\ fastClock' = fastClock
      BY <2>2, SMT DEF Ours, loader, twl
    <3> QED BY <2>1, <2>2, <3>1, Zenon DEF ClockFits, Ours
  <2>3. CASE loader
    <3>1. clk' = clk /\ fastClock' = clk
      BY <2>3, SMT DEF Ours, loader, twl, ReadsLoadersClock
    <3>2. twl
      BY <2>3, SMT DEF loader, twl
    <3>3. ~ Ours'
      BY <2>3, SMT DEF Ours, loader
    <3> QED BY <2>1, <3>1, <3>2, <3>3, Zenon DEF ClockFits
  <2>4. CASE Ours
    <3>1. ScfgUnlocked(ext9)
      BY <2>4, Zenon DEF ClockFits, Ours
    <3>2. stubFits' = stubFits /\ on' = on /\ Ours'
      BY <2>4, SMT DEF Ours, loader, twl, SetsFastClock
    <3>3. CASE stubFits
      <4>1. clk' = ("FastClock" \in on) /\ fastClock' = ("FastClock" \in on)
        BY <2>4, <3>1, <3>3, SMT DEF Ours, loader, twl, SetsFastClock
      <4> QED BY <2>1, <2>4, <3>1, <3>2, <3>3, <4>1, Zenon DEF ClockFits, Ours
    <3>4. CASE ~ stubFits
      <4>1. clk' = clk /\ fastClock' = fastClock
        BY <2>4, <3>4, SMT DEF Ours, loader, twl, SetsFastClock
      <4> QED BY <2>1, <2>4, <3>1, <3>2, <3>4, <4>1, Zenon DEF ClockFits, Ours
    <3> QED BY <3>3, <3>4
  <2> QED BY <2>2, <2>3, <2>4, Zenon DEF Ours
<1>4. ArenaFits'
  BY SMT DEF SdkArenas, Extends, Ours, loader, twl, ArenaFits, TypeOK
<1>5. HeapsFit'
  BY SMT DEF Extends, Ours, loader, twl, HeapsFit, TypeOK
<1>6. NwramFits'
  BY SMT DEF Ours, granted, loader, twl, NwramFits, TypeOK
<1>7. RegionFits'
  BY SMT DEF Ours, granted, loader, twl, AllOurs, NwramFits, RegionFits, TypeOK
<1> QED BY <1>1, <1>2, <1>3, <1>4, <1>5, <1>6, <1>7, Zenon DEF StagesInv

\* The SDK's arena moves to `low` just when the spare heaps will be made.
LEMMA StepBeforeRootHeap == StagesInv /\ BeforeRootHeap => StagesInv'
<1> SUFFICES ASSUME StagesInv, BeforeRootHeap PROVE StagesInv'
  OBVIOUS
<1> USE DEF StagesInv, BeforeRootHeap, world, nw, mpu, answers, clock,
      BeforeHeaps, BeforeRoot, BeforeClock, BeforeNwram, Labels
<1>1. TypeOK'
  BY SMT DEF TypeOK
<1>2. ConsoleFits'
  BY SMT DEF twl, ConsoleFits, TypeOK
<1>3. ClockFits'
  BY SMT DEF Ours, loader, twl, ClockFits, TypeOK
<1>4. ArenaFits'
  <2>1. Extends' = Extends /\ SdkArenas' = SdkArenas
    BY SMT DEF Extends, Ours, SdkArenas, loader, twl
  <2>2. CASE Extends
    BY <2>1, <2>2, SMT DEF ArenaFits, Extends, RootSpan
  <2>3. CASE ~ Extends
    BY <2>1, <2>3, SMT DEF ArenaFits, Extends
  <2> QED BY <2>2, <2>3
<1>5. HeapsFit'
  BY SMT DEF Extends, Ours, loader, twl, HeapsFit, TypeOK
<1>6. NwramFits'
  BY SMT DEF Ours, granted, loader, twl, NwramFits, TypeOK
<1>7. RegionFits'
  BY SMT DEF Ours, granted, loader, twl, AllOurs, NwramFits, RegionFits, TypeOK
<1> QED BY <1>1, <1>2, <1>3, <1>4, <1>5, <1>6, <1>7, Zenon DEF StagesInv

\* The root heap is the arena of the stage before, or nothing.
LEMMA StepInitRootHeap == StagesInv /\ InitRootHeap => StagesInv'
<1> SUFFICES ASSUME StagesInv, InitRootHeap PROVE StagesInv'
  OBVIOUS
<1> USE DEF StagesInv, InitRootHeap, world, nw, mpu, answers, clock,
      BeforeHeaps, BeforeRoot, BeforeClock, BeforeNwram, Labels
<1>1. TypeOK'
  BY SMT DEF TypeOK
<1>2. ConsoleFits'
  BY SMT DEF twl, ConsoleFits, TypeOK
<1>3. ClockFits'
  BY SMT DEF Ours, loader, twl, ClockFits, TypeOK
<1>4. ArenaFits'
  BY SMT DEF SdkArenas, Extends, Ours, loader, twl, ArenaFits, TypeOK
<1>5. HeapsFit'
  BY SMT DEF Extends, Ours, loader, twl, HeapsFit, TypeOK
<1>6. NwramFits'
  BY SMT DEF Ours, granted, loader, twl, NwramFits, TypeOK
<1>7. RegionFits'
  BY SMT DEF Ours, granted, loader, twl, AllOurs, NwramFits, RegionFits, TypeOK
<1> QED BY <1>1, <1>2, <1>3, <1>4, <1>5, <1>6, <1>7, Zenon DEF StagesInv

\* Spare heaps need a root heap and the right to extend; NWRAM's its registers.
LEMMA StepAfterRootHeap == StagesInv /\ AfterRootHeap => StagesInv'
<1> SUFFICES ASSUME StagesInv, AfterRootHeap PROVE StagesInv'
  OBVIOUS
<1> USE DEF StagesInv, AfterRootHeap, world, nw, mpu, answers, clock,
      BeforeHeaps, BeforeRoot, BeforeClock, BeforeNwram, Labels
<1>1. TypeOK'
  <2>1. extendedRam' \in BOOLEAN
    BY Zenon DEF TypeOK
  <2> QED BY <2>1, SMT DEF TypeOK
<1>2. ConsoleFits'
  BY SMT DEF twl, ConsoleFits, TypeOK
<1>3. ClockFits'
  BY SMT DEF Ours, loader, twl, ClockFits, TypeOK
<1>4. ArenaFits'
  BY SMT DEF SdkArenas, Extends, Ours, loader, twl, ArenaFits, TypeOK
<1>5. HeapsFit'
  <2>1. Extends' = Extends /\ Ours' = Ours /\ pc = "afterRootHeap"
    BY SMT DEF Extends, Ours, loader, twl
  <2>2. /\ extendedRam' => Extends
        /\ extendedHeap' \in {HeapSpan(ExtSpan), None}
        /\ lowHeap' \in {HeapSpan(low), None}
        /\ ~ extendedRam' => extendedHeap' = None /\ lowHeap' = None
    <3>1. ~ extendedRam /\ extendedHeap = None /\ lowHeap = None
      BY <2>1, Zenon DEF HeapsFit
    <3>2. CASE Extends /\ rootHeap # None
      BY <3>1, <3>2, Zenon
    <3>3. CASE Extends /\ rootHeap = None
      BY <3>1, <3>3, Zenon
    <3>4. CASE ~ Extends
      BY <3>1, <3>4, Zenon
    <3> QED BY <3>2, <3>3, <3>4
  <2>3. nwramHeap' \in {NWRAM, None} /\ (nwramHeap' # None => Ours /\ mapped)
    BY <2>1, Zenon DEF HeapsFit
  <2> QED BY <2>1, <2>2, <2>3, SMT DEF HeapsFit
<1>6. NwramFits'
  BY SMT DEF Ours, granted, loader, twl, NwramFits, TypeOK
<1>7. RegionFits'
  BY SMT DEF Ours, granted, loader, twl, AllOurs, NwramFits, RegionFits, TypeOK
<1> QED BY <1>1, <1>2, <1>3, <1>4, <1>5, <1>6, <1>7, Zenon DEF StagesInv

\* The game takes over what the stages have made.
LEMMA StepReportDone == StagesInv /\ ReportDone => StagesInv'
<1> SUFFICES ASSUME StagesInv, ReportDone PROVE StagesInv'
  OBVIOUS
<1> USE DEF StagesInv, ReportDone, world, nw, mpu, answers, clock,
      BeforeHeaps, BeforeRoot, BeforeClock, BeforeNwram, Labels
<1>1. TypeOK'
  BY SMT DEF TypeOK
<1>2. ConsoleFits'
  BY SMT DEF twl, ConsoleFits, TypeOK
<1>3. ClockFits'
  BY SMT DEF Ours, loader, twl, ClockFits, TypeOK
<1>4. ArenaFits'
  BY SMT DEF SdkArenas, Extends, Ours, loader, twl, ArenaFits, TypeOK
<1>5. HeapsFit'
  BY SMT DEF Extends, Ours, loader, twl, HeapsFit, TypeOK
<1>6. NwramFits'
  BY SMT DEF Ours, granted, loader, twl, NwramFits, TypeOK
<1>7. RegionFits'
  BY SMT DEF Ours, granted, loader, twl, AllOurs, NwramFits, RegionFits, TypeOK
<1> QED BY <1>1, <1>2, <1>3, <1>4, <1>5, <1>6, <1>7, Zenon DEF StagesInv

\* A call that may not switch leaves both register and answer alone.
LEMMA StepGameSetsClock == StagesInv /\ GameSetsClock => StagesInv'
<1> SUFFICES ASSUME StagesInv, GameSetsClock PROVE StagesInv'
  OBVIOUS
<1> USE DEF StagesInv, GameSetsClock, world, nw, mpu, answers, clock,
      BeforeHeaps, BeforeRoot, BeforeClock, BeforeNwram, Labels
<1>1. TypeOK'
  <2>1. clk' \in BOOLEAN /\ fastClock' \in BOOLEAN /\ stubFits' \in BOOLEAN
    BY Zenon DEF TypeOK, SetsFastClock
  <2> QED BY <2>1, SMT DEF TypeOK
<1>2. ConsoleFits'
  BY SMT DEF twl, ConsoleFits, TypeOK
<1>3. ClockFits'
  <2>1. /\ pc = "game" /\ pc \notin BeforeClock /\ pc' = pc
        /\ twl' = twl /\ ext9' = ext9 /\ Ours' = Ours
    BY SMT DEF twl, Ours, loader
  <2>2. PICK enable \in BOOLEAN : SetsFastClock(enable)
    BY Zenon
  <2>3. stubFits' = stubFits
    BY <2>2, Zenon DEF SetsFastClock
  <2>4. CASE Ours /\ ScfgUnlocked(ext9) /\ stubFits
    <3>1. clk' = enable /\ fastClock' = enable /\ twl
      BY <2>2, <2>4, Zenon DEF SetsFastClock, Ours
    <3> QED BY <2>1, <2>3, <2>4, <3>1, Zenon DEF ClockFits
  <2>5. CASE ~ (Ours /\ ScfgUnlocked(ext9) /\ stubFits)
    <3>1. clk' = clk /\ fastClock' = fastClock
      BY <2>2, <2>5, Zenon DEF SetsFastClock
    <3> QED BY <2>1, <2>3, <3>1, Zenon DEF ClockFits
  <2> QED BY <2>4, <2>5
<1>4. ArenaFits'
  BY SMT DEF SdkArenas, Extends, Ours, loader, twl, ArenaFits, TypeOK
<1>5. HeapsFit'
  BY SMT DEF Extends, Ours, loader, twl, HeapsFit, TypeOK
<1>6. NwramFits'
  BY SMT DEF Ours, granted, loader, twl, NwramFits, TypeOK
<1>7. RegionFits'
  BY SMT DEF Ours, granted, loader, twl, AllOurs, NwramFits, RegionFits, TypeOK
<1> QED BY <1>1, <1>2, <1>3, <1>4, <1>5, <1>6, <1>7, Zenon DEF StagesInv

\* The variables start anew; the registers that stay are tied to nothing yet.
LEMMA StepSoftReset == StagesInv /\ SoftReset => StagesInv'
<1> SUFFICES ASSUME StagesInv, SoftReset PROVE StagesInv'
  OBVIOUS
<1> USE DEF StagesInv, SoftReset, world, nw, mpu, answers, clock,
      BeforeHeaps, BeforeRoot, BeforeClock, BeforeNwram, Labels
<1>1. TypeOK'
  <2>1. /\ mapped' \in BOOLEAN /\ console' \in BOOLEAN
        /\ extendedRam' \in BOOLEAN /\ fastClock' \in BOOLEAN
        /\ stubFits' \in BOOLEAN
    BY Zenon
  <2> QED BY <2>1, SMT DEF TypeOK
<1>2. ConsoleFits'
  BY SMT DEF twl, ConsoleFits, TypeOK
<1>3. ClockFits'
  BY SMT DEF Ours, loader, twl, ClockFits, TypeOK
<1>4. ArenaFits'
  BY SMT DEF SdkArenas, Extends, Ours, loader, twl, ArenaFits, TypeOK
<1>5. HeapsFit'
  BY SMT DEF Extends, Ours, loader, twl, HeapsFit, TypeOK
<1>6. NwramFits'
  BY SMT DEF Ours, granted, loader, twl, NwramFits, TypeOK
<1>7. RegionFits'
  BY SMT DEF BootKeep, Kept, Ours, loader, twl, AllOurs, RegionFits, TypeOK
<1> QED BY <1>1, <1>2, <1>3, <1>4, <1>5, <1>6, <1>7, Zenon DEF StagesInv

\* Every step of a boot, of a game and of a reset keeps the invariant.
LEMMA StagesStep == StagesInv /\ [Next]_vars => StagesInv'
<1> SUFFICES ASSUME StagesInv, [Next]_vars PROVE StagesInv'
  OBVIOUS
<1>1. CASE Next
  BY <1>1, StepOsInit, StepFindConsole, StepNwramInit, StepRestoreRegion,
     StepClockInit, StepBeforeRootHeap, StepInitRootHeap, StepAfterRootHeap,
     StepReportDone, StepGameSetsClock, StepSoftReset DEF Next
<1>2. CASE UNCHANGED vars
  <2> USE <1>2 DEF StagesInv, vars, world, nw, mpu, answers, clock
  <2>1. TypeOK'
    BY SMT DEF TypeOK
  <2>2. ConsoleFits' /\ ClockFits'
    BY SMT DEF ConsoleFits, ClockFits, Ours, loader, twl
  <2>3. ArenaFits' /\ HeapsFit'
    BY SMT DEF ArenaFits, HeapsFit, SdkArenas, Extends, Ours, loader, twl
  <2>4. NwramFits'
    BY SMT DEF NwramFits, Ours, granted, loader, twl, AllOurs
  <2>5. RegionFits'
    BY SMT DEF RegionFits, Ours, loader, twl, AllOurs
  <2> QED BY <2>1, <2>2, <2>3, <2>4, <2>5, Zenon
<1> QED BY <1>1, <1>2

\* Whatever the arenas, the registers and the components, each stage leaves its
\* resources as far as it should: the facts every theorem below is drawn from.
THEOREM StagesInvHolds == Spec => []StagesInv
BY StagesInit, StagesStep, PTL DEF Spec

\* What the boot is of stays what it was.
LEMMA WorldHolds == Spec => []WorldFits
<1>1. Init => WorldFits
  <2> SUFFICES ASSUME Init PROVE WorldFits
    OBVIOUS
  <2>1. on \in SUBSET {"NWram", "FastClock", "ExtendedRam"}
    BY SMT DEF Init
  <2>2. snd = twl \/ snd = TRUE
    BY Zenon DEF Init
  <2>3. ASSUME twl PROVE snd
    BY <2>2, <2>3, Zenon
  <2> QED BY <2>1, <2>3, Zenon DEF WorldFits
<1>2. WorldFits /\ [Next]_vars => WorldFits'
  <2> SUFFICES ASSUME WorldFits, [Next]_vars PROVE WorldFits'
    OBVIOUS
  <2>1. UNCHANGED world
    BY Zenon DEF Next, vars, OsInit, FindConsole, NwramInit, RestoreRegion, ClockInit,
       BeforeRootHeap, InitRootHeap, AfterRootHeap, ReportDone, GameSetsClock, SoftReset
  <2> QED BY <2>1, Zenon DEF world, WorldFits, twl
<1> QED BY <1>1, <1>2, PTL DEF Spec

-----------------------------------------------------------------------------
(***************************************************************************)
(* The heaps.                                                              *)
(***************************************************************************)

Within(h, span) ==
  h \in Spans /\ span.lo <= h.lo /\ h.lo < h.hi /\ h.hi <= span.hi

\* Main RAM up to the shared area, where OS_Init leaves the arena.
SdkSpan == [lo |-> \h02000000, hi |-> \h023E0000]

\* Rounding up makes no number smaller,
LEMMA RoundUpFits == \A n \in Nat : RoundUp(n) \in Nat /\ n <= RoundUp(n)
BY SMT DEF RoundUp

\* and rounding down none larger.
LEMMA RoundDownFits == \A n \in Nat : RoundDown(n) \in Nat /\ RoundDown(n) <= n
BY SMT DEF RoundDown

\* A heap makeHeap() makes lies inside the span it is given.
LEMMA HeapSpanInside ==
  ASSUME NEW span \in Spans, HeapSpan(span) # None
  PROVE  Within(HeapSpan(span), span)
<1> DEFINE s == RoundUp(span.lo)
           e == RoundDown(span.hi)
<1>1. span.lo \in Nat /\ span.hi \in Nat
  BY SMT DEF Spans
<1>2. s \in Nat /\ e \in Nat /\ span.lo <= s /\ e <= span.hi
  BY <1>1, RoundUpFits, RoundDownFits, SMT
<1> HIDE DEF s, e
<1>3. HeapSpan(span) = IF e <= s + \h1000 THEN None ELSE [lo |-> s, hi |-> e]
  BY SMT DEF HeapSpan, s, e
<1>4. ~ (e <= s + \h1000) /\ HeapSpan(span) = [lo |-> s, hi |-> e]
  BY <1>3, SMT
<1> QED BY <1>2, <1>4, SMT DEF Within, Spans

\* Where each of the four may be.
LEMMA HeapsPlaced ==
  ASSUME StagesInv, Ours
  PROVE  /\ rootHeap # None /\ Extends => Within(rootHeap, RootSpan)
         /\ rootHeap # None /\ ~ Extends => Within(rootHeap, SdkSpan)
         /\ extendedHeap # None => Extends /\ Within(extendedHeap, ExtSpan)
         /\ lowHeap # None => /\ Extends /\ Within(lowHeap, SdkSpan)
                              /\ low.lo <= lowHeap.lo /\ lowHeap.hi <= low.hi
         /\ nwramHeap # None => Within(nwramHeap, NWRAM)
<1> USE DEF StagesInv
<1>1. \A a \in ArenasLeft : Within(a, SdkSpan)
  BY ArenaAssumption, SMT DEF Within, Spans, SdkSpan
<1>2. rootHeap # None => rootHeap = arena /\ pc \notin BeforeRoot
  BY Zenon DEF HeapsFit
<1>3. rootHeap # None /\ Extends => Within(rootHeap, RootSpan)
  BY <1>2, SMT DEF ArenaFits, RootSpan, DSI_ROOT_HEAP_START, DSI_ROOT_HEAP_END,
     Within, Spans
<1>4. rootHeap # None /\ ~ Extends => Within(rootHeap, SdkSpan)
  BY <1>1, <1>2, SMT DEF ArenaFits, SdkArenas, Ours
<1>5. extendedHeap # None => Extends /\ Within(extendedHeap, ExtSpan)
  <2> SUFFICES ASSUME extendedHeap # None
               PROVE  Extends /\ Within(extendedHeap, ExtSpan)
    OBVIOUS
  <2>1. Extends /\ extendedHeap = HeapSpan(ExtSpan)
    BY Zenon DEF HeapsFit
  <2>2. ExtSpan \in Spans
    BY SMT DEF ExtSpan, Spans, DSI_EXT_HEAP_START, DSI_EXT_HEAP_END
  <2>3. Within(extendedHeap, ExtSpan)
    BY <2>1, <2>2, HeapSpanInside, Zenon
  <2> QED BY <2>1, <2>3, Zenon
<1>6. lowHeap # None => /\ Extends /\ Within(lowHeap, SdkSpan)
                        /\ low.lo <= lowHeap.lo /\ lowHeap.hi <= low.hi
  <2> SUFFICES ASSUME lowHeap # None
               PROVE  /\ Extends /\ Within(lowHeap, SdkSpan)
                      /\ low.lo <= lowHeap.lo /\ lowHeap.hi <= low.hi
    OBVIOUS
  <2>1. Extends /\ extendedRam /\ lowHeap = HeapSpan(low)
    BY Zenon DEF HeapsFit
  <2>2. pc \notin BeforeRoot
    BY <2>1, SMT DEF HeapsFit, BeforeHeaps
  <2>3. low \in ArenasLeft
    BY <2>1, <2>2, Zenon DEF ArenaFits, SdkArenas, Ours
  <2>4. low \in Spans /\ Within(low, SdkSpan)
    BY <1>1, <2>3, Zenon DEF Within
  <2>5. Within(lowHeap, low)
    BY <2>1, <2>4, HeapSpanInside, Zenon
  <2> QED BY <2>1, <2>4, <2>5, SMT DEF Within, Spans, SdkSpan
<1>7. nwramHeap # None => Within(nwramHeap, NWRAM)
  BY SMT DEF HeapsFit, NWRAM, BASE, SIZE, Within, Spans
<1> QED BY <1>3, <1>4, <1>5, <1>6, <1>7

\* The four heaps of a game in DSi mode share no byte with one another or with
\* what others own, wherever OS_Init has left the arena.
THEOREM HeapsApartHolds == Spec => []HeapsApart
<1>1. StagesInv => HeapsApart
  <2> SUFFICES ASSUME StagesInv, Ours
               PROVE  /\ \A a \in Heaps : IsHeap(a)
                      /\ \A a, b \in Heaps : a = b \/ Apart(a, b)
                      /\ \A a \in Heaps, b \in Reserved : Apart(a, b)
                      /\ lowHeap # None => low.lo <= lowHeap.lo /\ lowHeap.hi <= low.hi
    BY DEF HeapsApart
  <2>1. \A a \in Heaps : \/ a = rootHeap /\ rootHeap # None
                         \/ a = extendedHeap /\ extendedHeap # None
                         \/ a = lowHeap /\ lowHeap # None
                         \/ a = nwramHeap /\ nwramHeap # None
    BY SMT DEF Heaps
  <2>2. \A a \in Heaps : IsHeap(a)
    BY <2>1, HeapsPlaced, SMT DEF Within, IsHeap, Spans
  <2>3. \A a, b \in Heaps : a = b \/ Apart(a, b)
    BY <2>1, HeapsPlaced, SMT DEF Within, Apart, Spans,
         ExtSpan, SdkSpan, RootSpan, NWRAM, BASE, SIZE, DSI_ROOT_HEAP_START,
         DSI_ROOT_HEAP_END, DSI_EXT_HEAP_START, DSI_EXT_HEAP_END
  <2>4. \A a \in Heaps, b \in Reserved : Apart(a, b)
    BY <2>1, HeapsPlaced, SMT DEF Within, Apart, Spans, Reserved,
         ExtSpan, SdkSpan, RootSpan, NWRAM, BASE, SIZE, DSI_ROOT_HEAP_START,
         DSI_ROOT_HEAP_END, DSI_EXT_HEAP_START, DSI_EXT_HEAP_END
  <2> QED BY <2>2, <2>3, <2>4, HeapsPlaced
<1> QED BY <1>1, StagesInvHolds, PTL

\* The game may touch all of every heap it is given: in its own boots region 1
\* has 16MB, and 32MB as soon as there is a heap in NWRAM; a loader's has 32MB.
THEOREM HeapsMappedHolds == Spec => []HeapsMapped
<1>1. StagesInv => HeapsMapped
  <2> SUFFICES ASSUME StagesInv, twl, NEW h \in Heaps
               PROVE  /\ \h02000000 <= h.lo
                      /\ h.hi <= \h02000000 + 2^(region1.size + 1)
    BY SMT DEF HeapsMapped
  <2> USE DEF StagesInv
  <2>1. 2^(REGION1_16MB.size + 1) = \h1000000 /\ 2^(REGION1_32MB.size + 1) = \h2000000
    BY SMT DEF REGION1_16MB, REGION1_32MB, AtMain
  <2>2. \/ h = rootHeap /\ rootHeap # None
        \/ h = extendedHeap /\ extendedHeap # None
        \/ h = lowHeap /\ lowHeap # None
        \/ h = nwramHeap /\ nwramHeap # None
    BY SMT DEF Heaps
  <2>3. pc \notin BeforeNwram \cup {"restoreRegion"}
    BY <2>2, SMT DEF HeapsFit, BeforeHeaps, BeforeRoot, BeforeClock, BeforeNwram
  <2>4. region1 = keep1 /\ region1 \in {REGION1_16MB, REGION1_32MB}
    BY <2>3, SMT DEF RegionFits
  <2>5. 2^(region1.size + 1) \in {\h1000000, \h2000000}
    BY <2>1, <2>4, SMT
  <2>6. CASE Ours
    <3>1. CASE h = nwramHeap /\ nwramHeap # None
      <4>1. region1 = REGION1_32MB
        BY <2>4, <3>1, Zenon DEF HeapsFit, RegionFits
      <4>2. Within(h, NWRAM)
        BY <2>6, <3>1, HeapsPlaced, Zenon
      <4> QED BY <2>1, <4>1, <4>2, SMT DEF Within, Spans, NWRAM, BASE, SIZE
    <3>2. CASE ~ (h = nwramHeap /\ nwramHeap # None)
      <4>1. Within(h, RootSpan) \/ Within(h, SdkSpan) \/ Within(h, ExtSpan)
        BY <2>2, <2>6, <3>2, HeapsPlaced, Zenon
      <4> QED BY <2>5, <4>1, SMT DEF Within, Spans, RootSpan, SdkSpan, ExtSpan,
             DSI_ROOT_HEAP_START, DSI_ROOT_HEAP_END, DSI_EXT_HEAP_START, DSI_EXT_HEAP_END
    <3> QED BY <3>1, <3>2, SMT
  <2>7. CASE ~ Ours
    <3>1. loader /\ ~ Extends
      BY <2>7, Zenon DEF Ours, Extends
    <3>2. extendedHeap = None /\ lowHeap = None /\ nwramHeap = None
      BY <2>7, <3>1, Zenon DEF HeapsFit
    <3>3. h = arena /\ pc \notin BeforeRoot
      BY <2>2, <3>2, Zenon DEF HeapsFit
    <3>4. h \in LoaderArenas
      BY <3>1, <3>3, Zenon DEF ArenaFits, SdkArenas
    <3> QED BY <2>5, <3>4, ArenaAssumption, SMT DEF Spans
  <2> QED BY <2>6, <2>7, SMT
<1> QED BY <1>1, StagesInvHolds, PTL

\* No loader's memory and no DS console's is turned into a resource.
LEMMA NothingAddedLemma == StagesInv /\ ~ Ours => NothingAdded
<1> SUFFICES ASSUME StagesInv, ~ Ours PROVE NothingAdded
  OBVIOUS
<1> USE DEF StagesInv
<1>1. ~ Extends
  BY DEF Extends
<1>2. ~ extendedRam /\ extendedHeap = None /\ lowHeap = None /\ nwramHeap = None
  BY <1>1, Zenon DEF HeapsFit
<1>3. rootHeap # None => pc \notin BeforeRoot /\ rootHeap = arena
  BY Zenon DEF HeapsFit
<1>4. rootHeap \in {None} \cup SdkArenas
  BY <1>1, <1>3, Zenon DEF ArenaFits
<1> QED BY <1>2, <1>4, Zenon DEF NothingAdded, SdkArenas

\* A register of a loader's, or of a console in DS mode, is never written.
LEMMA OthersRegisters ==
  ASSUME [Next]_vars, ~ Ours PROVE Ours' = Ours /\ UNCHANGED <<mbk, window, clk>>
<1> USE DEF world, nw, clock
<1>1. ASSUME ClockInit PROVE UNCHANGED <<launch, mbk, window, clk>>
  <2>1. UNCHANGED <<launch, mbk, window>>
    BY <1>1 DEF ClockInit
  <2>2. UNCHANGED clk
    <3>1. CASE loader
      BY <1>1, <3>1, SMT DEF ClockInit, loader, twl, Ours
    <3>2. CASE ~ loader
      BY <1>1, <3>2, SMT DEF ClockInit, loader, twl, Ours
    <3> QED BY <3>1, <3>2
  <2> QED BY <2>1, <2>2
<1>2. ASSUME NwramInit PROVE UNCHANGED <<launch, mbk, window, clk>>
  BY <1>2 DEF NwramInit
<1>3. ASSUME GameSetsClock PROVE UNCHANGED <<launch, mbk, window, clk>>
  BY <1>3, Zenon DEF GameSetsClock, SetsFastClock
<1>4. \/ OsInit \/ FindConsole \/ RestoreRegion \/ BeforeRootHeap \/ InitRootHeap
      \/ AfterRootHeap \/ ReportDone \/ SoftReset \/ UNCHANGED vars
      => UNCHANGED <<launch, mbk, window, clk>>
  BY DEF OsInit, FindConsole, RestoreRegion, BeforeRootHeap, InitRootHeap,
         AfterRootHeap, ReportDone, SoftReset, vars
<1>5. UNCHANGED <<launch, mbk, window, clk>>
  BY <1>1, <1>2, <1>3, <1>4 DEF Next
<1> QED BY <1>5 DEF Ours, twl, loader

\* What a loader set up, and what a DS has, is left alone on every boot.
THEOREM NothingOfOthersHolds == Spec => NothingOfOthers
<1>1. StagesInv' /\ [Next]_vars =>
        [~ Ours => NothingAdded' /\ UNCHANGED <<mbk, window, clk>>]_vars
  <2> SUFFICES ASSUME StagesInv', [Next]_vars, ~ Ours
               PROVE  NothingAdded' /\ UNCHANGED <<mbk, window, clk>>
    OBVIOUS
  <2>1. (~ Ours)' /\ UNCHANGED <<mbk, window, clk>>
    BY OthersRegisters
  <2>2. NothingAdded'
    BY <2>1, NothingAddedLemma, PTL
  <2> QED BY <2>1, <2>2
<1> QED BY <1>1, StagesInvHolds, PTL DEF Spec, NothingOfOthers

-----------------------------------------------------------------------------
(***************************************************************************)
(* The clock and NWRAM.                                                    *)
(***************************************************************************)

\* isFastClock() agrees with the register whenever a game runs, on every boot
\* that had room for the stub, and says 67MHz on the others.
THEOREM ClockToldHolds == Spec => []ClockTold
<1>1. StagesInv => ClockTold
  BY SMT DEF StagesInv, ClockFits, ClockTold, BeforeClock, BeforeNwram
<1> QED BY <1>1, StagesInvHolds, PTL

\* A console whose slot registers hold the layout has its NWRAM, whatever MBK9
\* protects of them, and only that one has.
THEOREM NwramComesBackHolds == Spec => []NwramComesBack
<1>1. StagesInv => NwramComesBack
  BY SMT DEF StagesInv, NwramFits, NwramComesBack, BeforeNwram
<1> QED BY <1>1, StagesInvHolds, PTL

-----------------------------------------------------------------------------
(***************************************************************************)
(* The layout of NWRAM: what the registers' values put behind the window.  *)
(***************************************************************************)

\* The bytes of the slot registers, one after the other.
LEMMA FourSlots ==
  /\ Slots0to3 \in Seq(Nat) /\ Len(Slots0to3) = 4
  /\ Slots4to7 \in Seq(Nat) /\ Len(Slots4to7) = 4
  /\ \A j \in 1 .. 4 : /\ Slots0to3[j] = 128 + 4 * (j - 1)
                       /\ Slots4to7[j] = 144 + 4 * (j - 1)
BY SMT DEF Slots0to3, Slots4to7

\* NWRAM B and C have eight slots, numbered one after the other.
LEMMA EightSlots ==
  /\ DOMAIN (Slots0to3 \o Slots4to7) = 1 .. 8
  /\ Len(Slots0to3 \o Slots4to7) = 8
  /\ \A j \in 1 .. 8 : (Slots0to3 \o Slots4to7)[j] = 128 + 4 * (j - 1)
<1> DEFINE both == Slots0to3 \o Slots4to7
<1>1. /\ both \in Seq(Nat)
      /\ Len(both) = Len(Slots0to3) + Len(Slots4to7)
      /\ \A j \in 1 .. Len(Slots0to3) + Len(Slots4to7) :
           both[j] = IF j <= Len(Slots0to3) THEN Slots0to3[j]
                                            ELSE Slots4to7[j - Len(Slots0to3)]
  <2>1. Slots0to3 \in Seq(Nat) /\ Slots4to7 \in Seq(Nat)
    BY FourSlots
  <2> QED BY ONLY <2>1, ConcatProperties, Zenon
<1>2. DOMAIN both = 1 .. Len(both)
  BY ONLY <1>1, LenProperties, Zenon
<1> HIDE DEF both
<1>3. Len(both) = 8
  BY <1>1, FourSlots, SMT
<1>4. ASSUME NEW j \in 1 .. 8 PROVE both[j] = 128 + 4 * (j - 1)
  <2>1. CASE j <= 4
    BY <1>1, <2>1, FourSlots, SMT
  <2>2. CASE j > 4
    BY <1>1, <2>2, FourSlots, SMT
  <2> QED BY <2>1, <2>2, SMT
<1> QED BY <1>2, <1>3, <1>4 DEF both

\* The banks of the three memories, and what their registers hold.
LEMMA BanksAre ==
  /\ DOMAIN Banks = {"A", "B", "C"}
  /\ DOMAIN Banks["A"] = 1 .. 4 /\ DOMAIN Banks["B"] = 1 .. 8 /\ DOMAIN Banks["C"] = 1 .. 8
  /\ Len(Banks["A"]) = 4 /\ Len(Banks["B"]) = 8 /\ Len(Banks["C"]) = 8
  /\ \A m \in {"A", "B", "C"} : \A j \in DOMAIN Banks[m] : Banks[m][j] = 128 + 4 * (j - 1)
<1>1. DOMAIN Banks = {"A", "B", "C"} /\ Banks["A"] = Slots0to3
      /\ Banks["B"] = Slots0to3 \o Slots4to7 /\ Banks["C"] = Slots0to3 \o Slots4to7
  BY SMT DEF Banks
<1>2. DOMAIN Slots0to3 = 1 .. 4
  <2>1. Slots0to3 \in Seq(Nat) /\ Len(Slots0to3) = 4
    BY FourSlots
  <2> QED BY ONLY <2>1, LenProperties, Zenon
<1>3. /\ DOMAIN Banks["A"] = 1 .. 4 /\ DOMAIN Banks["B"] = 1 .. 8 /\ DOMAIN Banks["C"] = 1 .. 8
      /\ Len(Banks["A"]) = 4 /\ Len(Banks["B"]) = 8 /\ Len(Banks["C"]) = 8
  BY <1>1, <1>2, FourSlots, EightSlots, Zenon
<1>4. ASSUME NEW m \in {"A", "B", "C"}, NEW j \in DOMAIN Banks[m]
      PROVE  Banks[m][j] = 128 + 4 * (j - 1)
  <2>1. CASE m = "A"
    BY <1>1, <1>2, <2>1, FourSlots, Zenon
  <2>2. CASE m # "A"
    BY <1>1, <2>2, EightSlots, Zenon
  <2> QED BY <2>1, <2>2
<1> QED BY <1>1, <1>3, <1>4, Zenon

\* The pages of the window, and the byte that answers at each: A's four banks
\* have two pages each, B's and C's eight have one.
PageAt(k) == BASE + \h8000 * k
Answer(k) ==
  IF k < 8 THEN <<"A", k \div 2 + 1, \h8000 * (k % 2)>>
  ELSE IF k < 16 THEN <<"B", k - 7, 0>> ELSE <<"C", k - 15, 0>>

\* A bank's slot is its number, and it is the ARM9's.
LEMMA SlotsInOrder ==
  ASSUME NEW j \in 1 .. 8
  PROVE  /\ Enabled(128 + 4 * (j - 1)) /\ Master(128 + 4 * (j - 1)) = 0
         /\ Slot(128 + 4 * (j - 1)) = j - 1
BY SMT DEF Enabled, Master, Slot

\* The banks of one memory that answer at a page.
BanksAt(m, unit) ==
  {k \in DOMAIN Banks[m] :
     /\ Window[m].start <= unit /\ unit < Window[m].end
     /\ Enabled(Banks[m][k]) /\ Master(Banks[m][k]) = 0
     /\ Slot(Banks[m][k]) = unit % Len(Banks[m])}

\* Each memory answers in its own part of the window, with one bank.
LEMMA BanksAnswering ==
  /\ \A unit \in 0 .. 11 : BanksAt("A", unit) = IF unit < 4 THEN {unit + 1} ELSE {}
  /\ \A unit \in 0 .. 23 :
       /\ BanksAt("B", unit) = IF unit \in 8 .. 15 THEN {unit - 7} ELSE {}
       /\ BanksAt("C", unit) = IF unit \in 16 .. 23 THEN {unit - 15} ELSE {}
<1>1. /\ Window["A"].start = 0 /\ Window["A"].end = 4
      /\ Window["B"].start = 8 /\ Window["B"].end = 16
      /\ Window["C"].start = 16 /\ Window["C"].end = 24
  BY SMT DEF Window
<1>2. \A m \in {"A", "B", "C"} : \A k \in DOMAIN Banks[m] :
        /\ Enabled(Banks[m][k]) /\ Master(Banks[m][k]) = 0 /\ Slot(Banks[m][k]) = k - 1
  <2> SUFFICES ASSUME NEW m \in {"A", "B", "C"}, NEW k \in DOMAIN Banks[m]
               PROVE  /\ Enabled(Banks[m][k]) /\ Master(Banks[m][k]) = 0
                      /\ Slot(Banks[m][k]) = k - 1
    OBVIOUS
  <2>1. k \in 1 .. 8 /\ Banks[m][k] = 128 + 4 * (k - 1)
    BY BanksAre, SMT
  <2> QED BY <2>1, SlotsInOrder
<1>3. ASSUME NEW m \in {"A", "B", "C"}, NEW unit \in Nat
      PROVE  BanksAt(m, unit) =
               {k \in 1 .. Len(Banks[m]) : /\ Window[m].start <= unit /\ unit < Window[m].end
                                           /\ k - 1 = unit % Len(Banks[m])}
  <2>1. DOMAIN Banks[m] = 1 .. Len(Banks[m])
    BY BanksAre, Zenon
  <2>2. ASSUME NEW k \in DOMAIN Banks[m]
        PROVE  /\ Enabled(Banks[m][k]) /\ Master(Banks[m][k]) = 0
               /\ Slot(Banks[m][k]) = k - 1
    BY <1>2, Zenon
  <2> QED BY <2>1, <2>2, Zenon DEF BanksAt
<1>4. ASSUME NEW unit \in 0 .. 11
      PROVE  BanksAt("A", unit) = IF unit < 4 THEN {unit + 1} ELSE {}
  <2>0. unit \in Nat
    BY SMT
  <2>1. BanksAt("A", unit) =
          {k \in 1 .. 4 : 0 <= unit /\ unit < 4 /\ k - 1 = unit % 4}
    <3>1. Len(Banks["A"]) = 4 /\ Window["A"].start = 0 /\ Window["A"].end = 4
      BY <1>1, BanksAre, Zenon
    <3>2. BanksAt("A", unit) =
            {k \in 1 .. Len(Banks["A"]) :
               /\ Window["A"].start <= unit /\ unit < Window["A"].end
               /\ k - 1 = unit % Len(Banks["A"])}
      BY ONLY <1>3, <2>0, Zenon
    <3> QED BY ONLY <3>1, <3>2, Zenon
  <2>2. ASSUME NEW k \in 1 .. 4, unit < 4 PROVE k - 1 = unit % 4 <=> k = unit + 1
    BY <2>2, SMT
  <2>3. CASE unit < 4
    BY <2>1, <2>2, <2>3, SMT
  <2>4. CASE ~ (unit < 4)
    BY <2>1, <2>4, SMT
  <2> QED BY <2>3, <2>4, SMT
<1>5. ASSUME NEW unit \in 0 .. 23
      PROVE  BanksAt("B", unit) = IF unit \in 8 .. 15 THEN {unit - 7} ELSE {}
  <2>0. unit \in Nat
    BY SMT
  <2>1. BanksAt("B", unit) =
          {k \in 1 .. 8 : 8 <= unit /\ unit < 16 /\ k - 1 = unit % 8}
    <3>1. Len(Banks["B"]) = 8 /\ Window["B"].start = 8 /\ Window["B"].end = 16
      BY <1>1, BanksAre, Zenon
    <3>2. BanksAt("B", unit) =
            {k \in 1 .. Len(Banks["B"]) :
               /\ Window["B"].start <= unit /\ unit < Window["B"].end
               /\ k - 1 = unit % Len(Banks["B"])}
      BY ONLY <1>3, <2>0, Zenon
    <3> QED BY ONLY <3>1, <3>2, Zenon
  <2>2. ASSUME NEW k \in 1 .. 8, unit \in 8 .. 15 PROVE k - 1 = unit % 8 <=> k = unit - 7
    BY <2>2, SMT
  <2>3. CASE unit \in 8 .. 15
    BY <2>1, <2>2, <2>3, SMT
  <2>4. CASE ~ (unit \in 8 .. 15)
    BY <2>1, <2>4, SMT
  <2> QED BY <2>3, <2>4, SMT
<1>6. ASSUME NEW unit \in 0 .. 23
      PROVE  BanksAt("C", unit) = IF unit \in 16 .. 23 THEN {unit - 15} ELSE {}
  <2>0. unit \in Nat
    BY SMT
  <2>1. BanksAt("C", unit) =
          {k \in 1 .. 8 : 16 <= unit /\ unit < 24 /\ k - 1 = unit % 8}
    <3>1. Len(Banks["C"]) = 8 /\ Window["C"].start = 16 /\ Window["C"].end = 24
      BY <1>1, BanksAre, Zenon
    <3>2. BanksAt("C", unit) =
            {k \in 1 .. Len(Banks["C"]) :
               /\ Window["C"].start <= unit /\ unit < Window["C"].end
               /\ k - 1 = unit % Len(Banks["C"])}
      BY ONLY <1>3, <2>0, Zenon
    <3> QED BY ONLY <3>1, <3>2, Zenon
  <2>2. ASSUME NEW k \in 1 .. 8, unit \in 16 .. 23 PROVE k - 1 = unit % 8 <=> k = unit - 15
    BY <2>2, SMT
  <2>3. CASE unit \in 16 .. 23
    BY <2>1, <2>2, <2>3, SMT
  <2>4. CASE ~ (unit \in 16 .. 23)
    BY <2>1, <2>4, SMT
  <2> QED BY <2>3, <2>4, SMT
<1> QED BY <1>4, <1>5, <1>6

\* Exactly one byte answers at each page of the window.
LEMMA OneAnswer ==
  ASSUME NEW k \in 0 .. 23
  PROVE  BytesAt(PageAt(k)) = {Answer(k)}
<1> DEFINE Found(m) ==
      {<<m, b, (PageAt(k) - BASE) % Unit[m]>> :
         b \in BanksAt(m, (PageAt(k) - BASE) \div Unit[m])}
<1>1. BytesAt(PageAt(k)) = UNION {Found(m) : m \in {"A", "B", "C"}}
  BY BanksAre, Zenon DEF BytesAt, BanksAt
<1>2. /\ (PageAt(k) - BASE) \div Unit["A"] = k \div 2
      /\ (PageAt(k) - BASE) % Unit["A"] = \h8000 * (k % 2)
      /\ (PageAt(k) - BASE) \div Unit["B"] = k /\ (PageAt(k) - BASE) % Unit["B"] = 0
      /\ (PageAt(k) - BASE) \div Unit["C"] = k /\ (PageAt(k) - BASE) % Unit["C"] = 0
  BY SMT DEF PageAt, BASE, Unit
<1>3. Found("A") = IF k < 8 THEN {<<"A", k \div 2 + 1, \h8000 * (k % 2)>>} ELSE {}
  <2>1. k \div 2 \in 0 .. 11 /\ (k \div 2 < 4 <=> k < 8)
    BY SMT
  <2> QED BY <1>2, <2>1, BanksAnswering, SMT
<1>4. Found("B") = IF k \in 8 .. 15 THEN {<<"B", k - 7, 0>>} ELSE {}
  BY <1>2, BanksAnswering, SMT
<1>5. Found("C") = IF k \in 16 .. 23 THEN {<<"C", k - 15, 0>>} ELSE {}
  BY <1>2, BanksAnswering, SMT
<1>6. BytesAt(PageAt(k)) = Found("A") \cup Found("B") \cup Found("C")
  <2> HIDE DEF Found
  <2> QED BY <1>1, Zenon
<1> HIDE DEF Found
<1> QED BY <1>3, <1>4, <1>5, <1>6, SMT DEF Answer

\* No byte answers at two pages.
LEMMA AnswersDiffer ==
  ASSUME NEW j \in 0 .. 23, NEW k \in 0 .. 23, Answer(j) = Answer(k)
  PROVE  j = k
BY SMT DEF Answer

\* The window is tiled whole.
LEMMA WindowTiled == Tiled(BASE, BASE + SIZE)
<1> DEFINE steps == {BASE + \h8000 * k : k \in 0 .. ((BASE + SIZE) - BASE) \div \h8000 - 1}
<1>1. \A p \in steps : \E k \in 0 .. 23 : p = PageAt(k)
  <2>1. ((BASE + SIZE) - BASE) \div \h8000 - 1 = 23
    BY SMT DEF BASE, SIZE
  <2> QED BY <2>1, SMT DEF PageAt
<1>2. (\A p \in steps : \E byte \in BytesAt(p) : BytesAt(p) = {byte})
        /\ (\A p, q \in steps : BytesAt(p) = BytesAt(q) => p = q)
      => Tiled(BASE, BASE + SIZE)
  BY SMT DEF Tiled
<1> HIDE DEF steps
<1>3. ASSUME NEW p \in steps PROVE \E byte \in BytesAt(p) : BytesAt(p) = {byte}
  <2>1. PICK k \in 0 .. 23 : p = PageAt(k)
    BY <1>1, Zenon
  <2>2. BytesAt(p) = {Answer(k)}
    BY <2>1, OneAnswer, Zenon
  <2> QED BY <2>2, Zenon
<1>4. ASSUME NEW p \in steps, NEW q \in steps, BytesAt(p) = BytesAt(q) PROVE p = q
  <2>1. PICK j \in 0 .. 23 : p = PageAt(j)
    BY <1>1, Zenon
  <2>2. PICK k \in 0 .. 23 : q = PageAt(k)
    BY <1>1, Zenon
  <2>3. Answer(j) = Answer(k)
    BY <1>4, <2>1, <2>2, OneAnswer, Zenon
  <2> QED BY <2>1, <2>2, <2>3, AnswersDiffer, Zenon
<1> QED BY <1>2, <1>3, <1>4, Zenon

\* A heap in NWRAM stands on every register and has exactly one bank behind each
\* of its pages; registers that took only in part leave region 1 as narrow as it
\* was.
THEOREM NwramAllOrNothingHolds == Spec => []NwramAllOrNothing
<1>1. StagesInv => NwramAllOrNothing
  <2> SUFFICES ASSUME StagesInv PROVE NwramAllOrNothing
    OBVIOUS
  <2>1. nwramHeap # None => AllOurs(mbk) /\ window /\ works /\ granted
    BY Zenon DEF StagesInv, HeapsFit, NwramFits
  <2>2. NWRAM.lo = BASE /\ NWRAM.hi = BASE + SIZE
    BY SMT DEF NWRAM
  <2>3. nwramHeap # None => Tiled(nwramHeap.lo, nwramHeap.hi)
    BY <2>2, WindowTiled, Zenon DEF StagesInv, HeapsFit
  <2>4. Ours /\ ~ AllOurs(mbk) => nwramHeap = None
    BY <2>1, Zenon
  <2>5. Ours /\ pc = "game" /\ ~ AllOurs(mbk) => region1 = REGION1_16MB
    BY SMT DEF StagesInv, RegionFits, Ours, BeforeNwram
  <2> QED BY <2>1, <2>3, <2>4, <2>5, Zenon DEF NwramAllOrNothing
<1> QED BY <1>1, StagesInvHolds, PTL

-----------------------------------------------------------------------------
(***************************************************************************)
(* The promise of dsi.hpp.                                                 *)
(***************************************************************************)

\* Nothing is promised before the game comes up.
LEMMA ApiInit == Init => Promised!Init
<1> SUFFICES ASSUME Init PROVE Promised!Init
  OBVIOUS
<1>1. launch \in {"ds", "launcher", "loader"} /\ Up = FALSE
  BY SMT DEF Init, Up
<1>2. Answers = Promised!Silent /\ (Up /\ fastClock) = FALSE
  BY <1>1, Zenon DEF Answers, Promised!Silent
<1> QED BY <1>1, <1>2, Zenon DEF Promised!Init

\* Nobody can ask before the game runs, so the stages do nothing there.
LEMMA ApiQuiet ==
  ASSUME pc # "game", pc' # "game", launch' = launch
  PROVE  UNCHANGED Promised!vars
<1>1. Up = FALSE /\ Up' = FALSE
  BY Zenon DEF Up
<1>2. Answers' = Answers
  BY <1>1, Zenon DEF Answers
<1>3. (Up /\ fastClock)' = (Up /\ fastClock)
  BY <1>1, Zenon
<1> QED BY <1>1, <1>2, <1>3, Zenon DEF Promised!vars

\* The game comes up with what is promised to it.
LEMMA ApiComesUp == StagesInv /\ ReportDone => Promised!ComeUp
<1> SUFFICES ASSUME StagesInv, ReportDone PROVE Promised!ComeUp
  OBVIOUS
<1>1. Up = FALSE /\ Up' = TRUE /\ launch' = launch
  BY SMT DEF ReportDone, world, Up
<1>2. /\ twl' = twl /\ loader' = loader /\ console' = console
      /\ extendedRam' = extendedRam /\ fastClock' = fastClock
      /\ extendedHeap' = extendedHeap /\ lowHeap' = lowHeap /\ nwramHeap' = nwramHeap
  BY <1>1, SMT DEF ReportDone, answers, clock, twl, loader
<1>3. Answers' = [isConsole |-> console, isTwlMode |-> twl, isLoaderBoot |-> loader,
                  hasExtendedRam |-> extendedRam, extendedHeap |-> extendedHeap # None,
                  lowHeap |-> lowHeap # None, nwramHeap |-> nwramHeap # None]
  <2>1. (Up /\ console)' = console /\ (Up /\ extendedRam)' = extendedRam
    BY <1>1, <1>2, Zenon DEF StagesInv, TypeOK
  <2>2. (Up /\ twl)' = twl /\ (Up /\ loader)' = loader
    BY <1>1, Zenon DEF twl, loader
  <2>3. /\ (Up /\ extendedHeap # None)' = (extendedHeap # None)
        /\ (Up /\ lowHeap # None)' = (lowHeap # None)
        /\ (Up /\ nwramHeap # None)' = (nwramHeap # None)
    BY <1>1, <1>2, Zenon
  <2> QED BY <2>1, <2>2, <2>3, Zenon DEF Answers
<1>4. Answers' \in Promised!Answers
  BY <1>3, Zenon DEF Promised!Answers, StagesInv, TypeOK, twl, loader
<1>5. /\ twl <=> launch # "ds"
      /\ loader <=> launch = "loader"
      /\ twl => console
      /\ extendedRam \/ nwramHeap # None => launch = "launcher"
      /\ extendedHeap # None \/ lowHeap # None => extendedRam
  <2>1. twl => console
    BY SMT DEF StagesInv, ConsoleFits, ReportDone
  <2>2. Ours => launch = "launcher"
    BY SMT DEF StagesInv, Ours, twl, loader, TypeOK
  <2>3. extendedRam \/ nwramHeap # None => Ours
    BY Zenon DEF StagesInv, HeapsFit, Extends
  <2>4. extendedHeap # None \/ lowHeap # None => extendedRam
    BY Zenon DEF StagesInv, HeapsFit
  <2> QED BY <2>1, <2>2, <2>3, <2>4, Zenon DEF twl, loader
<1>6. Answers' \in Promised!Allowed(launch)
  <2>1. /\ Answers'.isConsole = console /\ Answers'.isTwlMode = twl
        /\ Answers'.isLoaderBoot = loader /\ Answers'.hasExtendedRam = extendedRam
        /\ Answers'.extendedHeap = (extendedHeap # None)
        /\ Answers'.lowHeap = (lowHeap # None) /\ Answers'.nwramHeap = (nwramHeap # None)
    BY <1>3, Zenon
  <2> QED BY <1>4, <1>5, <2>1, Zenon DEF Promised!Allowed
<1>7. (Up /\ fastClock)' \in {FALSE, launch # "ds"}
  BY <1>1, <1>2, Zenon DEF StagesInv, ClockFits, twl, TypeOK
<1> QED BY <1>1, <1>6, <1>7, Zenon DEF Promised!ComeUp

\* A call of setFastClock changes the clock at most.
LEMMA ApiSetsClock == StagesInv /\ GameSetsClock => [Promised!Next]_Promised!vars
<1> SUFFICES ASSUME StagesInv, GameSetsClock PROVE [Promised!Next]_Promised!vars
  OBVIOUS
<1>1. Up = TRUE /\ Up' = TRUE /\ launch' = launch
  BY SMT DEF GameSetsClock, world, Up
<1>2. /\ Up' = Up /\ twl' = twl /\ loader' = loader /\ console' = console
      /\ extendedRam' = extendedRam
      /\ extendedHeap' = extendedHeap /\ lowHeap' = lowHeap /\ nwramHeap' = nwramHeap
  BY <1>1, SMT DEF GameSetsClock, answers, twl, loader
<1>3. Answers' = Answers
  BY <1>2, Zenon DEF Answers
<1>4. CASE Ours /\ ScfgUnlocked(ext9) /\ stubFits
  <2>1. launch = "launcher"
    BY <1>4, SMT DEF Ours, twl, loader, StagesInv, TypeOK
  <2>2. fastClock' \in BOOLEAN
    BY <1>4, Zenon DEF GameSetsClock, SetsFastClock
  <2>3. (Up /\ fastClock)' \in BOOLEAN
    BY <1>1, <2>2, Zenon
  <2>4. Promised!SetFastClock
    BY <1>1, <1>3, <2>1, <2>3, Zenon DEF Promised!SetFastClock
  <2> QED BY <2>4 DEF Promised!Next
<1>5. CASE ~ (Ours /\ ScfgUnlocked(ext9) /\ stubFits)
  <2>1. fastClock' = fastClock
    BY <1>5, Zenon DEF GameSetsClock, SetsFastClock, clock
  <2>2. (Up /\ fastClock)' = (Up /\ fastClock)
    BY <1>1, <2>1, Zenon
  <2> QED BY <1>1, <1>3, <2>2, Zenon DEF Promised!vars
<1> QED BY <1>4, <1>5

\* A soft reset of the stages is one of the API.
LEMMA ApiResets == SoftReset => Promised!Reset
<1> SUFFICES ASSUME SoftReset PROVE Promised!Reset
  OBVIOUS
<1> USE DEF SoftReset, world
<1>1. Up = TRUE /\ Up' = FALSE /\ launch' = launch
  BY SMT DEF Up
<1>2. Answers' = Promised!Silent /\ (Up /\ fastClock)' = FALSE
  BY <1>1, Zenon DEF Answers, Promised!Silent
<1> QED BY <1>1, <1>2, Zenon DEF Promised!Reset

\* Every step of the stages is one of the API or none.
LEMMA ApiStep == StagesInv /\ [Next]_vars => [Promised!Next]_Promised!vars
<1> SUFFICES ASSUME StagesInv, [Next]_vars PROVE [Promised!Next]_Promised!vars
  OBVIOUS
<1>1. CASE \/ OsInit \/ FindConsole \/ NwramInit \/ RestoreRegion \/ ClockInit
           \/ BeforeRootHeap \/ InitRootHeap \/ AfterRootHeap
  <2>1. pc # "game" /\ pc' # "game" /\ launch' = launch
    BY <1>1, Zenon DEF OsInit, FindConsole, NwramInit, RestoreRegion, ClockInit,
       BeforeRootHeap, InitRootHeap, AfterRootHeap, world
  <2> QED BY <2>1, ApiQuiet
<1>2. CASE ReportDone
  BY <1>2, ApiComesUp DEF Promised!Next
<1>3. CASE GameSetsClock
  BY <1>3, ApiSetsClock
<1>4. CASE SoftReset
  BY <1>4, ApiResets DEF Promised!Next
<1>5. CASE UNCHANGED vars
  <2>1. /\ launch' = launch /\ Up' = Up /\ fastClock' = fastClock /\ twl' = twl
        /\ loader' = loader /\ console' = console /\ extendedRam' = extendedRam
        /\ extendedHeap' = extendedHeap /\ lowHeap' = lowHeap /\ nwramHeap' = nwramHeap
    BY <1>5, SMT DEF vars, world, nw, mpu, answers, clock, Up, twl, loader
  <2>2. Answers' = Answers
    BY <2>1, Zenon DEF Answers
  <2> QED BY <2>1, <2>2, Zenon DEF Promised!vars
<1> QED BY <1>1, <1>2, <1>3, <1>4, <1>5, Zenon DEF Next

\* The stages keep what dsi.hpp says of its queries: settled when the game comes
\* up, the clock alone excepted, and nothing for a game no launcher started.
THEOREM ImplementsApi == Spec => KeepsApi
<1>1. Spec => Promised!Spec
  BY ApiInit, ApiStep, StagesInvHolds, PTL DEF Spec, Promised!Spec
<1> QED BY <1>1 DEF KeepsApi

-----------------------------------------------------------------------------
(***************************************************************************)
(* The verdict of the harness on a boot (check() in tools/harness/run.py). *)
(***************************************************************************)

\* Rounding a span to the allocator's 32 bytes costs less than 64.
LEMMA RoundedLoss ==
  ASSUME NEW span \in Spans, span.hi - span.lo > \h2000
  PROVE  /\ HeapSpan(span).hi - HeapSpan(span).lo > span.hi - span.lo - 64
         /\ HeapSpan(span) # None
<1> DEFINE s == RoundUp(span.lo)
           e == RoundDown(span.hi)
<1>1. span.lo \in Nat /\ span.hi \in Nat
  BY SMT DEF Spans
<1>2. s \in Nat /\ e \in Nat /\ s < span.lo + 32 /\ span.hi < e + 32
  BY <1>1, SMT DEF RoundUp, RoundDown
<1> HIDE DEF s, e
<1>3. HeapSpan(span) = IF e <= s + \h1000 THEN None ELSE [lo |-> s, hi |-> e]
  BY SMT DEF HeapSpan, s, e
<1>4. ~ (e <= s + \h1000)
  BY <1>1, <1>2, SMT
<1>5. HeapSpan(span) = [lo |-> s, hi |-> e]
  BY <1>3, <1>4, SMT
<1> QED BY <1>1, <1>2, <1>4, <1>5, SMT DEF None

\* What passes has all it should have.
LEMMA PassIsWhole == StagesInv /\ WorldFits => PassMeansWhole
<1> SUFFICES ASSUME StagesInv, WorldFits, pc = "report"
             PROVE  /\ PassesAsDsi =>
                         /\ launch = "launcher" /\ AllIn /\ AllGot /\ clk
                         /\ rootHeap = [lo |-> DSI_ROOT_HEAP_START, hi |-> DSI_ROOT_HEAP_END]
                         /\ works /\ AllOurs(mbk) /\ window /\ region1 = REGION1_32MB
                    /\ PassesAsDs => launch = "ds" /\ ~ console /\ extendedRam = FALSE
  BY Zenon DEF PassMeansWhole
<1> USE DEF StagesInv
<1>0. pc \notin BeforeHeaps \cup {"game"} /\ pc \notin BeforeRoot /\ pc \notin BeforeClock
      /\ pc \notin BeforeNwram \cup {"restoreRegion"} /\ pc \notin {"osInit", "findConsole"}
  BY SMT DEF BeforeHeaps, BeforeRoot, BeforeClock, BeforeNwram
<1>1. ASSUME PassesAsDsi
      PROVE  /\ launch = "launcher" /\ AllIn /\ AllGot /\ clk
             /\ rootHeap = [lo |-> DSI_ROOT_HEAP_START, hi |-> DSI_ROOT_HEAP_END]
             /\ works /\ AllOurs(mbk) /\ window /\ region1 = REGION1_32MB
  <2>1. Ours /\ launch = "launcher" /\ fastClock
    BY <1>1, SMT DEF PassesAsDsi, Ours, twl, loader, TypeOK
  <2>2. SizeOf(None) = 0
    BY Zenon DEF SizeOf
  <2>3. rootHeap # None /\ extendedHeap # None /\ lowHeap # None /\ nwramHeap # None
    BY <1>1, <2>2, SMT DEF PassesAsDsi, LargeEnough
  <2>4. clk /\ stubFits /\ "FastClock" \in on
    BY <1>0, <2>1, Zenon DEF ClockFits
  <2>5. Extends /\ "ExtendedRam" \in on
    BY <2>3, Zenon DEF HeapsFit, Extends
  <2>6. mapped /\ "NWram" \in on /\ works /\ AllOurs(mbk) /\ window
    BY <2>3, Zenon DEF HeapsFit, NwramFits
  <2>7. AllIn
    BY <2>4, <2>5, <2>6, Zenon DEF AllIn, WorldFits
  <2>8. rootHeap = RootSpan
    BY <1>0, <2>3, <2>5, Zenon DEF HeapsFit, ArenaFits
  <2>9. region1 = REGION1_32MB
    BY <1>0, <2>1, <2>6, Zenon DEF RegionFits, Ours
  <2> QED BY <2>1, <2>3, <2>4, <2>6, <2>7, <2>8, <2>9, Zenon DEF AllGot, RootSpan
<1>2. ASSUME PassesAsDs PROVE launch = "ds" /\ ~ console /\ extendedRam = FALSE
  <2>1. ~ twl /\ ~ snd
    BY <1>2, SMT DEF PassesAsDs, Flags7
  <2>2. launch = "ds" /\ ~ Ours
    BY <2>1, Zenon DEF twl, Ours
  <2>3. ~ console
    BY <2>1, Zenon DEF ConsoleFits
  <2>4. extendedRam = FALSE
    BY <2>2, Zenon DEF HeapsFit, Extends, TypeOK
  <2> QED BY <2>2, <2>3, <2>4
<1> QED BY <1>1, <1>2

\* What has all it should have passes.
LEMMA WholeIsPass == StagesInv /\ WorldFits => WholePasses
<1> SUFFICES ASSUME StagesInv, WorldFits, pc = "report"
             PROVE  /\ launch = "launcher" /\ AllIn /\ AllGot /\ low.hi - low.lo > \h1F0000
                      /\ ext9 = {31, 25, 24, 18, 17, 16, 15, 14} => PassesAsDsi
                    /\ launch = "ds" /\ ~ snd /\ region1 = REGION1_4MB => PassesAsDs
  BY SMT DEF WholePasses
<1> USE DEF StagesInv
<1>0. pc \notin BeforeHeaps \cup {"game"} /\ pc \notin BeforeRoot /\ pc \notin BeforeClock
      /\ pc \notin {"osInit", "findConsole"}
  BY SMT DEF BeforeHeaps, BeforeRoot, BeforeClock, BeforeNwram
<1>1. ASSUME launch = "launcher", AllIn, AllGot, low.hi - low.lo > \h1F0000,
             ext9 = {31, 25, 24, 18, 17, 16, 15, 14}
      PROVE  PassesAsDsi
  <2>1. twl /\ ~ loader /\ Ours /\ Extends /\ "FastClock" \in on /\ stubFits
    BY <1>1, SMT DEF Ours, Extends, twl, loader, AllIn, AllGot
  <2>2. rootHeap # None /\ extendedHeap # None /\ lowHeap # None /\ nwramHeap # None
    BY <1>1, SMT DEF AllGot
  <2>3. console /\ fastClock /\ snd
    <3>1. snd
      BY <2>1, Zenon DEF WorldFits
    <3>2. console
      BY <1>0, <2>1, Zenon DEF ConsoleFits
    <3>3. fastClock
      BY <1>0, <2>1, Zenon DEF ClockFits
    <3> QED BY <3>1, <3>2, <3>3
  <2>4. Flags7 = {"DSI_CONSOLE", "TWL_MODE", "BOOT_AREA_OK"}
    BY <2>1, <2>3, SMT DEF Flags7
  <2>5. rootHeap = RootSpan /\ low \in ArenasLeft
    BY <1>0, <2>1, <2>2, Zenon DEF HeapsFit, ArenaFits, SdkArenas
  <2>6. rootHeap.lo = \h02800000 /\ rootHeap.hi = \h02FE0000
    BY <2>5, SMT DEF RootSpan, DSI_ROOT_HEAP_START, DSI_ROOT_HEAP_END
  <2>7. extendedHeap.hi - extendedHeap.lo > 4063232 - 64
    <3>1. ExtSpan \in Spans /\ ExtSpan.hi - ExtSpan.lo = 4063232
      BY SMT DEF ExtSpan, Spans, DSI_EXT_HEAP_START, DSI_EXT_HEAP_END
    <3>2. extendedHeap = HeapSpan(ExtSpan)
      BY <2>2, Zenon DEF HeapsFit
    <3> QED BY <3>1, <3>2, RoundedLoss, SMT
  <2>8. lowHeap.hi - lowHeap.lo > \h1F0000 - 64
    <3>1. low \in Spans
      BY <2>5, ArenaAssumption, SMT
    <3>2. lowHeap = HeapSpan(low)
      BY <2>2, Zenon DEF HeapsFit
    <3>3. low.lo \in Nat /\ low.hi \in Nat /\ low.hi - low.lo > \h2000
      BY <1>1, <3>1, SMT DEF Spans
    <3>4. HeapSpan(low).hi - HeapSpan(low).lo > low.hi - low.lo - 64
      BY <3>1, <3>3, RoundedLoss, SMT
    <3>5. lowHeap.lo \in Nat /\ lowHeap.hi \in Nat
      <4>1. Within(HeapSpan(low), low)
        BY <2>2, <3>1, <3>2, HeapSpanInside, Zenon
      <4> QED BY <3>2, <4>1, SMT DEF Within, Spans
    <3> QED BY <1>1, <3>2, <3>3, <3>4, <3>5, SMT
  <2>9. nwramHeap.hi - nwramHeap.lo = 786432
    BY <2>2, SMT DEF HeapsFit, NWRAM, BASE, SIZE
  <2>10. /\ SizeOf(rootHeap) = rootHeap.hi - rootHeap.lo - HeapHeader
         /\ StartOf(rootHeap) = rootHeap.lo + HeapHeader
         /\ SizeOf(extendedHeap) = extendedHeap.hi - extendedHeap.lo - HeapHeader
         /\ SizeOf(lowHeap) = lowHeap.hi - lowHeap.lo - HeapHeader
         /\ SizeOf(nwramHeap) = nwramHeap.hi - nwramHeap.lo - HeapHeader
    BY <2>2, Zenon DEF SizeOf, StartOf
  <2>11. /\ extendedHeap \in Spans /\ lowHeap \in Spans
    BY <2>1, <2>2, HeapsPlaced, Zenon DEF Within
  <2>12. /\ SizeOf(rootHeap) > 7800000 /\ SizeOf(extendedHeap) > 4000000
         /\ SizeOf(lowHeap) > 2000000 /\ SizeOf(nwramHeap) > 780000
         /\ StartOf(rootHeap) + SizeOf(rootHeap) <= \h02FE0000
    BY <2>6, <2>7, <2>8, <2>9, <2>10, <2>11, HeaderAssumption, SMT DEF Spans
  <2> QED BY <1>1, <2>1, <2>3, <2>4, <2>6, <2>12, SMT DEF PassesAsDsi, LargeEnough
<1>2. ASSUME launch = "ds", ~ snd, region1 = REGION1_4MB
      PROVE  PassesAsDs
  <2>1. ~ twl /\ ~ loader /\ ~ Ours /\ ~ Extends
    BY <1>2, SMT DEF twl, loader, Ours, Extends
  <2>2. Flags7 = {}
    BY <1>2, <2>1, SMT DEF Flags7
  <2>3. extendedHeap = None /\ lowHeap = None /\ nwramHeap = None
    BY <2>1, Zenon DEF HeapsFit
  <2>4. rootHeap = None \/ rootHeap \in ArenasLeft
    BY <1>0, <2>1, Zenon DEF HeapsFit, ArenaFits, SdkArenas
  <2>5. rootHeap.lo < \h02400000
    BY <2>4, ArenaAssumption, SMT DEF Spans, None
  <2> QED BY <1>2, <2>1, <2>2, <2>3, <2>5, SMT DEF PassesAsDs
<1> QED BY <1>1, <1>2, SMT

\* check() tells a whole boot from one that lacks something, in both directions,
\* whatever the arena, the header of a heap and the component set.
THEOREM ChecksTellHolds == Spec => []ChecksTell
<1>1. StagesInv /\ WorldFits => ChecksTell
  BY PassIsWhole, WholeIsPass DEF ChecksTell
<1> QED BY <1>1, StagesInvHolds, WorldHolds, PTL

=============================================================================
