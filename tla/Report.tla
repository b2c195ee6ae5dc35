------------------------------- MODULE Report -------------------------------
(***************************************************************************)
(* The boot report (source9/report): how its address gets into the shared  *)
(* block the ARM7 fills in on every boot, the figures the frame hooks keep *)
(* in it, and what tools/harness makes of both when it stops the console   *)
(* at any moment and reads RAM (printReport in tools/harness/main.cpp).    *)
(*                                                                         *)
(* The ARM9 writes the report through its data cache: rep is the report as *)
(* the ARM9 sees it, ram as it is in memory.  The block is not cached.     *)
(***************************************************************************)
EXTENDS Naturals, Sequences, FiniteSets

CONSTANTS
  Heaps,       \* the heaps the report describes
  Window,      \* REPORT_WORK_WINDOW
  Works,       \* ticks a frame's work can take
  Frees,       \* what vMemoryLeft() can answer
  MaxFrames    \* bound on the frames of one run

ASSUME WindowAssumption == Window \in Nat \ {0} /\ MaxFrames \in Nat
ASSUME FiguresAssumption == Works \subseteq Nat /\ Frees \subseteq Nat

Slots    == 0 .. Window - 1
\* The block and the report, as far as the properties tell them apart.
NoHeap   == [there |-> FALSE, now |-> 0, min |-> 0]
NoBlock  == [magic |-> FALSE, report |-> FALSE, value |-> "junk"]
Blank    == [magic |-> FALSE, copy |-> NoBlock,
             figures |-> [frames |-> 0, ticks |-> [s \in Slots |-> 0],
                          heap |-> [h \in Heaps |-> NoHeap]]]

VARIABLES
  present,     \* heaps that exist in this run
  free,        \* what each heap has left
  blk,         \* the shared block; `report` is SHARED_REPORT
  rep, ram,    \* dsi::report, in the cache and in memory
  frameStart,  \* report.cpp's frameStart, 0 before the first frame
  now,         \* OS_GetTick()
  pc7, pc9,
  worked,      \* history: ticks of work of each counted frame
  sampled,     \* history: what was ever sampled of each heap,
  latest       \* and what it had left when it was last sampled

report  == <<rep, ram>>
history == <<worked, sampled, latest>>
vars    == <<present, free, blk, rep, ram, frameStart, now, pc7, pc9, worked, sampled,
             latest>>

Init ==
  /\ present \in SUBSET Heaps
  /\ free \in [Heaps -> Frees]
  /\ blk \in {NoBlock, [magic |-> TRUE, report |-> TRUE, value |-> "junk"]}
  /\ rep = Blank /\ ram = Blank
  /\ frameStart = 0 /\ now = 1
  /\ pc7 = "value" /\ pc9 = "osInit"
  /\ worked = <<>> /\ sampled = [h \in Heaps |-> {}]
  /\ latest = [h \in Heaps |-> 0]

(***************************************************************************)
(* The ARM7's part of every boot.  Its flags byte is assigned whole, so    *)
(* SHARED_REPORT of the run before goes.                                   *)
(***************************************************************************)
PublishArm7 ==
  /\ \/ pc7 = "value" /\ blk' = [blk EXCEPT !.value = "ext7"]   /\ pc7' = "flags"
     \/ pc7 = "flags" /\ blk' = [blk EXCEPT !.report = FALSE]   /\ pc7' = "magic"
     \/ pc7 = "magic" /\ blk' = [blk EXCEPT !.magic = TRUE]     /\ pc7' = "done"
  /\ UNCHANGED <<present, free, report, frameStart, now, pc9, history>>

(***************************************************************************)
(* DSi_collectReport, at the end of the ARM9's boot, which is behind the   *)
(* PXI handshake.                                                          *)
(***************************************************************************)
\* Mutant: the lowest value starts at zero, like the rest of the report.
DescribeZero(h) ==
  IF h \in present THEN [there |-> TRUE, now |-> free[h], min |-> 0] ELSE NoHeap
Describe(h) ==
  IF h \in present THEN [there |-> TRUE, now |-> free[h], min |-> free[h]] ELSE NoHeap

\* Mutant: the block is copied when the report is already announced in it.
CopiedLate == [blk EXCEPT !.value = "report", !.report = TRUE]
Copied     == blk

Collect ==
  /\ pc9 = "osInit" /\ pc7 = "done"
  /\ rep' = [rep EXCEPT !.magic = TRUE, !.copy = Copied,
                        !.figures.heap = [h \in Heaps |-> Describe(h)]]
  /\ sampled' = [h \in Heaps |-> IF h \in present THEN {free[h]} ELSE {}]
  /\ latest' = free
  /\ pc9' = "pubValue"
  /\ UNCHANGED <<present, free, blk, ram, frameStart, now, pc7, worked>>

PublishReport ==
  /\ \/ pc9 = "pubValue" /\ blk' = [blk EXCEPT !.value = "report"] /\ pc9' = "pubFlag"
     \/ pc9 = "pubFlag"  /\ blk' = [blk EXCEPT !.report = TRUE]    /\ pc9' = "flushBoot"
  /\ UNCHANGED <<present, free, report, frameStart, now, pc7, history>>

Flush ==
  /\ \/ pc9 = "flushBoot"  /\ pc9' = "work"
     \/ pc9 = "flushFrame" /\ pc9' = "wait"
  /\ ram' = rep
  /\ UNCHANGED <<present, free, blk, rep, frameStart, now, pc7, history>>

\* The cache writes a line back when it likes.
WriteBack ==
  /\ \E f \in DOMAIN rep : ram' = [ram EXCEPT ![f] = rep[f]]
  /\ UNCHANGED <<present, free, blk, rep, frameStart, now, pc7, pc9, history>>

(***************************************************************************)
(* The game's loop: a frame's work, DSi_reportFrameEnd, the wait for       *)
(* VBlank, DSi_reportFrameStart.                                           *)
(***************************************************************************)
Work ==
  /\ pc9 = "work" /\ Len(worked) < MaxFrames
  /\ \E t \in Works :
       /\ now' = now + t
       /\ worked' = IF frameStart = 0 THEN worked ELSE Append(worked, t)
  /\ free' \in [Heaps -> Frees]
  /\ pc9' = "frameEnd"
  /\ UNCHANGED <<present, blk, report, frameStart, pc7, sampled, latest>>

\* Mutant: what is left is not updated, only the lowest.
SampleLowest(info, left) ==
  IF info.there /\ left < info.min THEN [info EXCEPT !.min = left] ELSE info
Sample(info, left) ==
  IF ~ info.there THEN info
  ELSE [info EXCEPT !.now = left, !.min = IF left < info.min THEN left ELSE info.min]

\* Mutant: the frame is counted first and stored one slot on.
SlotAfter(frames) == (frames + 1) % Window
Slot(frames)      == frames % Window

FrameEnd ==
  /\ pc9 = "frameEnd"
  /\ LET f    == rep.figures
         heap == [h \in Heaps |-> Sample(f.heap[h], free[h])]
     IN  rep' = [rep EXCEPT !.figures =
                   IF frameStart = 0 THEN [f EXCEPT !.heap = heap]
                   ELSE [frames |-> f.frames + 1,
                         ticks  |-> [f.ticks EXCEPT ![Slot(f.frames)] = now - frameStart],
                         heap   |-> heap]]
  /\ sampled' = [h \in Heaps |->
                   IF h \in present THEN sampled[h] \cup {free[h]} ELSE {}]
  /\ latest' = free
  /\ pc9' = "flushFrame"
  /\ UNCHANGED <<present, free, blk, ram, frameStart, now, pc7, worked>>

FrameStart ==
  /\ pc9 = "wait"
  /\ now' = now + 1                    \* waitVBlankIntr
  /\ frameStart' = now'
  /\ pc9' = "work"
  /\ UNCHANGED <<present, free, blk, report, pc7, history>>

\* OS_ResetSystem: both programs are loaded again, the report is zero, memory
\* may hold the old one still; the block stays.
SoftReset ==
  /\ pc9 \in {"work", "wait"}
  /\ rep' = Blank /\ ram' \in {ram, Blank}
  /\ frameStart' = 0 /\ now' = 1
  /\ pc7' = "value" /\ pc9' = "osInit"
  /\ worked' = <<>> /\ sampled' = [h \in Heaps |-> {}]
  /\ latest' = [h \in Heaps |-> 0]
  /\ UNCHANGED <<present, free, blk>>

Next ==
  \/ PublishArm7 \/ Collect \/ PublishReport \/ Flush \/ WriteBack
  \/ Work \/ FrameEnd \/ FrameStart \/ SoftReset
Spec == Init /\ [][Next]_vars

(***************************************************************************)
(* printReport(), on the console as it stands.                             *)
(***************************************************************************)
HasReport == blk.magic /\ blk.report
\* What it takes for the report: nothing at an address that is none.
Found     == IF HasReport /\ blk.value = "report" THEN ram ELSE Blank
ReportOk  == Found.magic
Arm7Shown == [(IF ReportOk THEN Found.copy ELSE blk) EXCEPT !.report = FALSE]

-----------------------------------------------------------------------------
(***************************************************************************)
(* Properties.                                                             *)
(***************************************************************************)

InGame == pc9 \in {"work", "frameEnd", "flushFrame", "wait"}

\* Whenever the console is stopped after the ARM7's part of a boot, short of
\* the moment the report is being announced, the harness shows what the ARM7
\* found on this boot, and an ARM9 report exactly when this boot has made one:
\* never the one the boot before left in memory.
HarnessReadsThisBoot ==
  pc7 = "done" /\ pc9 \notin {"pubFlag", "flushBoot"} =>
    /\ Arm7Shown = [magic |-> TRUE, report |-> FALSE, value |-> "ext7"]
    /\ ReportOk <=> InGame

\* The ring has the work, without the VBlank wait, of the last Window frames,
\* each in its slot, however often it has gone round; slots not used are zero.
RingHoldsLastFrames ==
  pc9 \in {"work", "wait"} =>
    LET f == rep.figures IN
      /\ ram.figures = f
      /\ f.frames = Len(worked)
      /\ \A n \in 1 .. Len(worked) :
           n + Window > Len(worked) => f.ticks[(n - 1) % Window] = worked[n]
      /\ \A s \in Slots : s >= Len(worked) => f.ticks[s] = 0

\* free_min is the least of all samples since boot, free_now the last of them, and
\* a heap that is not there stays all zero.
LowestSeen ==
  pc9 \in {"work", "wait"} =>
    \A h \in Heaps :
      LET info == rep.figures.heap[h] IN
        IF h \in present
        THEN /\ info.min \in sampled[h] /\ \A x \in sampled[h] : info.min <= x
             /\ info.now = latest[h]
        ELSE info = NoHeap

\* What the report says of frames and heaps is what there was to see (the frame
\* hooks).
FiguresTold == RingHoldsLastFrames /\ LowestSeen

==============================================================================
