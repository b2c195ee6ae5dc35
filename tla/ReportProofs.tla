---------------------------- MODULE ReportProofs ----------------------------
(***************************************************************************)
(* Theorems about the report, for rings of every width, every set of       *)
(* heaps, works and free amounts, and whatever the cache writes back.      *)
(***************************************************************************)
EXTENDS Report, TLAPS, Integers

Blocks   == [magic : BOOLEAN, report : BOOLEAN, value : {"junk", "ext7", "report"}]
Infos    == [there : BOOLEAN, now : Nat, min : Nat]
Figures  == [frames : Nat, ticks : [Slots -> Nat], heap : [Heaps -> Infos]]
Reports  == [magic : BOOLEAN, copy : Blocks, figures : Figures]
Arm7Done == [magic |-> TRUE, report |-> FALSE, value |-> "ext7"]
Game     == {"work", "frameEnd", "flushFrame", "wait"}

TypeOK ==
  /\ present \subseteq Heaps /\ free \in [Heaps -> Nat]
  /\ blk \in Blocks /\ rep \in Reports /\ ram \in Reports
  /\ frameStart \in Nat /\ now \in Nat \ {0}
  /\ pc7 \in {"value", "flags", "magic", "done"}
  /\ pc9 \in {"osInit", "pubValue", "pubFlag", "flushBoot"} \cup Game
  /\ worked \in Seq(Nat) /\ sampled \in [Heaps -> SUBSET Nat]
  /\ latest \in [Heaps -> Nat]

\* The block, field by field: the ARM7's until it is done, then the ARM9's.
BlockFits ==
  /\ pc9 # "osInit" => pc7 = "done"
  /\ pc7 \in {"flags", "magic"} => blk.value = "ext7"
  /\ pc7 = "magic" => blk.report = FALSE
  /\ pc7 = "done" /\ pc9 \in {"osInit", "pubValue"} => blk = Arm7Done
  /\ pc9 = "pubFlag" => blk.magic = TRUE /\ blk.value = "report"
  /\ pc9 \in Game \cup {"flushBoot"} =>
       blk.magic = TRUE /\ blk.report = TRUE /\ blk.value = "report"

\* The report, and what of it is in memory whatever the cache has done.
CopyFits ==
  /\ pc9 = "osInit" => rep = Blank
  /\ pc9 # "osInit" => rep.magic = TRUE /\ rep.copy = Arm7Done
  /\ pc9 \in Game => ram.magic = TRUE /\ ram.copy = Arm7Done
  /\ pc9 \in Game \ {"flushFrame"} => ram.figures = rep.figures

\* The frames in the ring: all that have worked, the last of them from the
\* end of the frame on.
Counted == IF pc9 = "frameEnd" /\ frameStart # 0 THEN Len(worked) - 1 ELSE Len(worked)

ClockFits ==
  /\ pc9 \notin Game => frameStart = 0 /\ worked = << >>
  /\ pc9 = "work" /\ frameStart # 0 => frameStart = now
  /\ pc9 = "frameEnd" /\ frameStart # 0 =>
       Len(worked) > 0 /\ now = frameStart + worked[Len(worked)]

RingFits ==
  /\ rep.figures.frames = Counted
  /\ \A n \in 1 .. Counted :
       n + Window > Counted => rep.figures.ticks[(n - 1) % Window] = worked[n]
  /\ \A s \in Slots : s >= Counted => rep.figures.ticks[s] = 0

\* A heap is described from the collection on.
LowestFits ==
  \A h \in Heaps :
    LET info == rep.figures.heap[h] IN
      IF pc9 # "osInit" /\ h \in present
      THEN /\ info.there = TRUE
           /\ info.min \in sampled[h] /\ \A x \in sampled[h] : info.min <= x
           /\ info.now = latest[h]
      ELSE info = NoHeap

ReportInv == TypeOK /\ BlockFits /\ CopyFits /\ ClockFits /\ RingFits /\ LowestFits

-----------------------------------------------------------------------------
(***************************************************************************)
(* Slots of a ring.                                                        *)
(***************************************************************************)

\* The remainder is what the quotient leaves.
LEMMA DivMod ==
  \A w, a \in Int : w > 0 => /\ a \div w \in Int /\ a % w \in 0 .. w - 1
                             /\ a - w * (a \div w) = a % w
<1>1. \A w, a \in Int : w > 0 => a - w * (a \div w) = a % w
  BY SMT
<1>2. \A w, a \in Int : w > 0 => a \div w \in Int /\ a % w \in 0 .. w - 1
  BY SMT
<1> QED BY <1>1, <1>2

\* A number below the width is its own slot.
LEMMA ModSmall == ASSUME NEW w \in Nat \ {0}, NEW a \in 0 .. w - 1 PROVE a % w = a
  BY SMT

\* Numbers closer than the width of a ring have slots of their own.
LEMMA ModApart ==
  ASSUME NEW w \in Nat \ {0}, NEW a \in Nat, NEW b \in Nat, a < b, b < a + w
  PROVE  a % w # b % w
<1> SUFFICES ASSUME a % w = b % w PROVE FALSE
  OBVIOUS
<1> DEFINE p == a \div w
           q == b \div w
           r == a % w
<1>1. a - w * p = r /\ b - w * q = r /\ p \in Int /\ q \in Int /\ r \in Int
  BY DivMod, SMT
<1> HIDE DEF p, q, r
<1>2. b - a = w * (q - p)
  BY <1>1, SMT
<1>3. q - p >= 1
  BY <1>1, <1>2, SMT
<1>4. w * (q - p) >= w
  BY <1>1, <1>3, SMT
<1> QED BY <1>2, <1>4, SMT

-----------------------------------------------------------------------------
(***************************************************************************)
(* The invariant.                                                          *)
(***************************************************************************)

\* An empty report is a report.
LEMMA BlankTyped ==
  /\ Blank \in Reports /\ NoBlock \in Blocks /\ NoHeap \in Infos
  /\ Blank.figures.frames = 0 /\ Blank.magic = FALSE
  /\ \A s \in Slots : Blank.figures.ticks[s] = 0
  /\ \A h \in Heaps : Blank.figures.heap[h] = NoHeap
<1>1. NoBlock \in Blocks /\ NoHeap \in Infos
  BY SMT DEF NoBlock, NoHeap, Blocks, Infos
<1>2. Blank.figures \in Figures
  BY <1>1, SMT DEF Blank, Figures
<1>3. Blank \in Reports
  BY <1>1, <1>2, SMT DEF Blank, Reports
<1> QED BY <1>1, <1>3, SMT DEF Blank

\* Records with a field changed.
LEMMA ChangedTyped ==
  /\ \A r \in Reports, g \in Figures : [r EXCEPT !.figures = g] \in Reports
  /\ \A r \in Reports, b \in Blocks, g \in Figures :
       [r EXCEPT !.magic = TRUE, !.copy = b, !.figures = g] \in Reports
  /\ \A i \in Infos, a, b \in Nat : [i EXCEPT !.now = a, !.min = b] \in Infos
  /\ \A g \in Figures, hs \in [Heaps -> Infos] : [g EXCEPT !.heap = hs] \in Figures
<1>1. \A r \in Reports, g \in Figures : [r EXCEPT !.figures = g] \in Reports
  BY Zenon DEF Reports
<1>2. \A r \in Reports, b \in Blocks, g \in Figures :
        [r EXCEPT !.magic = TRUE, !.copy = b, !.figures = g] \in Reports
  BY Zenon DEF Reports
<1>3. \A i \in Infos, a, b \in Nat : [i EXCEPT !.now = a, !.min = b] \in Infos
  BY Zenon DEF Infos
<1>4. \A g \in Figures, hs \in [Heaps -> Infos] : [g EXCEPT !.heap = hs] \in Figures
  BY Zenon DEF Figures
<1> QED BY <1>1, <1>2, <1>3, <1>4, Zenon

\* The figures as a whole.
LEMMA FiguresMade ==
  ASSUME NEW n \in Nat, NEW t \in [Slots -> Nat], NEW hs \in [Heaps -> Infos], NEW g,
         g = [frames |-> n, ticks |-> t, heap |-> hs]
  PROVE  g \in Figures /\ g.frames = n /\ g.ticks = t /\ g.heap = hs
<1>1. g \in Figures
  BY Zenon DEF Figures
<1>2. g.frames = n /\ g.ticks = t /\ g.heap = hs
  BY SMT
<1> QED BY <1>1, <1>2

\* Nothing is published, whatever the boot before has left.
LEMMA ReportInit == Init => ReportInv
<1> SUFFICES ASSUME Init PROVE ReportInv
  OBVIOUS
<1> USE FiguresAssumption DEF Init
<1>1. TypeOK
  <2>1. blk \in Blocks
    <3>1. [magic |-> TRUE, report |-> TRUE, value |-> "junk"] \in Blocks
      BY SMT DEF Blocks
    <3> QED BY <3>1, BlankTyped, Zenon
  <2>2. free \in [Heaps -> Nat]
    BY Zenon
  <2>3. present \subseteq Heaps
    BY SMT
  <2>4. rep \in Reports /\ ram \in Reports
    BY BlankTyped
  <2> QED BY <2>1, <2>2, <2>3, <2>4, SMT DEF TypeOK
<1>2. BlockFits /\ CopyFits /\ ClockFits
  BY SMT DEF BlockFits, CopyFits, ClockFits, Game
<1>3. RingFits
  BY BlankTyped, SMT DEF RingFits, Counted
<1>4. LowestFits
  BY BlankTyped, SMT DEF LowestFits
<1> QED BY <1>1, <1>2, <1>3, <1>4 DEF ReportInv

\* The ARM7 fills in the block while the ARM9 has no report yet.
LEMMA StepPublishArm7 == ReportInv /\ PublishArm7 => ReportInv'
<1> SUFFICES ASSUME ReportInv, PublishArm7 PROVE ReportInv'
  OBVIOUS
<1> USE DEF ReportInv, PublishArm7, report, history
<1>1. TypeOK'
  <2>1. blk' \in Blocks
    BY Zenon DEF TypeOK, Blocks
  <2> QED BY <2>1, SMT DEF TypeOK
<1>2. BlockFits'
  <2>1. pc9 = "osInit" /\ pc9' = pc9
    BY SMT DEF BlockFits
  <2>2. CASE pc7 = "value"
    <3>1. pc7' = "flags" /\ blk'.value = "ext7"
      BY <2>2, SMT DEF TypeOK, Blocks
    <3> QED BY <2>1, <3>1, SMT DEF BlockFits, Game
  <2>3. CASE pc7 = "flags"
    <3>1. pc7' = "magic" /\ blk' = [blk EXCEPT !.report = FALSE]
      BY <2>3, SMT
    <3>2. blk'.value = "ext7"
      BY <2>3, <3>1, SMT DEF BlockFits, TypeOK, Blocks
    <3>3. blk'.report = FALSE
      BY <3>1, Zenon DEF TypeOK, Blocks
    <3> QED BY <2>1, <3>1, <3>2, <3>3, SMT DEF BlockFits, Game
  <2>4. CASE pc7 = "magic"
    <3>1. pc7' = "done" /\ blk' = [blk EXCEPT !.magic = TRUE]
      BY <2>4, SMT
    <3>2. blk'.value = "ext7" /\ blk'.report = FALSE
      BY <2>4, <3>1, SMT DEF BlockFits, TypeOK, Blocks
    <3>3. blk'.magic = TRUE
      BY <3>1, Zenon DEF TypeOK, Blocks
    <3>4. blk' = [magic |-> blk'.magic, report |-> blk'.report, value |-> blk'.value]
      BY <1>1, SMT DEF TypeOK, Blocks
    <3>5. blk' = Arm7Done
      BY <3>2, <3>3, <3>4, Zenon DEF Arm7Done
    <3> QED BY <2>1, <3>1, <3>5, SMT DEF BlockFits, Game
  <2> QED BY <2>2, <2>3, <2>4
<1>3. CopyFits' /\ ClockFits'
  BY SMT DEF CopyFits, ClockFits
<1>4. RingFits' /\ LowestFits'
  BY SMT DEF RingFits, Counted, LowestFits
<1> QED BY <1>1, <1>2, <1>3, <1>4

\* The block is copied as the ARM7 left it, and each heap's lowest is its first.
LEMMA StepCollect == ReportInv /\ Collect => ReportInv'
<1> SUFFICES ASSUME ReportInv, Collect PROVE ReportInv'
  OBVIOUS
<1> USE DEF ReportInv, Collect
<1> DEFINE heap == [h \in Heaps |-> Describe(h)]
<1>1. blk = Arm7Done /\ rep = Blank /\ frameStart = 0 /\ worked = << >>
  BY SMT DEF BlockFits, CopyFits, ClockFits, Game
<1>2. heap \in [Heaps -> Infos]
  BY BlankTyped, SMT DEF Describe, Infos, TypeOK
<1> HIDE DEF heap
<1>3. /\ rep'.magic = TRUE /\ rep'.copy = blk /\ rep'.figures.heap = heap
      /\ rep'.figures.frames = rep.figures.frames
      /\ rep'.figures.ticks = rep.figures.ticks
      /\ rep' \in Reports
  <2>1. rep'.copy = blk /\ rep'.figures = [rep.figures EXCEPT !.heap = heap]
    BY SMT DEF TypeOK, Reports, Copied, heap
  <2>2. rep'.magic = TRUE
    BY Zenon DEF TypeOK, Reports
  <2>3. rep.figures \in Figures
    BY SMT DEF TypeOK, Reports
  <2>4. /\ rep'.figures.heap = heap
        /\ rep'.figures.frames = rep.figures.frames
        /\ rep'.figures.ticks = rep.figures.ticks
        /\ rep'.figures \in Figures
    BY <1>2, <2>1, <2>3, SMT DEF Figures
  <2>5. rep' \in Reports
    <3> DEFINE g == [rep.figures EXCEPT !.heap = heap]
    <3>1. rep' = [rep EXCEPT !.magic = TRUE, !.copy = blk, !.figures = g]
      BY SMT DEF Copied, TypeOK, Reports, heap
    <3>2. rep \in Reports /\ blk \in Blocks
      BY DEF TypeOK
    <3>3. g \in Figures
      BY <2>1, <2>4, Zenon
    <3> HIDE DEF g
    <3> QED BY ONLY <3>1, <3>2, <3>3, ChangedTyped, Zenon
  <2> QED BY <2>1, <2>2, <2>4, <2>5
<1>4. TypeOK'
  <2>1. sampled' \in [Heaps -> SUBSET Nat]
    BY SMT DEF TypeOK
  <2> QED BY <1>3, <2>1, SMT DEF TypeOK
<1>5. BlockFits'
  BY <1>1, SMT DEF BlockFits, Game
<1>6. CopyFits' /\ ClockFits'
  BY <1>1, <1>3, SMT DEF CopyFits, ClockFits, Game
<1>7. RingFits'
  BY <1>1, <1>3, BlankTyped, SMT DEF RingFits, Counted
<1>8. LowestFits'
  <2>1. pc9 = "osInit" /\ pc9' # "osInit" /\ present' = present
    BY SMT
  <2>2. ASSUME NEW h \in Heaps, h \in present
        PROVE  /\ rep'.figures.heap[h].there = TRUE
               /\ rep'.figures.heap[h].min = free[h] /\ rep'.figures.heap[h].now = free[h]
               /\ sampled'[h] = {free[h]} /\ latest'[h] = free[h] /\ free[h] <= free[h]
    BY <1>3, <2>2, SMT DEF Describe, TypeOK, heap
  <2>3. ASSUME NEW h \in Heaps, h \notin present
        PROVE  rep'.figures.heap[h] = NoHeap
    BY <1>3, <2>3, SMT DEF Describe, heap
  <2> QED BY <2>1, <2>2, <2>3, Zenon DEF LowestFits
<1> QED BY <1>4, <1>5, <1>6, <1>7, <1>8

\* The address, then the flag that announces it.
LEMMA StepPublishReport == ReportInv /\ PublishReport => ReportInv'
<1> SUFFICES ASSUME ReportInv, PublishReport PROVE ReportInv'
  OBVIOUS
<1> USE DEF ReportInv, PublishReport, report, history
<1>1. TypeOK'
  <2>1. blk' \in Blocks
    BY Zenon DEF TypeOK, Blocks
  <2> QED BY <2>1, SMT DEF TypeOK
<1>2. BlockFits'
  <2>1. blk \in Blocks
    BY DEF TypeOK
  <2> QED BY <2>1, SMT DEF BlockFits, Blocks, Arm7Done, Game
<1>3. CopyFits' /\ ClockFits'
  BY SMT DEF CopyFits, ClockFits, Game
<1>4. RingFits' /\ LowestFits'
  BY SMT DEF RingFits, Counted, LowestFits
<1> QED BY <1>1, <1>2, <1>3, <1>4

\* After a flush memory has all of the report.
LEMMA StepFlush == ReportInv /\ Flush => ReportInv'
<1> SUFFICES ASSUME ReportInv, Flush PROVE ReportInv'
  OBVIOUS
<1> USE DEF ReportInv, Flush, history
<1>1. TypeOK'
  BY SMT DEF TypeOK, Game
<1>2. BlockFits'
  BY SMT DEF BlockFits, Game
<1>3. CopyFits' /\ ClockFits'
  BY SMT DEF CopyFits, ClockFits, Game
<1>4. RingFits' /\ LowestFits'
  BY SMT DEF RingFits, Counted, LowestFits
<1> QED BY <1>1, <1>2, <1>3, <1>4

\* A line written back is the report's own.
LEMMA StepWriteBack == ReportInv /\ WriteBack => ReportInv'
<1> SUFFICES ASSUME ReportInv, WriteBack PROVE ReportInv'
  OBVIOUS
<1> USE DEF ReportInv, WriteBack, history
<1>1. PICK f \in {"magic", "copy", "figures"} : ram' = [ram EXCEPT ![f] = rep[f]]
  <2>1. rep \in Reports
    BY DEF TypeOK
  <2>2. DOMAIN rep = {"magic", "copy", "figures"}
    BY ONLY <2>1, SMT DEF Reports
  <2> QED BY <2>2, Zenon
<1>2. /\ ram' \in Reports
      /\ ram'.magic = ram.magic \/ ram'.magic = rep.magic
      /\ ram'.copy = ram.copy \/ ram'.copy = rep.copy
      /\ ram'.figures = ram.figures \/ ram'.figures = rep.figures
  <2>1. rep \in Reports /\ ram \in Reports
    BY DEF TypeOK
  <2> QED BY ONLY <1>1, <2>1, SMT DEF Reports
<1>3. TypeOK'
  BY <1>2, SMT DEF TypeOK
<1>4. BlockFits' /\ ClockFits'
  BY SMT DEF BlockFits, ClockFits
<1>5. CopyFits'
  BY <1>2, SMT DEF CopyFits, Game
<1>6. RingFits' /\ LowestFits'
  BY SMT DEF RingFits, Counted, LowestFits
<1> QED BY <1>3, <1>4, <1>5, <1>6

\* The work of a frame is done before the report learns of it.
LEMMA StepWork == ReportInv /\ Work => ReportInv'
<1> SUFFICES ASSUME ReportInv, Work PROVE ReportInv'
  OBVIOUS
<1> USE DEF ReportInv, Work, report
<1>1. PICK t \in Nat : /\ now' = now + t
                       /\ worked' = IF frameStart = 0 THEN worked ELSE Append(worked, t)
  BY FiguresAssumption, SMT
<1>2. /\ worked' \in Seq(Nat)
      /\ frameStart = 0 => worked' = worked
      /\ frameStart # 0 => /\ Len(worked') = Len(worked) + 1
                           /\ worked'[Len(worked')] = t
                           /\ \A n \in 1 .. Len(worked) : worked'[n] = worked[n]
  BY <1>1, SMT DEF TypeOK
<1>3. TypeOK'
  <2>1. free' \in [Heaps -> Nat]
    BY FiguresAssumption, Zenon
  <2> QED BY <1>1, <1>2, <2>1, SMT DEF TypeOK, Game
<1>4. BlockFits' /\ CopyFits'
  BY SMT DEF BlockFits, CopyFits, Game
<1>5. ClockFits'
  BY <1>1, <1>2, SMT DEF ClockFits, TypeOK, Game
<1>6. RingFits'
  BY <1>2, SMT DEF RingFits, Counted, TypeOK
<1>7. LowestFits'
  BY SMT DEF LowestFits
<1> QED BY <1>3, <1>4, <1>5, <1>6, <1>7

\* The next frame is measured from here.
LEMMA StepFrameStart == ReportInv /\ FrameStart => ReportInv'
<1> SUFFICES ASSUME ReportInv, FrameStart PROVE ReportInv'
  OBVIOUS
<1> USE DEF ReportInv, FrameStart, report, history
<1>1. TypeOK'
  BY SMT DEF TypeOK, Game
<1>2. BlockFits' /\ CopyFits' /\ ClockFits'
  BY SMT DEF BlockFits, CopyFits, ClockFits, TypeOK, Game
<1>3. RingFits' /\ LowestFits'
  BY SMT DEF RingFits, Counted, LowestFits
<1> QED BY <1>1, <1>2, <1>3

\* All begins again, but for the block, which the ARM7 will go over first.
LEMMA StepSoftReset == ReportInv /\ SoftReset => ReportInv'
<1> SUFFICES ASSUME ReportInv, SoftReset PROVE ReportInv'
  OBVIOUS
<1> USE DEF ReportInv, SoftReset
<1>1. TypeOK'
  BY BlankTyped, SMT DEF TypeOK
<1>2. BlockFits' /\ CopyFits' /\ ClockFits'
  BY SMT DEF BlockFits, CopyFits, ClockFits, Game
<1>3. RingFits'
  BY BlankTyped, SMT DEF RingFits, Counted
<1>4. LowestFits'
  BY BlankTyped, SMT DEF LowestFits
<1> QED BY <1>1, <1>2, <1>3, <1>4

\* A sample is of the same heap, and its lowest the lower of two.
LEMMA Sampled ==
  ASSUME NEW info \in Infos, NEW left \in Nat
  PROVE  /\ Sample(info, left) \in Infos
         /\ info.there = TRUE =>
              /\ Sample(info, left).there = TRUE /\ Sample(info, left).now = left
              /\ Sample(info, left).min = IF left < info.min THEN left ELSE info.min
         /\ info.there = FALSE => Sample(info, left) = info
<1>1. Sample(info, left) \in Infos
  <2>1. info.min \in Nat
    BY SMT DEF Infos
  <2>2. Sample(info, left) = info \/
          \E m \in {left, info.min} : Sample(info, left) = [info EXCEPT !.now = left, !.min = m]
    BY Zenon DEF Sample
  <2>3. ASSUME NEW m \in {left, info.min}
        PROVE  [info EXCEPT !.now = left, !.min = m] \in Infos
    BY <2>1, ChangedTyped, Zenon
  <2> QED BY <2>2, <2>3, Zenon
<1>2. ASSUME info.there = TRUE
      PROVE  /\ Sample(info, left).there = TRUE /\ Sample(info, left).now = left
             /\ Sample(info, left).min = IF left < info.min THEN left ELSE info.min
  BY <1>2, SMT DEF Sample, Infos
<1>3. ASSUME info.there = FALSE PROVE Sample(info, left) = info
  BY <1>3, Zenon DEF Sample
<1> QED BY <1>1, <1>2, <1>3

\* A frame that was measured takes the slot of the frame Window before it.
LEMMA StepFrameEnd == ReportInv /\ FrameEnd => ReportInv'
<1> SUFFICES ASSUME ReportInv, FrameEnd PROVE ReportInv'
  OBVIOUS
<1> USE DEF ReportInv, FrameEnd
<1> DEFINE f    == rep.figures
           heap == [h \in Heaps |-> Sample(f.heap[h], free[h])]
           c    == f.frames % Window
<1>1. /\ f.frames \in Nat /\ f.ticks \in [Slots -> Nat] /\ f.heap \in [Heaps -> Infos]
      /\ f \in Figures
      /\ Window \in Nat \ {0} /\ worked \in Seq(Nat) /\ free \in [Heaps -> Nat]
  BY WindowAssumption, SMT DEF TypeOK, Reports, Figures
<1>2. c \in Slots
  BY <1>1, DivMod, SMT DEF Slots
<1>3. heap \in [Heaps -> Infos]
  <2>1. \A h \in Heaps : f.heap[h] \in Infos /\ free[h] \in Nat
    BY <1>1, SMT
  <2>2. \A h \in Heaps : Sample(f.heap[h], free[h]) \in Infos
    BY <2>1, Sampled, Zenon
  <2> QED BY <2>2, Zenon
<1>4. /\ rep'.magic = rep.magic /\ rep'.copy = rep.copy
      /\ frameStart = 0 => rep'.figures = [f EXCEPT !.heap = heap]
      /\ frameStart # 0 =>
           rep'.figures = [frames |-> f.frames + 1,
                           ticks  |-> [f.ticks EXCEPT ![c] = now - frameStart],
                           heap   |-> heap]
  BY SMT DEF TypeOK, Reports, Slot
<1>5. frameStart # 0 => /\ Len(worked) > 0 /\ worked[Len(worked)] \in Nat
                        /\ now - frameStart = worked[Len(worked)]
  BY <1>1, SMT DEF ClockFits, TypeOK
<1> HIDE DEF heap, c
<1>6. /\ rep'.figures \in Figures
      /\ rep'.figures.heap = heap
      /\ frameStart = 0 => rep'.figures.frames = f.frames /\ rep'.figures.ticks = f.ticks
      /\ frameStart # 0 => /\ rep'.figures.frames = f.frames + 1
                           /\ rep'.figures.ticks = [f.ticks EXCEPT ![c] = now - frameStart]
  <2> HIDE DEF f
  <2>1. CASE frameStart = 0
    <3>1. rep'.figures = [f EXCEPT !.heap = heap]
      BY <1>4, <2>1, Zenon
    <3>2. rep'.figures \in Figures
      BY <1>1, <1>3, <3>1, ChangedTyped, Zenon
    <3>3. /\ rep'.figures.heap = heap /\ rep'.figures.frames = f.frames
          /\ rep'.figures.ticks = f.ticks
      BY ONLY <1>1, <3>1, SMT DEF Figures
    <3> QED BY <2>1, <3>2, <3>3
  <2>2. CASE frameStart # 0
    <3> DEFINE t == [f.ticks EXCEPT ![c] = now - frameStart]
    <3>1. now - frameStart \in Nat
      BY <1>5, <2>2, Zenon
    <3>2. f.frames + 1 \in Nat
      BY <1>1, SMT
    <3>3. t \in [Slots -> Nat]
      BY <1>1, <3>1, Zenon
    <3>4. rep'.figures = [frames |-> f.frames + 1, ticks |-> t, heap |-> heap]
      BY <1>4, <2>2, Zenon
    <3> HIDE DEF t
    <3>5. /\ rep'.figures \in Figures /\ rep'.figures.frames = f.frames + 1
          /\ rep'.figures.ticks = t /\ rep'.figures.heap = heap
      BY ONLY <1>3, <3>2, <3>3, <3>4, FiguresMade
    <3> QED BY <2>2, <3>5 DEF t
  <2> QED BY <2>1, <2>2
<1>7. TypeOK'
  <2>1. sampled' \in [Heaps -> SUBSET Nat]
    BY SMT DEF TypeOK
  <2>2. rep' = [rep EXCEPT !.figures = rep'.figures]
    BY <1>1, <1>4, SMT DEF TypeOK, Reports
  <2>3. rep' \in Reports
    BY <1>6, <2>2, ChangedTyped, Zenon DEF TypeOK
  <2> QED BY <2>1, <2>3, SMT DEF TypeOK, Game
<1>8. BlockFits' /\ CopyFits' /\ ClockFits'
  BY <1>4, SMT DEF BlockFits, CopyFits, ClockFits, Game
<1>9. RingFits'
  <2>1. CASE frameStart = 0
    BY <1>6, <2>1, SMT DEF RingFits, Counted
  <2>2. CASE frameStart # 0
    <3>1. f.frames = Len(worked) - 1 /\ Counted' = Len(worked) /\ Counted = f.frames
      BY <1>1, <2>2, SMT DEF RingFits, Counted
    <3> DEFINE ticks == rep'.figures.ticks
               old   == f.ticks
               w     == worked[Len(worked)]
    <3>2. ticks = [old EXCEPT ![c] = w] /\ old \in [Slots -> Nat]
      BY <1>1, <1>5, <1>6, <2>2, Zenon
    <3>3. /\ \A n \in 1 .. f.frames :
               n + Window > f.frames => old[(n - 1) % Window] = worked[n]
          /\ \A s \in Slots : s >= f.frames => old[s] = 0
      BY <3>1, Zenon DEF RingFits
    <3> HIDE DEF ticks, old, w, f
    <3>4. ticks[c] = w
      BY ONLY <1>2, <3>2, Zenon
    <3>5. \A s \in Slots : s # c => ticks[s] = old[s]
      BY ONLY <3>2, Zenon
    <3>6. ASSUME NEW n \in 1 .. Len(worked), n + Window > Len(worked)
          PROVE  ticks[(n - 1) % Window] = worked[n]
      <4>1. CASE n = Len(worked)
        <5>1. (n - 1) % Window = c
          BY <3>1, <4>1 DEF c
        <5> QED BY <3>4, <4>1, <5>1 DEF w
      <4>2. CASE n # Len(worked)
        <5>1. /\ n - 1 \in Nat /\ n - 1 < f.frames /\ f.frames < (n - 1) + Window
              /\ n \in 1 .. f.frames /\ n + Window > f.frames
          BY <1>1, <3>1, <3>6, <4>2, SMT
        <5>2. (n - 1) % Window # c
          BY <1>1, <5>1, ModApart DEF c
        <5>3. (n - 1) % Window \in Slots
          BY <1>1, <5>1, DivMod, SMT DEF Slots
        <5>4. old[(n - 1) % Window] = worked[n]
          BY ONLY <3>3, <5>1, Zenon
        <5> QED BY ONLY <3>5, <5>2, <5>3, <5>4, Zenon
      <4> QED BY <4>1, <4>2
    <3>7. ASSUME NEW s \in Slots, s >= Len(worked)
          PROVE  ticks[s] = 0
      <4>1. f.frames \in 0 .. Window - 1 /\ s # f.frames /\ s >= f.frames
        BY <1>1, <3>1, <3>7, SMT DEF Slots
      <4>2. s # c
        BY <1>1, <4>1, ModSmall DEF c
      <4>3. old[s] = 0
        BY <3>3, <4>1, Zenon
      <4> QED BY ONLY <3>5, <4>2, <4>3, Zenon
    <3>8. rep'.figures.frames = Counted'
      BY <1>1, <1>6, <2>2, <3>1, SMT DEF f
    <3> QED BY <3>1, <3>6, <3>7, <3>8, Zenon DEF RingFits, ticks
  <2> QED BY <2>1, <2>2
<1>10. LowestFits'
  <2> SUFFICES ASSUME NEW h \in Heaps
               PROVE  IF h \in present
                      THEN /\ heap[h].there = TRUE
                           /\ heap[h].min \in sampled'[h]
                           /\ \A x \in sampled'[h] : heap[h].min <= x
                           /\ heap[h].now = latest'[h]
                      ELSE heap[h] = NoHeap
    <3>1. rep'.figures.heap = heap /\ present' = present /\ pc9' # "osInit"
      BY <1>6, SMT
    <3> QED BY <3>1, Zenon DEF LowestFits
  <2>1. heap[h] = Sample(f.heap[h], free[h]) /\ f.heap[h] \in Infos /\ free[h] \in Nat
    BY <1>1, SMT DEF heap
  <2>2. CASE h \in present
    <3>1. /\ f.heap[h].there = TRUE /\ f.heap[h].min \in sampled[h]
          /\ \A x \in sampled[h] : f.heap[h].min <= x
      BY <2>2, SMT DEF LowestFits
    <3>2. /\ heap[h].there = TRUE /\ heap[h].now = free[h]
          /\ heap[h].min = IF free[h] < f.heap[h].min THEN free[h] ELSE f.heap[h].min
      <4>1. LET t == Sample(f.heap[h], free[h]) IN
              /\ t.there = TRUE /\ t.now = free[h]
              /\ t.min = IF free[h] < f.heap[h].min THEN free[h] ELSE f.heap[h].min
        BY <2>1, <3>1, Sampled
      <4> QED BY <2>1, <4>1
    <3>3. /\ sampled'[h] = sampled[h] \cup {free[h]} /\ sampled[h] \in SUBSET Nat
          /\ latest'[h] = free[h]
      BY <2>2, SMT DEF TypeOK
    <3>4. heap[h].min \in sampled'[h] /\ \A x \in sampled'[h] : heap[h].min <= x
      BY <2>1, <3>1, <3>2, <3>3, SMT
    <3> QED BY <2>2, <3>2, <3>3, <3>4
  <2>3. CASE h \notin present
    <3>1. f.heap[h] = NoHeap /\ NoHeap.there = FALSE
      BY <2>3, SMT DEF LowestFits, NoHeap
    <3>2. heap[h] = NoHeap
      BY <2>1, <3>1, Sampled, Zenon
    <3> QED BY <2>3, <3>2
  <2> QED BY <2>2, <2>3
<1> QED BY <1>7, <1>8, <1>9, <1>10

\* Every step keeps the invariant.
LEMMA ReportStep == ReportInv /\ [Next]_vars => ReportInv'
<1> SUFFICES ASSUME ReportInv, [Next]_vars PROVE ReportInv'
  OBVIOUS
<1>1. CASE Next
  BY <1>1, StepPublishArm7, StepCollect, StepPublishReport, StepFlush, StepWriteBack,
     StepWork, StepFrameEnd, StepFrameStart, StepSoftReset DEF Next
<1>2. CASE UNCHANGED vars
  <2> USE <1>2 DEF ReportInv, vars
  <2>1. TypeOK'
    BY SMT DEF TypeOK
  <2>2. BlockFits' /\ CopyFits' /\ ClockFits'
    BY SMT DEF BlockFits, CopyFits, ClockFits
  <2>3. RingFits' /\ LowestFits'
    BY SMT DEF RingFits, Counted, LowestFits
  <2> QED BY <2>1, <2>2, <2>3
<1> QED BY <1>1, <1>2

\* Block, report, memory, ring and lowest values fit together at every step: the
\* facts the theorems below are drawn from.
THEOREM ReportInvHolds == Spec => []ReportInv
BY ReportInit, ReportStep, PTL DEF Spec

-----------------------------------------------------------------------------
(***************************************************************************)
(* What the harness reads.                                                 *)
(***************************************************************************)

\* What printReport makes of the ARM7's block is that block.
LEMMA ShownAsDone ==
  /\ [Arm7Done EXCEPT !.report = FALSE] = Arm7Done
  /\ Arm7Done.magic = TRUE /\ Arm7Done.report = FALSE
<1>1. Arm7Done.magic = TRUE /\ Arm7Done.report = FALSE
  BY Zenon DEF Arm7Done
<1>2. [Arm7Done EXCEPT !.report = FALSE] = Arm7Done
  <2> DEFINE b == [Arm7Done EXCEPT !.report = FALSE]
  <2>1. Arm7Done \in Blocks /\ Arm7Done.value = "ext7"
    BY SMT DEF Arm7Done, Blocks
  <2>2. b \in Blocks /\ b.magic = TRUE /\ b.report = FALSE /\ b.value = "ext7"
    BY <1>1, <2>1, Zenon DEF Blocks
  <2> HIDE DEF b
  <2>3. b = [magic |-> b.magic, report |-> b.report, value |-> b.value]
    BY <2>2, SMT DEF Blocks
  <2>4. b = Arm7Done
    BY <2>2, <2>3, Zenon DEF Arm7Done
  <2> QED BY <2>4 DEF b
<1> QED BY <1>1, <1>2

\* Wherever the console is stopped, the block and the report in memory are of
\* this boot: the flag of the boot before has gone when the ARM7 is done, and a
\* report the flag tells of has been flushed.
THEOREM HarnessReadsThisBootHolds == Spec => []HarnessReadsThisBoot
<1>1. ReportInv => HarnessReadsThisBoot
  <2> SUFFICES ASSUME ReportInv, pc7 = "done", pc9 \notin {"pubFlag", "flushBoot"}
               PROVE  Arm7Shown = Arm7Done /\ (ReportOk <=> InGame)
    BY DEF HarnessReadsThisBoot, Arm7Done
  <2> USE DEF ReportInv
  <2>1. CASE InGame
    <3>1. pc9 \in Game
      BY <2>1, Zenon DEF InGame, Game
    <3>2. HasReport /\ blk.value = "report"
      BY <3>1, Zenon DEF BlockFits, HasReport
    <3>3. Found = ram
      BY <3>2, Zenon DEF Found
    <3>4. ram.magic = TRUE /\ ram.copy = Arm7Done
      BY <3>1, Zenon DEF CopyFits
    <3>5. ReportOk
      BY <3>3, <3>4, Zenon DEF ReportOk
    <3>6. Arm7Shown = [Arm7Done EXCEPT !.report = FALSE]
      BY <3>3, <3>4, <3>5, Zenon DEF Arm7Shown
    <3> QED BY <2>1, <3>5, <3>6, ShownAsDone
  <2>2. CASE ~ InGame
    <3>1. pc9 \in {"osInit", "pubValue"}
      BY <2>2, SMT DEF InGame, Game, TypeOK
    <3>2. blk = Arm7Done
      BY <3>1, Zenon DEF BlockFits
    <3>3. ~ HasReport
      BY <3>2, ShownAsDone, Zenon DEF HasReport
    <3>4. Found = Blank
      BY <3>3, Zenon DEF Found
    <3>5. ~ ReportOk
      BY <3>4, BlankTyped, Zenon DEF ReportOk
    <3>6. Arm7Shown = [Arm7Done EXCEPT !.report = FALSE]
      BY <3>2, <3>5, Zenon DEF Arm7Shown
    <3> QED BY <2>2, <3>5, <3>6, ShownAsDone
  <2> QED BY <2>1, <2>2
<1> QED BY <1>1, ReportInvHolds, PTL

\* The ring and the lowest values are right in memory, however long the game has
\* run and whatever its frames have taken (DSi_reportFrameEnd).
THEOREM FiguresToldHolds == Spec => []FiguresTold
<1>1. ReportInv => FiguresTold
  <2> SUFFICES ASSUME ReportInv PROVE RingHoldsLastFrames /\ LowestSeen
    BY DEF FiguresTold
  <2> USE DEF ReportInv
  <2>1. pc9 \in {"work", "wait"} => Counted = Len(worked)
    BY SMT DEF Counted
  <2>2. pc9 \in {"work", "wait"} => ram.figures = rep.figures
    BY SMT DEF CopyFits, Game
  <2>3. RingHoldsLastFrames
    BY <2>1, <2>2, SMT DEF RingFits, RingHoldsLastFrames
  <2>4. LowestSeen
    <3> SUFFICES ASSUME pc9 # "osInit", NEW h \in Heaps
                 PROVE  LET info == rep.figures.heap[h] IN
                          IF h \in present
                          THEN /\ info.min \in sampled[h]
                               /\ \A x \in sampled[h] : info.min <= x
                               /\ info.now = latest[h]
                          ELSE info = NoHeap
      BY Zenon DEF LowestSeen
    <3> QED BY Zenon DEF LowestFits
  <2> QED BY <2>3, <2>4
<1> QED BY <1>1, ReportInvHolds, PTL

=============================================================================
