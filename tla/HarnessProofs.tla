--------------------------- MODULE HarnessProofs ----------------------------
(***************************************************************************)
(* Theorems about the harness, for any number of frames, consoles, presses *)
(* and files, and every interleaving of the threads.  The invariant counts *)
(* how far each console has been played by where its thread is, and says   *)
(* what of the files of the frames behind it is on disk.                   *)
(***************************************************************************)
EXTENDS Harness, TLAPS

Ahead  == {"pace", "input", "background", "run", "store"}
Labels == Ahead \cup {"unborn", "shots", "wav", "over"}

\* What a console can be given: the input of some frame of some script.
Inputs == {NoInput} \cup {[keys |-> Held(c, f), point |-> Touched(c, f)] :
                            c \in Consoles, f \in Nat}

TypeOK ==
  /\ main \in {"setup", "play", "count", "report", "end"}
  /\ pc \in [Consoles -> Labels] /\ frame \in [Consoles -> Nat]
  /\ input \in [Consoles -> Inputs] /\ played \in [Consoles -> Seq(Inputs)]
  /\ spritesOff \in [Consoles -> BOOLEAN]
  /\ picture \in [Consoles -> [frame : Nat, off : BOOLEAN]]
  /\ DOMAIN written = Consoles

\* The threads are there while main() is in play() or behind it, and over
\* when it is behind it.
ThreadsFit ==
  \A c \in Consoles :
    /\ pc[c] = "unborn" <=> main = "setup"
    /\ main \notin {"setup", "play"} => pc[c] = "over"

\* The frames a console has run, by where its thread is.
FramesFit(c) ==
  /\ pc[c] = "unborn" => frame[c] = 1 /\ Len(played[c]) = 0
  /\ pc[c] \in Ahead \cup {"shots"} => frame[c] \in 1 .. Frames
  /\ pc[c] \in Ahead => Len(played[c]) = frame[c] - 1
  /\ pc[c] = "shots" => Len(played[c]) = frame[c] /\ picture[c].frame = frame[c]
  /\ pc[c] \in {"wav", "over"} => Len(played[c]) = Frames

\* A due background is taken of a frame that was run without sprites.
SpritesFit(c) ==
  \A s \in Outputs[c] : s.frame = frame[c] /\ s.kind = "background" =>
    /\ pc[c] \in {"run", "store"} => spritesOff[c]
    /\ pc[c] = "shots" => picture[c].off

\* The files of the frames behind are there, and every closed file shows its
\* frame, whole as long as the disk has not failed; the file that is open is one
\* of this frame's, or the recording.
FilesFit(c) ==
  /\ \A s \in Outputs[c] :
       s.frame \in 1 .. Len(played[c]) /\ ~ (pc[c] = "shots" /\ s.frame = frame[c])
         => s \in DOMAIN written[c]
  /\ \A s \in DOMAIN written[c] \ Open(c) :
       /\ written[c][s].shown.frame = s.frame
       /\ s.kind = "background" => written[c][s].shown.off
       /\ disk = "sound" => written[c][s].data = "all"
  /\ \A s \in Open(c) :
       \/ pc[c] = "shots" /\ s \in Outputs[c] /\ s.frame = frame[c]
       \/ pc[c] = "wav" /\ s = Wav
  /\ pc[c] = "over" /\ c \in Recorded => Wav \in DOMAIN written[c]

\* The keys set are those of the frame they are set for, and stay so.
InputFits(c) ==
  /\ pc[c] \in {"background", "run", "store"} => input[c].keys = Held(c, frame[c])
  /\ \A f \in 1 .. Len(played[c]) : played[c][f].keys = Held(c, f)

HarnessInv ==
  /\ TypeOK /\ ThreadsFit
  /\ \A c \in Consoles : FramesFit(c) /\ SpritesFit(c) /\ FilesFit(c) /\ InputFits(c)

\* No press's frame and hold together pass the end of the frame numbers.
NoPressWraps ==
  \A c \in Consoles : \A p \in Presses[c] :
    p.frame \in Nat /\ p.hold \in Nat /\ p.frame + p.hold < 2 ^ FrameBits

-----------------------------------------------------------------------------
(***************************************************************************)
(* The invariant.                                                          *)
(***************************************************************************)

\* What a script says of a frame is something a console can be given.
LEMMA InputTyped ==
  /\ NoInput \in Inputs
  /\ \A c \in Consoles, f \in Nat :
       [keys |-> Held(c, f), point |-> Touched(c, f)] \in Inputs
  BY DEF Inputs

\* Nothing has been played, written or asked for.
LEMMA HarnessInit == Init => HarnessInv
<1> SUFFICES ASSUME Init PROVE HarnessInv
  OBVIOUS
<1> USE DEF Init
<1>1. TypeOK
  <2>1. spritesOff \in [Consoles -> BOOLEAN]
    BY Zenon
  <2>2. picture \in [Consoles -> [frame : Nat, off : BOOLEAN]]
    <3>1. Nothing \in [frame : Nat, off : BOOLEAN]
      <4>1. 0 \in Nat /\ FALSE \in BOOLEAN
        OBVIOUS
      <4> QED BY <4>1, Zenon DEF Nothing
    <3> QED BY <3>1, Zenon
  <2>3. input \in [Consoles -> Inputs]
    <3>1. NoInput \in Inputs
      BY InputTyped
    <3> QED BY <3>1, Zenon
  <2>4. played \in [Consoles -> Seq(Inputs)]
    <3>1. << >> \in Seq(Inputs)
      OBVIOUS
    <3> QED BY <3>1, Zenon
  <2> QED BY <2>1, <2>2, <2>3, <2>4 DEF TypeOK, Labels
<1>2. ThreadsFit
  BY DEF ThreadsFit
<1>3. ASSUME NEW c \in Consoles
      PROVE  FramesFit(c) /\ SpritesFit(c) /\ FilesFit(c) /\ InputFits(c)
  <2>1. FramesFit(c)
    BY DEF FramesFit, Ahead
  <2>2. SpritesFit(c)
    BY DEF SpritesFit
  <2>3. FilesFit(c)
    <3>1. DOMAIN written[c] = {}
      BY Zenon
    <3> QED BY <3>1 DEF FilesFit, Open
  <2>4. InputFits(c)
    BY DEF InputFits
  <2> QED BY <2>1, <2>2, <2>3, <2>4
<1> QED BY <1>1, <1>2, <1>3 DEF HarnessInv

\* What main() does besides starting the threads, the time, the disk's
\* failing and a file that cannot be opened end the process or move no thread.
LEMMA StepQuiet ==
  HarnessInv /\ (DieInSetup \/ MakeConsole \/ CountSaves \/ ReadReport \/ Tick
                  \/ DiskFails \/ \E c \in Consoles : CannotOpen(c))
    => HarnessInv'
<1> SUFFICES ASSUME HarnessInv,
                    DieInSetup \/ MakeConsole \/ CountSaves \/ ReadReport \/ Tick
                      \/ DiskFails \/ \E c \in Consoles : CannotOpen(c)
             PROVE  HarnessInv'
  OBVIOUS
<1> USE DEF DieInSetup, MakeConsole, CountSaves, ReadReport, Tick, DiskFails,
           CannotOpen, world, Emulator
<1>1. /\ UNCHANGED <<pc, frame, input, spritesOff, played, picture, written>>
      /\ (disk' = "sound" => disk = "sound")
  OBVIOUS
<1>2. \/ main' = main
      \/ main = "count" /\ main' = "report"
      \/ main = "report" /\ main' = "end"
  <2>1. CASE CountSaves \/ ReadReport
    BY <2>1
  <2>2. CASE \/ DieInSetup \/ MakeConsole \/ Tick \/ DiskFails
            \/ \E c \in Consoles : CannotOpen(c)
    BY <2>2
  <2> QED BY <2>1, <2>2
<1>3. TypeOK'
  BY <1>1, <1>2 DEF HarnessInv, TypeOK
<1>4. ThreadsFit'
  BY <1>1, <1>2 DEF HarnessInv, ThreadsFit
<1>5. ASSUME NEW c \in Consoles
      PROVE  (FramesFit(c) /\ SpritesFit(c) /\ FilesFit(c) /\ InputFits(c))'
  <2>1. FramesFit(c) /\ SpritesFit(c) /\ FilesFit(c) /\ InputFits(c)
    BY DEF HarnessInv
  <2> QED BY <1>1, <2>1 DEF FramesFit, SpritesFit, FilesFit, InputFits, Open
<1> QED BY <1>3, <1>4, <1>5 DEF HarnessInv

\* Every thread begins with its first frame, if there is one, and has run them
\* all at the end.
LEMMA StepStartsAndJoins == HarnessInv /\ (Play \/ Join) => HarnessInv'
<1> SUFFICES ASSUME HarnessInv, Play \/ Join PROVE HarnessInv'
  OBVIOUS
<1> USE DEF Play, Join, Started, Joined, world, Emulator
<1>1. UNCHANGED <<frame, input, spritesOff, played, picture, written, disk>>
  OBVIOUS
<1>2. \/ Play /\ main = "setup" /\ main' = "play"
         /\ pc' = [c \in Consoles |-> Reach(c, 1)]
      \/ main = "play" /\ main' = "count" /\ pc' = pc /\ \A c \in Consoles : pc[c] = "over"
  OBVIOUS
<1>3. \A c \in Consoles :
        \/ Reach(c, 1) = "pace" /\ 1 <= Frames
        \/ Reach(c, 1) \in {"wav", "over"} /\ Frames = 0
           /\ (Reach(c, 1) = "over" => c \notin Recorded)
  BY HarnessAssumption DEF Reach
<1> HIDE DEF Play, Join, Started, Joined
<1>4. TypeOK'
  BY <1>1, <1>2, <1>3 DEF HarnessInv, TypeOK, Labels, Ahead
<1>5. ThreadsFit'
  BY <1>1, <1>2, <1>3 DEF HarnessInv, ThreadsFit
<1>6. ASSUME NEW c \in Consoles
      PROVE  (FramesFit(c) /\ SpritesFit(c) /\ FilesFit(c) /\ InputFits(c))'
  <2>1. FramesFit(c) /\ SpritesFit(c) /\ FilesFit(c) /\ InputFits(c) /\ TypeOK
    BY DEF HarnessInv
  <2>2. \/ pc[c] = "unborn" /\ pc'[c] = Reach(c, 1)
        \/ pc'[c] = pc[c]
    BY <1>2 DEF HarnessInv, ThreadsFit
  <2>3. \/ pc[c] = "unborn" /\ pc'[c] = "pace" /\ 1 <= Frames
        \/ pc[c] = "unborn" /\ pc'[c] \in {"wav", "over"} /\ Frames = 0
           /\ (pc'[c] = "over" => c \notin Recorded)
        \/ pc'[c] = pc[c]
    BY <1>3, <2>2
  <2>4. FramesFit(c)'
    BY <1>1, <2>1, <2>3, HarnessAssumption DEF FramesFit, Ahead
  <2>5. SpritesFit(c)'
    BY <1>1, <2>1, <2>3 DEF SpritesFit
  <2>6. FilesFit(c)' /\ InputFits(c)'
    BY <1>1, <2>1, <2>3 DEF FilesFit, InputFits, Open
  <2> QED BY <2>4, <2>5, <2>6
<1> QED BY <1>4, <1>5, <1>6 DEF HarnessInv

\* Where a thread goes is its own business: it stays a thread of play().
LEMMA ThreadMoves ==
  ASSUME HarnessInv, NEW c \in Consoles, NEW l \in Labels \ {"unborn"},
         pc[c] \notin {"unborn", "over"}, pc' = [pc EXCEPT ![c] = l], main' = main
  PROVE  /\ pc' \in [Consoles -> Labels] /\ pc'[c] = l
         /\ \A d \in Consoles \ {c} : pc'[d] = pc[d]
         /\ ThreadsFit'
  BY DEF HarnessInv, TypeOK, ThreadsFit, Labels

\* A console whose thread does not step keeps what was said of it.
LEMMA OthersKeep ==
  ASSUME HarnessInv, NEW d \in Consoles,
         pc'[d] = pc[d], frame'[d] = frame[d], input'[d] = input[d],
         spritesOff'[d] = spritesOff[d], played'[d] = played[d],
         picture'[d] = picture[d], written'[d] = written[d],
         disk' = "sound" => disk = "sound"
  PROVE  (FramesFit(d) /\ SpritesFit(d) /\ FilesFit(d) /\ InputFits(d))'
<1>1. FramesFit(d) /\ SpritesFit(d) /\ FilesFit(d) /\ InputFits(d)
  BY DEF HarnessInv
<1> QED BY <1>1 DEF FramesFit, SpritesFit, FilesFit, InputFits, Open

\* The wait for the frame, the scripts, and a save counted: the frame is not
\* run yet, and is set up for this one.
LEMMA StepBefore ==
  ASSUME HarnessInv, NEW c \in Consoles,
         Pace(c) \/ SetInput(c) \/ LoadCount(c) \/ StoreCount(c)
  PROVE  HarnessInv'
<1> USE DEF Pace, SetInput, LoadCount, StoreCount, world, Emulator, Goto
<1>1. PICK l \in Ahead \ {"pace"} : pc' = [pc EXCEPT ![c] = l]
  BY DEF Ahead
<1>2. UNCHANGED <<main, frame, spritesOff, played, picture, written, disk>>
  OBVIOUS
<1>3. pc[c] \in Ahead
  BY DEF Ahead
<1>4. /\ pc' \in [Consoles -> Labels] /\ pc'[c] = l
      /\ \A d \in Consoles \ {c} : pc'[d] = pc[d]
      /\ ThreadsFit'
  BY <1>1, <1>2, <1>3, ThreadMoves DEF Labels, Ahead
<1>5. /\ input' \in [Consoles -> Inputs]
      /\ \A d \in Consoles \ {c} : input'[d] = input[d]
      /\ SetInput(c) => input'[c].keys = Held(c, frame[c])
      /\ ~ SetInput(c) => input'[c] = input[c]
  <2>1. CASE SetInput(c)
    <3>1. [keys |-> Held(c, frame[c]), point |-> Touched(c, frame[c])] \in Inputs
      <4>1. frame[c] \in Nat
        BY DEF HarnessInv, TypeOK
      <4> QED BY <4>1, InputTyped
    <3> HIDE DEF Held, Touched
    <3> QED BY <2>1, <3>1 DEF HarnessInv, TypeOK
  <2>2. CASE ~ SetInput(c)
    <3>1. input' = input
      BY <2>2
    <3> QED BY <2>2, <3>1 DEF HarnessInv, TypeOK
  <2> QED BY <2>1, <2>2
<1>6. TypeOK'
  BY <1>2, <1>4, <1>5 DEF HarnessInv, TypeOK
<1>7. (FramesFit(c) /\ SpritesFit(c) /\ FilesFit(c) /\ InputFits(c))'
  <2>1. FramesFit(c) /\ SpritesFit(c) /\ FilesFit(c) /\ InputFits(c) /\ TypeOK
    BY DEF HarnessInv
  <2>2. FramesFit(c)'
    BY <1>2, <1>3, <1>4, <2>1 DEF FramesFit, Ahead
  <2>3. SpritesFit(c)'
    <3>1. pc'[c] \in {"run", "store"} => pc[c] \in {"run", "store"}
      BY <1>4
    <3> QED BY <1>2, <1>4, <2>1, <3>1 DEF SpritesFit, Ahead
  <2>4. FilesFit(c)'
    <3>1. pc[c] # "shots" /\ pc[c] # "wav" /\ pc'[c] # "shots" /\ pc'[c] # "over"
      BY <1>3, <1>4 DEF Ahead
    <3> QED BY <1>2, <2>1, <3>1 DEF FilesFit, Open
  <2>5. InputFits(c)'
    <3>1. pc'[c] \in {"background", "run", "store"} =>
            SetInput(c) \/ pc[c] \in {"background", "run", "store"}
      BY <1>4
    <3> HIDE DEF SetInput
    <3> QED BY <1>2, <1>5, <2>1, <3>1 DEF InputFits
  <2> QED BY <2>2, <2>3, <2>4, <2>5
<1>8. ASSUME NEW d \in Consoles, d # c
      PROVE  (FramesFit(d) /\ SpritesFit(d) /\ FilesFit(d) /\ InputFits(d))'
  BY <1>2, <1>4, <1>5, <1>8, OthersKeep
<1> QED BY <1>4, <1>6, <1>7, <1>8, Zenon DEF HarnessInv

\* Sprites go off for the backgrounds due, before the frame is run.
LEMMA StepHideSprites ==
  ASSUME HarnessInv, NEW c \in Consoles, HideSprites(c)
  PROVE  HarnessInv'
<1> USE DEF HideSprites, world, Goto
<1>1. UNCHANGED <<main, frame, input, played, picture, written, disk>>
  OBVIOUS
<1>2. /\ pc' \in [Consoles -> Labels] /\ pc'[c] = "run"
      /\ \A d \in Consoles \ {c} : pc'[d] = pc[d]
      /\ ThreadsFit'
  BY <1>1, ThreadMoves DEF Labels, Ahead
<1>3. /\ spritesOff' \in [Consoles -> BOOLEAN]
      /\ \A d \in Consoles \ {c} : spritesOff'[d] = spritesOff[d]
      /\ (\E s \in Due(c) : s.kind = "background") => spritesOff'[c]
  <2> DEFINE off == \E s \in Due(c) : s.kind = "background"
  <2>1. spritesOff \in [Consoles -> BOOLEAN]
    BY DEF HarnessInv, TypeOK
  <2>2. spritesOff' = [spritesOff EXCEPT ![c] = spritesOff[c] \/ off]
    OBVIOUS
  <2> HIDE DEF off
  <2>3. (spritesOff[c] \/ off) \in BOOLEAN
    BY Zenon
  <2>4. /\ spritesOff' \in [Consoles -> BOOLEAN]
        /\ \A d \in Consoles \ {c} : spritesOff'[d] = spritesOff[d]
        /\ spritesOff'[c] = (spritesOff[c] \/ off)
    BY <2>1, <2>2, <2>3, Zenon
  <2> QED BY <2>4, Zenon DEF off
<1>4. TypeOK'
  BY <1>1, <1>2, <1>3 DEF HarnessInv, TypeOK
<1>5. (FramesFit(c) /\ SpritesFit(c) /\ FilesFit(c) /\ InputFits(c))'
  <2>1. FramesFit(c) /\ SpritesFit(c) /\ FilesFit(c) /\ InputFits(c) /\ TypeOK
    BY DEF HarnessInv
  <2>2. FramesFit(c)' /\ InputFits(c)'
    BY <1>1, <1>2, <2>1 DEF FramesFit, InputFits, Ahead
  <2>3. SpritesFit(c)'
    BY <1>1, <1>2, <1>3 DEF SpritesFit, Due
  <2>4. FilesFit(c)'
    BY <1>1, <1>2, <2>1 DEF FilesFit, Open
  <2> QED BY <2>2, <2>3, <2>4
<1>6. ASSUME NEW d \in Consoles, d # c
      PROVE  (FramesFit(d) /\ SpritesFit(d) /\ FilesFit(d) /\ InputFits(d))'
  BY <1>1, <1>2, <1>3, <1>6, OthersKeep
<1> QED BY <1>2, <1>4, <1>5, <1>6, Zenon DEF HarnessInv

\* One more frame has been played, with the keys that were set for it, and is
\* in the frame buffer with sprites or without.
LEMMA StepRunFrame ==
  ASSUME HarnessInv, NEW c \in Consoles, RunFrame(c)
  PROVE  HarnessInv'
<1> USE DEF RunFrame, world, Goto
<1>1. UNCHANGED <<main, frame, input, written, disk>>
  OBVIOUS
<1>2. /\ pc' \in [Consoles -> Labels] /\ pc'[c] = "shots"
      /\ \A d \in Consoles \ {c} : pc'[d] = pc[d]
      /\ ThreadsFit'
  BY <1>1, ThreadMoves DEF Labels, Ahead
<1>3. /\ spritesOff' \in [Consoles -> BOOLEAN]
      /\ \A d \in Consoles \ {c} : spritesOff'[d] = spritesOff[d]
  <2>1. spritesOff \in [Consoles -> BOOLEAN]
    BY DEF HarnessInv, TypeOK
  <2>2. PICK b \in {spritesOff[c], FALSE} : spritesOff' = [spritesOff EXCEPT ![c] = b]
    BY Zenon
  <2>3. b \in BOOLEAN
    BY <2>1, <2>2, Zenon
  <2> QED BY <2>1, <2>2, <2>3, Zenon
<1>4. /\ picture' \in [Consoles -> [frame : Nat, off : BOOLEAN]]
      /\ \A d \in Consoles \ {c} : picture'[d] = picture[d]
      /\ picture'[c].frame = frame[c] /\ picture'[c].off = spritesOff[c]
  <2> DEFINE shown == [frame |-> frame[c], off |-> spritesOff[c]]
  <2>1. /\ picture \in [Consoles -> [frame : Nat, off : BOOLEAN]]
        /\ frame[c] \in Nat /\ spritesOff[c] \in BOOLEAN
    BY DEF HarnessInv, TypeOK
  <2>2. picture' = [picture EXCEPT ![c] = shown]
    OBVIOUS
  <2>3. shown \in [frame : Nat, off : BOOLEAN]
    BY <2>1, Zenon
  <2>4. shown.frame = frame[c] /\ shown.off = spritesOff[c]
    BY Zenon
  <2> HIDE DEF shown
  <2> QED BY <2>1, <2>2, <2>3, <2>4, Zenon
<1>5. /\ played' \in [Consoles -> Seq(Inputs)]
      /\ \A d \in Consoles \ {c} : played'[d] = played[d]
      /\ played'[c] = Append(played[c], input[c])
  BY DEF HarnessInv, TypeOK
<1>6. TypeOK'
  BY <1>1, <1>2, <1>3, <1>4, <1>5 DEF HarnessInv, TypeOK
<1>7. (FramesFit(c) /\ SpritesFit(c) /\ FilesFit(c) /\ InputFits(c))'
  <2>1. FramesFit(c) /\ SpritesFit(c) /\ FilesFit(c) /\ InputFits(c) /\ TypeOK
    BY DEF HarnessInv
  <2>2. Len(played[c]) = frame[c] - 1 /\ frame[c] \in 1 .. Frames
    BY <2>1 DEF FramesFit, Ahead
  <2>3. /\ Len(played'[c]) = frame[c]
        /\ played'[c][frame[c]] = input[c]
        /\ \A f \in 1 .. frame[c] - 1 : played'[c][f] = played[c][f]
    BY <1>5, <2>1, <2>2 DEF TypeOK
  <2>4. FramesFit(c)'
    BY <1>1, <1>2, <1>4, <2>2, <2>3 DEF FramesFit, Ahead
  <2>5. SpritesFit(c)'
    <3>1. \A s \in Outputs[c] : s.frame = frame[c] /\ s.kind = "background" => spritesOff[c]
      BY <2>1 DEF SpritesFit
    <3> QED BY <1>1, <1>2, <1>4, <3>1 DEF SpritesFit
  <2>6. FilesFit(c)'
    <3>1. \A s \in Outputs[c] :
            s.frame \in 1 .. frame[c] /\ s.frame # frame[c] => s \in DOMAIN written[c]
      BY <2>1, <2>2 DEF FilesFit
    <3> QED BY <1>1, <1>2, <2>1, <2>3, <3>1 DEF FilesFit, Open
  <2>7. InputFits(c)'
    <3>1. input[c].keys = Held(c, frame[c])
      BY <2>1 DEF InputFits
    <3> QED BY <1>1, <1>2, <2>1, <2>2, <2>3, <3>1 DEF InputFits
  <2> QED BY <2>4, <2>5, <2>6, <2>7
<1>8. ASSUME NEW d \in Consoles, d # c
      PROVE  (FramesFit(d) /\ SpritesFit(d) /\ FilesFit(d) /\ InputFits(d))'
  BY <1>1, <1>2, <1>3, <1>4, <1>5, <1>8, OthersKeep
<1> QED BY <1>2, <1>6, <1>7, <1>8, Zenon DEF HarnessInv

\* A file written holds what it was given, and no other file changes.
LEMMA WriteAdds ==
  ASSUME TypeOK, NEW c \in Consoles, NEW s, NEW file, Write(c, s, file)
  PROVE  /\ DOMAIN written' = Consoles
         /\ \A d \in Consoles \ {c} : written'[d] = written[d]
         /\ DOMAIN written'[c] = DOMAIN written[c] \cup {s}
         /\ written'[c][s] = file
         /\ \A r \in DOMAIN written[c] \ {s} : written'[c][r] = written[c][r]
  BY DEF TypeOK, Write

\* A file opened is the one file open, and no closed file changes.
LEMMA OpenAdds ==
  ASSUME TypeOK, NEW c \in Consoles, NEW s, Write(c, s, Opened)
  PROVE  /\ Open(c)' = Open(c) \cup {s}
         /\ \A r \in (DOMAIN written[c] \ Open(c))' :
              r \in DOMAIN written[c] \ Open(c) /\ written'[c][r] = written[c][r]
<1>1. /\ DOMAIN written'[c] = DOMAIN written[c] \cup {s}
      /\ written'[c][s].data = "open"
      /\ \A r \in DOMAIN written[c] \ {s} : written'[c][r] = written[c][r]
  BY WriteAdds DEF Opened
<1> QED BY <1>1 DEF Open

\* A file closed is not open any more, and no other changes.
LEMMA CloseAdds ==
  ASSUME TypeOK, NEW c \in Consoles, NEW s, NEW shown, NEW d \in Stores,
         Write(c, s, [shown |-> shown, data |-> d])
  PROVE  /\ Open(c)' = Open(c) \ {s}
         /\ \A r \in (DOMAIN written[c] \ Open(c))' \ {s} :
              r \in DOMAIN written[c] \ Open(c) /\ written'[c][r] = written[c][r]
         /\ written'[c][s].shown = shown
         /\ disk = "sound" => written'[c][s].data = "all"
<1>1. /\ DOMAIN written'[c] = DOMAIN written[c] \cup {s}
      /\ written'[c][s] = [shown |-> shown, data |-> d]
      /\ \A r \in DOMAIN written[c] \ {s} : written'[c][r] = written[c][r]
  BY WriteAdds
<1>2. d # "open" /\ (disk = "sound" => d = "all")
  BY DEF Stores
<1> QED BY <1>1, <1>2 DEF Open

\* One of the files due is opened, and the others are as they were.
LEMMA StepOpenFileDue ==
  ASSUME HarnessInv, NEW c \in Consoles, OpenFileDue(c)
  PROVE  HarnessInv'
<1>1. UNCHANGED <<main, pc, frame, input, spritesOff, played, picture, disk>>
  BY DEF OpenFileDue, world, Emulator
<1>2. PICK s \in Left(c) : Write(c, s, Opened)
  BY DEF OpenFileDue
<1>3. pc[c] = "shots" /\ s \in Outputs[c] /\ s.frame = frame[c]
  BY DEF OpenFileDue, Left, Due
<1>4. FramesFit(c) /\ SpritesFit(c) /\ FilesFit(c) /\ InputFits(c) /\ TypeOK
  BY DEF HarnessInv
<1>5. /\ DOMAIN written' = Consoles
      /\ \A d \in Consoles \ {c} : written'[d] = written[d]
      /\ DOMAIN written'[c] = DOMAIN written[c] \cup {s}
  BY <1>2, <1>4, WriteAdds
<1>6. TypeOK' /\ ThreadsFit'
  BY <1>1, <1>4, <1>5 DEF HarnessInv, TypeOK, ThreadsFit
<1>7. FilesFit(c)'
  <2>1. /\ Open(c)' = Open(c) \cup {s}
        /\ \A r \in (DOMAIN written[c] \ Open(c))' :
             r \in DOMAIN written[c] \ Open(c) /\ written'[c][r] = written[c][r]
    BY <1>2, <1>4, OpenAdds
  <2> QED BY <1>1, <1>3, <1>4, <1>5, <2>1 DEF FilesFit
<1>8. (FramesFit(c) /\ SpritesFit(c) /\ InputFits(c))'
  BY <1>1, <1>4 DEF FramesFit, SpritesFit, InputFits
<1>9. ASSUME NEW d \in Consoles, d # c
      PROVE  (FramesFit(d) /\ SpritesFit(d) /\ FilesFit(d) /\ InputFits(d))'
  BY <1>1, <1>5, <1>9, OthersKeep
<1> QED BY <1>6, <1>7, <1>8, <1>9, Zenon DEF HarnessInv

\* The open file gets, whole or in part, the frame in the frame buffer.
LEMMA StepWriteFile ==
  ASSUME HarnessInv, NEW c \in Consoles, WriteFile(c)
  PROVE  HarnessInv'
<1>1. UNCHANGED <<main, pc, frame, input, spritesOff, played, picture, disk>>
  BY DEF WriteFile, world, Emulator
<1>2. PICK s \in Open(c), d \in Stores :
        Write(c, s, [shown |-> picture[c], data |-> d])
  BY DEF WriteFile, ShownNow
<1>3. FramesFit(c) /\ SpritesFit(c) /\ FilesFit(c) /\ InputFits(c) /\ TypeOK
  BY DEF HarnessInv
<1>4. pc[c] = "shots" /\ s \in Outputs[c] /\ s.frame = frame[c]
  BY <1>3 DEF WriteFile, FilesFit
<1>5. /\ DOMAIN written' = Consoles
      /\ \A e \in Consoles \ {c} : written'[e] = written[e]
      /\ DOMAIN written'[c] = DOMAIN written[c] \cup {s}
  BY <1>2, <1>3, WriteAdds
<1>6. TypeOK' /\ ThreadsFit'
  BY <1>1, <1>3, <1>5 DEF HarnessInv, TypeOK, ThreadsFit
<1>7. FilesFit(c)'
  <2>1. /\ Open(c)' = Open(c) \ {s}
        /\ \A r \in (DOMAIN written[c] \ Open(c))' \ {s} :
             r \in DOMAIN written[c] \ Open(c) /\ written'[c][r] = written[c][r]
        /\ written'[c][s].shown = picture[c]
        /\ disk = "sound" => written'[c][s].data = "all"
    BY <1>2, <1>3, CloseAdds
  <2>2. picture[c].frame = s.frame
    BY <1>3, <1>4 DEF FramesFit
  <2>3. s.kind = "background" => picture[c].off
    BY <1>3, <1>4 DEF SpritesFit
  <2> QED BY <1>1, <1>3, <1>4, <1>5, <2>1, <2>2, <2>3 DEF FilesFit
<1>8. (FramesFit(c) /\ SpritesFit(c) /\ InputFits(c))'
  BY <1>1, <1>3 DEF FramesFit, SpritesFit, InputFits
<1>9. ASSUME NEW e \in Consoles, e # c
      PROVE  (FramesFit(e) /\ SpritesFit(e) /\ FilesFit(e) /\ InputFits(e))'
  BY <1>1, <1>5, <1>9, OthersKeep
<1> QED BY <1>6, <1>7, <1>8, <1>9, Zenon DEF HarnessInv

\* The recording is opened behind the last frame.
LEMMA StepOpenWav ==
  ASSUME HarnessInv, NEW c \in Consoles, OpenWav(c)
  PROVE  HarnessInv'
<1>1. UNCHANGED <<main, pc, frame, input, spritesOff, played, picture, disk>>
  BY DEF OpenWav, world, Emulator
<1>2. pc[c] = "wav" /\ Write(c, Wav, Opened)
  BY DEF OpenWav
<1>3. FramesFit(c) /\ SpritesFit(c) /\ FilesFit(c) /\ InputFits(c) /\ TypeOK
  BY DEF HarnessInv
<1>4. /\ DOMAIN written' = Consoles
      /\ \A d \in Consoles \ {c} : written'[d] = written[d]
      /\ DOMAIN written'[c] = DOMAIN written[c] \cup {Wav}
  BY <1>2, <1>3, WriteAdds
<1>5. TypeOK' /\ ThreadsFit'
  BY <1>1, <1>3, <1>4 DEF HarnessInv, TypeOK, ThreadsFit
<1>6. FilesFit(c)'
  <2>1. /\ Open(c)' = Open(c) \cup {Wav}
        /\ \A r \in (DOMAIN written[c] \ Open(c))' :
             r \in DOMAIN written[c] \ Open(c) /\ written'[c][r] = written[c][r]
    BY <1>2, <1>3, OpenAdds
  <2>2. Wav' = Wav
    BY DEF Wav
  <2> HIDE DEF Wav
  <2> QED BY <1>1, <1>2, <1>3, <1>4, <2>1, <2>2 DEF FilesFit
<1>7. (FramesFit(c) /\ SpritesFit(c) /\ InputFits(c))'
  BY <1>1, <1>3 DEF FramesFit, SpritesFit, InputFits
<1>8. ASSUME NEW d \in Consoles, d # c
      PROVE  (FramesFit(d) /\ SpritesFit(d) /\ FilesFit(d) /\ InputFits(d))'
  BY <1>1, <1>4, <1>8, OthersKeep
<1> QED BY <1>5, <1>6, <1>7, <1>8, Zenon DEF HarnessInv

\* The recording is of all the frames.
LEMMA StepWriteWav ==
  ASSUME HarnessInv, NEW c \in Consoles, WriteWav(c)
  PROVE  HarnessInv'
<1> DEFINE all == [frame |-> Len(played[c]), off |-> FALSE]
<1>1. UNCHANGED <<main, frame, input, spritesOff, played, picture, disk>>
  BY DEF WriteWav, world, Emulator
<1>2. /\ pc[c] = "wav" /\ Wav \in DOMAIN written[c]
      /\ pc' = [pc EXCEPT ![c] = "over"]
  BY DEF WriteWav, Goto
<1>3. PICK d \in Stores : Write(c, Wav, [shown |-> all, data |-> d])
  BY DEF WriteWav
<1>4. FramesFit(c) /\ SpritesFit(c) /\ FilesFit(c) /\ InputFits(c) /\ TypeOK
  BY DEF HarnessInv
<1>5. all.frame = Frames
  BY <1>2, <1>4 DEF FramesFit
<1> HIDE DEF all
<1>6. /\ DOMAIN written' = Consoles
      /\ \A e \in Consoles \ {c} : written'[e] = written[e]
      /\ DOMAIN written'[c] = DOMAIN written[c] \cup {Wav}
  BY <1>3, <1>4, WriteAdds
<1>7. /\ pc' \in [Consoles -> Labels] /\ pc'[c] = "over"
      /\ \A e \in Consoles \ {c} : pc'[e] = pc[e]
      /\ ThreadsFit'
  BY <1>1, <1>2, ThreadMoves DEF Labels, Ahead
<1>8. TypeOK'
  BY <1>1, <1>4, <1>6, <1>7 DEF TypeOK
<1>9. FilesFit(c)'
  <2>1. /\ Open(c)' = Open(c) \ {Wav}
        /\ \A r \in (DOMAIN written[c] \ Open(c))' \ {Wav} :
             r \in DOMAIN written[c] \ Open(c) /\ written'[c][r] = written[c][r]
        /\ written'[c][Wav].shown = all
        /\ disk = "sound" => written'[c][Wav].data = "all"
    BY <1>3, <1>4, CloseAdds
  <2>2. Wav.frame = Frames /\ Wav.kind # "background" /\ Wav' = Wav
    BY DEF Wav
  <2>3. Open(c)' = {}
    BY <1>2, <1>4, <2>1 DEF FilesFit
  <2> HIDE DEF Wav
  <2> QED BY <1>1, <1>2, <1>4, <1>5, <1>6, <1>7, <2>1, <2>2, <2>3 DEF FilesFit
<1>10. (FramesFit(c) /\ SpritesFit(c) /\ InputFits(c))'
  BY <1>1, <1>2, <1>4, <1>7 DEF FramesFit, SpritesFit, InputFits, Ahead
<1>11. ASSUME NEW e \in Consoles, e # c
       PROVE  (FramesFit(e) /\ SpritesFit(e) /\ FilesFit(e) /\ InputFits(e))'
  BY <1>1, <1>6, <1>7, <1>11, OthersKeep
<1> QED BY <1>7, <1>8, <1>9, <1>10, <1>11, Zenon DEF HarnessInv

\* On to the next frame, or behind the last, when nothing due is left.
LEMMA StepNextFrame ==
  ASSUME HarnessInv, NEW c \in Consoles, NextFrame(c)
  PROVE  HarnessInv'
<1>1. UNCHANGED <<main, input, spritesOff, played, picture, written, disk>>
  BY DEF NextFrame, world, Emulator
<1>2. FramesFit(c) /\ SpritesFit(c) /\ FilesFit(c) /\ InputFits(c) /\ TypeOK
  BY DEF HarnessInv
<1>3. pc[c] = "shots" /\ frame[c] \in 1 .. Frames /\ Len(played[c]) = frame[c]
  BY <1>2 DEF NextFrame, FramesFit
<1>4. /\ frame' \in [Consoles -> Nat] /\ frame'[c] = frame[c] + 1
      /\ \A d \in Consoles \ {c} : frame'[d] = frame[d]
  <2> DEFINE m == 2 ^ FrameBits
  <2>1. m \in Nat /\ frame[c] + 1 < m /\ Frames \in Nat
    BY <1>3, HarnessAssumption
  <2>2. frame' = [frame EXCEPT ![c] = (frame[c] + 1) % m]
    BY DEF NextFrame
  <2> HIDE DEF m
  <2>3. (frame[c] + 1) % m = frame[c] + 1
    BY <1>3, <2>1
  <2> QED BY <1>2, <1>3, <2>2, <2>3 DEF TypeOK
<1>5. PICK l \in {"pace", "wav", "over"} :
        /\ pc' = [pc EXCEPT ![c] = l]
        /\ l = "pace" => frame[c] + 1 <= Frames
        /\ l # "pace" => frame[c] = Frames
        /\ l = "over" => c \notin Recorded
  <2>1. pc' = [pc EXCEPT ![c] = Reach(c, frame[c] + 1)]
    BY DEF NextFrame, Goto
  <2>2. Frames \in Int
    BY HarnessAssumption
  <2>3. CASE frame[c] + 1 <= Frames
    <3>1. Reach(c, frame[c] + 1) = "pace"
      BY <1>3, <2>2, <2>3 DEF Reach
    <3> QED BY <2>1, <2>3, <3>1
  <2>4. CASE ~ (frame[c] + 1 <= Frames)
    <3>1. frame[c] + 1 > Frames /\ frame[c] = Frames
      BY <1>3, <2>2, <2>4
    <3>2. Reach(c, frame[c] + 1) = IF c \in Recorded THEN "wav" ELSE "over"
      BY <2>4, <3>1 DEF Reach
    <3> QED BY <2>1, <3>1, <3>2
  <2> QED BY <2>3, <2>4
<1>6. /\ pc' \in [Consoles -> Labels] /\ pc'[c] = l
      /\ \A d \in Consoles \ {c} : pc'[d] = pc[d]
      /\ ThreadsFit'
  BY <1>1, <1>3, <1>5, ThreadMoves DEF Labels, Ahead
<1>7. TypeOK'
  BY <1>1, <1>2, <1>4, <1>6 DEF TypeOK
<1>8. FramesFit(c)'
  BY <1>1, <1>2, <1>3, <1>4, <1>5, <1>6 DEF FramesFit, Ahead
<1>9. FilesFit(c)'
  <2>1. \A s \in Outputs[c] : s.frame = frame[c] => s \in DOMAIN written[c]
    BY DEF NextFrame, Left, Due
  <2>2. Open(c) = {} /\ Open(c)' = {}
    BY <1>1 DEF NextFrame, Open
  <2> QED BY <1>1, <1>2, <1>5, <1>6, <2>1, <2>2 DEF FilesFit
<1>10. SpritesFit(c)' /\ InputFits(c)'
  BY <1>1, <1>2, <1>6 DEF SpritesFit, InputFits
<1>11. ASSUME NEW d \in Consoles, d # c
       PROVE  (FramesFit(d) /\ SpritesFit(d) /\ FilesFit(d) /\ InputFits(d))'
  BY <1>1, <1>4, <1>6, <1>11, OthersKeep
<1> QED BY <1>6, <1>7, <1>8, <1>9, <1>10, <1>11, Zenon DEF HarnessInv

-----------------------------------------------------------------------------
(***************************************************************************)
(* The theorems.                                                           *)
(***************************************************************************)

\* In every state of play() and of main() each console has run the frames its
\* thread is behind, with their keys, and the files asked
\* for until then are on disk, whole where the disk did not fail.
THEOREM HarnessInvHolds == Spec => []HarnessInv
<1>1. HarnessInv /\ [Next]_vars => HarnessInv'
  <2> SUFFICES ASSUME HarnessInv, [Next]_vars PROVE HarnessInv'
    OBVIOUS
  <2>1. CASE Main
    BY <2>1, StepQuiet, StepStartsAndJoins DEF Main
  <2>2. CASE Tick \/ DiskFails
    BY <2>2, StepQuiet
  <2>3. ASSUME NEW c \in Consoles, Thread(c) PROVE HarnessInv'
    <3>1. CASE Pace(c) \/ SetInput(c) \/ LoadCount(c) \/ StoreCount(c)
      BY <3>1, StepBefore
    <3>2. CASE CannotOpen(c)
      BY <3>2, StepQuiet
    <3>3. CASE HideSprites(c)
      BY <3>3, StepHideSprites
    <3>4. CASE RunFrame(c)
      BY <3>4, StepRunFrame
    <3>5. CASE WriteFile(c)
      BY <3>5, StepWriteFile
    <3>6. CASE WriteWav(c)
      BY <3>6, StepWriteWav
    <3>7. CASE NextFrame(c)
      BY <3>7, StepNextFrame
    <3>8. CASE OpenFileDue(c)
      BY <3>8, StepOpenFileDue
    <3>9. CASE OpenWav(c)
      BY <3>9, StepOpenWav
    <3> QED BY <2>3, <3>1, <3>2, <3>3, <3>4, <3>5, <3>6, <3>7, <3>8, <3>9 DEF Thread
  <2>4. CASE UNCHANGED vars
    <3>1. UNCHANGED <<main, pc, frame, input, spritesOff, played, picture, written,
                      disk>>
      BY <2>4 DEF vars, world
    <3>2. TypeOK' /\ ThreadsFit'
      BY <3>1 DEF HarnessInv, TypeOK, ThreadsFit
    <3>3. ASSUME NEW c \in Consoles
          PROVE  (FramesFit(c) /\ SpritesFit(c) /\ FilesFit(c) /\ InputFits(c))'
      BY <3>1, OthersKeep
    <3> QED BY <3>2, <3>3 DEF HarnessInv
  <2> QED BY <2>1, <2>2, <2>3, <2>4 DEF Next
<1> QED BY <1>1, HarnessInit, PTL DEF Spec

\* Behind play() no console runs any more, each has been played to the end, and
\* every file asked for is closed, shows its frame and, unless a write to disk
\* failed on the way, is whole.
THEOREM SuccessMeansAllWrittenHolds == Spec => []SuccessMeansAllWritten
<1>1. HarnessInv => SuccessMeansAllWritten
  <2> SUFFICES ASSUME HarnessInv, main \in {"count", "report", "end"}, NEW c \in Consoles
               PROVE
      /\ pc[c] = "over" /\ Len(played[c]) = Frames
      /\ \A s \in Outputs[c] : s.frame \in 1 .. Frames =>
           /\ Finished(c, s)
           /\ s.kind = "background" => written[c][s].shown.off
      /\ c \in Recorded => Finished(c, Wav)
    BY DEF SuccessMeansAllWritten
  <2>1. pc[c] = "over"
    BY DEF HarnessInv, ThreadsFit
  <2>2. Len(played[c]) = Frames
    BY <2>1 DEF HarnessInv, FramesFit
  <2>3. FilesFit(c)
    BY DEF HarnessInv
  <2>4. Open(c) = {}
    BY <2>1, <2>3 DEF FilesFit
  <2>5. ASSUME NEW s \in DOMAIN written[c]
        PROVE  Finished(c, s) /\ (s.kind = "background" => written[c][s].shown.off)
    BY <2>3, <2>4 DEF FilesFit, Finished
  <2> QED BY <2>1, <2>2, <2>3, <2>5 DEF FilesFit
<1> QED BY <1>1, HarnessInvHolds, PTL

\* As long as no press's end wraps around, every frame is run with the keys of
\* exactly the presses that cover it.
THEOREM PlayedAsScriptedHolds ==
  ASSUME NoPressWraps
  PROVE  Spec => []PlayedAsScripted
<1>1. HarnessInv => PlayedAsScripted
  <2> SUFFICES ASSUME HarnessInv, NEW c \in Consoles, NEW f \in 1 .. Len(played[c])
               PROVE  played[c][f].keys = {p.key : p \in {q \in Presses[c] :
                                             f - q.frame \in 0 .. q.hold - 1}}
    BY DEF PlayedAsScripted
  <2>1. played[c][f].keys = Held(c, f)
    BY DEF HarnessInv, InputFits
  <2>2. f \in Nat
    BY DEF HarnessInv, TypeOK
  <2>3. ASSUME NEW q \in Presses[c]
        PROVE  During(f, q) <=> f - q.frame \in 0 .. q.hold - 1
    <3> DEFINE m == 2 ^ FrameBits
               b == q.frame
               h == q.hold
    <3>1. b \in Nat /\ h \in Nat /\ b + h < m /\ m \in Nat
      BY NoPressWraps, HarnessAssumption DEF NoPressWraps
    <3>2. During(f, q) <=> f >= b /\ f < (b + h) % m
      BY DEF During
    <3> HIDE DEF m, b, h
    <3>3. (b + h) % m = b + h
      BY <3>1
    <3>4. During(f, q) <=> f - b \in 0 .. h - 1
      BY <2>2, <3>1, <3>2, <3>3
    <3> QED BY <3>4 DEF b, h
  <2>4. {q \in Presses[c] : During(f, q)}
          = {q \in Presses[c] : f - q.frame \in 0 .. q.hold - 1}
    BY <2>3
  <2> QED BY <2>1, <2>4 DEF Held
<1> QED BY <1>1, HarnessInvHolds, PTL

\* One console alone counts its saves: what the counter lacks of the flushes is
\* the one the thread is about to store.
CountFits ==
  /\ saveWrites \in Nat /\ loaded \in [Consoles -> Nat]
  /\ pc[FIRST] = "store" => loaded[FIRST] = saveWrites /\ flushes = saveWrites + 1
  /\ pc[FIRST] # "store" => flushes = saveWrites
  /\ main \in {"report", "end"} => reported = saveWrites

\* Without --mp the number of save writes the harness prints is the number there
\* were, so that it takes two threads to lose one.
THEOREM OneConsoleCountsItsSaves ==
  ASSUME Consoles = {FIRST}
  PROVE  Spec => []SavesCounted
<1>1. Init => CountFits
  BY HarnessAssumption DEF Init, CountFits
<1>2. HarnessInv /\ CountFits /\ [Next]_vars => CountFits'
  <2> SUFFICES ASSUME HarnessInv, CountFits, [Next]_vars PROVE CountFits'
    OBVIOUS
  <2> USE DEF CountFits, Goto
  <2>1. /\ main \notin {"setup", "play"} => pc[FIRST] = "over"
        /\ main = "setup" => pc[FIRST] = "unborn"
        /\ pc \in [Consoles -> Labels]
    BY HarnessAssumption DEF HarnessInv, ThreadsFit, TypeOK
  <2>2. CASE DieInSetup \/ MakeConsole \/ Play \/ Join \/ Tick \/ DiskFails
    <3>1. Reach(FIRST, 1) # "store"
      BY HarnessAssumption DEF Reach
    <3> QED BY <2>1, <2>2, <3>1, HarnessAssumption
            DEF DieInSetup, MakeConsole, Play, Join, Tick, DiskFails, Started, counters
  <2>3. CASE CountSaves \/ ReadReport
    BY <2>3 DEF CountSaves, ReadReport, counters
  <2>4. CASE LoadCount(FIRST)
    BY <2>1, <2>4, HarnessAssumption DEF LoadCount
  <2>5. CASE StoreCount(FIRST)
    BY <2>1, <2>5, HarnessAssumption DEF StoreCount
  <2>6. CASE \/ Pace(FIRST) \/ SetInput(FIRST) \/ HideSprites(FIRST) \/ RunFrame(FIRST)
             \/ OpenFileDue(FIRST) \/ WriteFile(FIRST) \/ OpenWav(FIRST)
             \/ WriteWav(FIRST) \/ CannotOpen(FIRST)
    <3>1. UNCHANGED <<main, saveWrites, loaded, flushes, reported>>
      BY <2>6 DEF Pace, SetInput, HideSprites, RunFrame, OpenFileDue, WriteFile,
                  OpenWav, WriteWav, CannotOpen, counters
    <3>2. pc[FIRST] # "store" /\ pc'[FIRST] # "store"
      BY <2>1, <2>6, HarnessAssumption
         DEF Pace, SetInput, HideSprites, RunFrame, OpenFileDue, WriteFile, OpenWav,
             WriteWav, CannotOpen
    <3> QED BY <3>1, <3>2
  <2>7. CASE NextFrame(FIRST)
    <3>1. UNCHANGED <<main, saveWrites, loaded, flushes, reported>> /\ pc[FIRST] # "store"
      BY <2>7 DEF NextFrame, counters
    <3>2. pc'[FIRST] # "store"
      <4>1. Reach(FIRST, frame[FIRST] + 1) # "store"
              \/ ~ (frame[FIRST] + 1 <= Frames \/ frame[FIRST] + 1 > Frames)
        BY DEF Reach
      <4>2. frame[FIRST] + 1 <= Frames \/ frame[FIRST] + 1 > Frames
        BY HarnessAssumption DEF HarnessInv, TypeOK
      <4> QED BY <2>1, <2>7, <4>1, <4>2, HarnessAssumption DEF NextFrame
    <3> QED BY <3>1, <3>2
  <2>8. CASE UNCHANGED vars
    BY <2>8 DEF vars, counters
  <2> QED BY <2>2, <2>3, <2>4, <2>5, <2>6, <2>7, <2>8 DEF Next, Main, Thread
<1>3. HarnessInv /\ CountFits => SavesCounted
  <2> SUFFICES ASSUME HarnessInv, CountFits, main \in {"report", "end"}
               PROVE  reported = flushes
    BY DEF SavesCounted
  <2>1. pc[FIRST] = "over"
    BY HarnessAssumption DEF HarnessInv, ThreadsFit
  <2> QED BY <2>1 DEF CountFits
<1> QED BY <1>1, <1>2, <1>3, HarnessInvHolds, PTL DEF Spec

-----------------------------------------------------------------------------
(***************************************************************************)
(* The files of the set-up.                                                *)
(***************************************************************************)

\* What fopen makes of each letter and plus.
LEMMA FopenAsC ==
  ASSUME NEW exists \in BOOLEAN, NEW plus \in {"+", ""}
  PROVE  /\ LET f == fopen(<<"a", plus>>, exists) IN
              f.open /\ f.write /\ (f.read <=> plus = "+") /\ (f.kept <=> exists)
         /\ LET f == fopen(<<"w", plus>>, exists) IN
              f.open /\ f.write /\ (f.read <=> plus = "+") /\ ~ f.kept
         /\ exists => LET f == fopen(<<"r", plus>>, exists) IN
              f.open /\ f.read /\ (f.write <=> plus = "+") /\ f.kept
         /\ ~ exists => ~ fopen(<<"r", plus>>, exists).open
<1>1. <<"a", plus>>[1] = "a" /\ <<"a", plus>>[2] = plus OBVIOUS
<1>2. <<"w", plus>>[1] = "w" /\ <<"w", plus>>[2] = plus OBVIOUS
<1>3. <<"r", plus>>[1] = "r" /\ <<"r", plus>>[2] = plus OBVIOUS
<1>4. /\ plus = "+" => fopen(<<"a", plus>>, exists) =
           [open |-> TRUE, read |-> TRUE, write |-> TRUE, kept |-> exists]
      /\ plus # "+" => fopen(<<"a", plus>>, exists) =
           [open |-> TRUE, read |-> FALSE, write |-> TRUE, kept |-> exists]
  BY <1>1 DEF fopen
<1>5. /\ plus = "+" => fopen(<<"w", plus>>, exists) =
           [open |-> TRUE, read |-> TRUE, write |-> TRUE, kept |-> FALSE]
      /\ plus # "+" => fopen(<<"w", plus>>, exists) =
           [open |-> TRUE, read |-> FALSE, write |-> TRUE, kept |-> FALSE]
  BY <1>2 DEF fopen
<1>6. /\ exists /\ plus = "+" => fopen(<<"r", plus>>, exists) =
           [open |-> TRUE, read |-> TRUE, write |-> TRUE, kept |-> TRUE]
      /\ exists /\ plus # "+" => fopen(<<"r", plus>>, exists) =
           [open |-> TRUE, read |-> TRUE, write |-> FALSE, kept |-> TRUE]
  BY <1>3 DEF fopen
<1>7. ~ exists => fopen(<<"r", plus>>, exists) =
        [open |-> FALSE, read |-> FALSE, write |-> FALSE, kept |-> FALSE]
  BY <1>3 DEF fopen, Null
<1> DEFINE A == fopen(<<"a", plus>>, exists)
           W == fopen(<<"w", plus>>, exists)
           R == fopen(<<"r", plus>>, exists)
<1> HIDE DEF A, W, R
<1>8. A.open /\ A.write /\ (A.read <=> plus = "+") /\ (A.kept <=> exists)
  <2>1. CASE plus = "+"
    <3>1. A = [open |-> TRUE, read |-> TRUE, write |-> TRUE, kept |-> exists]
      BY <1>4, <2>1, Zenon DEF A
    <3> QED BY <2>1, <3>1
  <2>2. CASE plus # "+"
    <3>1. A = [open |-> TRUE, read |-> FALSE, write |-> TRUE, kept |-> exists]
      BY <1>4, <2>2, Zenon DEF A
    <3> QED BY <2>2, <3>1
  <2> QED BY <2>1, <2>2
<1>9. W.open /\ W.write /\ (W.read <=> plus = "+") /\ ~ W.kept
  <2>1. CASE plus = "+"
    <3>1. W = [open |-> TRUE, read |-> TRUE, write |-> TRUE, kept |-> FALSE]
      BY <1>5, <2>1, Zenon DEF W
    <3> QED BY <2>1, <3>1
  <2>2. CASE plus # "+"
    <3>1. W = [open |-> TRUE, read |-> FALSE, write |-> TRUE, kept |-> FALSE]
      BY <1>5, <2>2, Zenon DEF W
    <3> QED BY <2>2, <3>1
  <2> QED BY <2>1, <2>2
<1>10. ASSUME exists PROVE R.open /\ R.read /\ (R.write <=> plus = "+") /\ R.kept
  <2>1. CASE plus = "+"
    <3>1. R = [open |-> TRUE, read |-> TRUE, write |-> TRUE, kept |-> TRUE]
      BY <1>6, <1>10, <2>1, Zenon DEF R
    <3> QED BY <2>1, <3>1
  <2>2. CASE plus # "+"
    <3>1. R = [open |-> TRUE, read |-> TRUE, write |-> FALSE, kept |-> TRUE]
      BY <1>6, <1>10, <2>2, Zenon DEF R
    <3> QED BY <2>2, <3>1
  <2> QED BY <2>1, <2>2
<1>11. ASSUME ~ exists PROVE ~ R.open
  <2>1. R = [open |-> FALSE, read |-> FALSE, write |-> FALSE, kept |-> FALSE]
    BY <1>7, <1>11, Zenon DEF R
  <2> QED BY <2>1
<1> QED BY <1>8, <1>9, <1>10, <1>11, Zenon DEF A, W, R

\* OpenFile does with a file what the flags of the mode say, for every mode that
\* reads or writes, whether the file is there or not.
LEMMA FilesAsAsked == AsAsked
<1> SUFFICES ASSUME NEW mode \in Mode, mode \cap {"Read", "Write"} # {}, NEW exists \in BOOLEAN
             PROVE  LET f == OpenFile(mode, exists) IN
      /\ f.open <=> exists \/ (mode \cap {"Write", "Append"} # {} /\ "NoCreate" \notin mode)
      /\ f.open /\ exists =>
           (f.kept <=> "Write" \notin mode \/ mode \cap {"Preserve", "Append"} # {})
      /\ f.open => ("Read" \in mode => f.read) /\ ("Write" \in mode => f.write)
  BY Zenon DEF AsAsked
<1> DEFINE eff == Effective(mode, exists)
           plus == IF "Read" \in mode THEN "+" ELSE ""
<1>0. "Read" \in mode \/ "Write" \in mode OBVIOUS
<1>1. CASE "NoCreate" \in mode /\ ~ exists
  <2>1. OpenFile(mode, exists) = Null BY <1>1, Zenon DEF OpenFile
  <2> QED BY <1>1, <2>1 DEF Null
<1>2. CASE ~ ("NoCreate" \in mode /\ ~ exists)
  <2>1. OpenFile(mode, exists) = fopen(CMode(eff), exists)
    BY <1>0, <1>2 DEF OpenFile
  <2>2. /\ "Append" \in eff <=> "Append" \in mode
        /\ "Read" \in eff <=> "Read" \in mode
        /\ "Write" \in eff <=> "Write" \in mode
        /\ "Preserve" \in eff <=> ("Preserve" \in mode /\ exists)
    <3>1. CASE exists BY <3>1 DEF Effective
    <3>2. CASE ~ exists BY <1>2, <3>2 DEF Effective
    <3> QED BY <3>1, <3>2
  <2>3. /\ plus \in {"+", ""} /\ (plus = "+" <=> "Read" \in mode)
        /\ "" \in {"+", ""} /\ "+" \in {"+", ""} /\ "" # "+"
    OBVIOUS
  <2> HIDE DEF eff
  <2>4. CASE "Append" \in mode
    <3>1. CMode(eff) = <<"a", plus>> BY <2>2, <2>4 DEF CMode
    <3> HIDE DEF plus
    <3> DEFINE f == fopen(<<"a", plus>>, exists)
    <3>2. f.open /\ f.write /\ (f.read <=> plus = "+") /\ (f.kept <=> exists)
      BY <2>3, FopenAsC
    <3>3. OpenFile(mode, exists) = f BY <2>1, <3>1
    <3> HIDE DEF f
    <3> QED BY <1>2, <2>3, <2>4, <3>2, <3>3, Zenon
  <2>5. CASE "Append" \notin mode /\ "Write" \in mode /\ ~ ("Preserve" \in mode /\ exists)
    <3>1. CMode(eff) = <<"w", plus>> BY <2>2, <2>5 DEF CMode
    <3> HIDE DEF plus
    <3> DEFINE f == fopen(<<"w", plus>>, exists)
    <3>2. f.open /\ f.write /\ (f.read <=> plus = "+") /\ ~ f.kept
      BY <2>3, FopenAsC
    <3>3. OpenFile(mode, exists) = f BY <2>1, <3>1
    <3> HIDE DEF f
    <3> QED BY <1>2, <2>3, <2>5, <3>2, <3>3, Zenon
  <2>6. CASE "Append" \notin mode /\ "Write" \in mode /\ "Preserve" \in mode /\ exists
    <3>1. CMode(eff) = <<"r", "+">> BY <2>2, <2>6 DEF CMode
    <3> DEFINE f == fopen(<<"r", "+">>, exists)
    <3>2. f.open /\ f.read /\ f.write /\ f.kept BY <2>3, <2>6, FopenAsC
    <3>3. OpenFile(mode, exists) = f BY <2>1, <3>1
    <3> HIDE DEF f
    <3> QED BY <2>6, <3>2, <3>3, Zenon
  <2>7. CASE "Append" \notin mode /\ "Write" \notin mode
    <3>1. CMode(eff) = <<"r", "">> BY <2>2, <2>7 DEF CMode
    <3> DEFINE f == fopen(<<"r", "">>, exists)
    <3>2. /\ exists => f.open /\ f.read /\ f.kept
          /\ ~ exists => ~ f.open
      BY <2>3, FopenAsC
    <3>3. OpenFile(mode, exists) = f BY <2>1, <3>1
    <3> HIDE DEF f
    <3> QED BY <2>7, <3>2, <3>3, Zenon
  <2> QED BY <2>4, <2>5, <2>6, <2>7
<1> QED BY <1>1, <1>2

\* The files that main() opens while it sets up are opened, created, emptied and
\* kept as asked.
THEOREM OpensAsAskedHolds == Spec => []OpensAsAsked
<1>1. OpensAsAsked BY FilesAsAsked DEF OpensAsAsked
<1> QED BY <1>1, PTL

==============================================================================
