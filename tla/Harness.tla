------------------------------ MODULE Harness -------------------------------
(***************************************************************************)
(* The test harness (tools/harness/main.cpp): one emulated console, or two *)
(* with --mp, each played through its script by a thread of its own; the   *)
(* first console's is the main thread, which then waits for the other,     *)
(* says how often the games saved, and reads the report out of their       *)
(* memory.  die() in any thread ends the process with code 2.              *)
(***************************************************************************)
EXTENDS Integers, Sequences, SequencesExt, Files

CONSTANTS
  Consoles,     \* {FIRST}, or two with --mp
  FIRST,
  Frames,       \* --frames
  Presses,      \* per console, a set of [frame, hold, key]
  Touches,      \* per console, a sequence of [frame, hold, point]
  Outputs,      \* per console, a set of [frame, kind]: "shot", "background" or
                \* "memory", the files of --shot, --shot-bg and --save
  Recorded,     \* the consoles with a --wav
  FrameBits     \* the width of a frame number, 32 in the code

ASSUME HarnessAssumption ==
  /\ FIRST \in Consoles /\ Recorded \subseteq Consoles
  /\ FrameBits \in Nat /\ 2 ^ FrameBits \in Nat
  /\ Frames \in 0 .. 2 ^ FrameBits - 2

Second == Consoles \ {FIRST}

VARIABLES
  made,         \* consoles that makeConsole has made and main has started
  main,         \* where main() is outside play
  code,         \* "running", or the exit code, "0" or "2"
  pc, frame,    \* each console's thread, in play
  clock,        \* wall-clock time since the start, in frames
  input,        \* what the console's keys and screen are set to
  spritesOff,   \* DISPCNT as the frame finds it
  played,       \* history: the input of each frame the console has run
  picture,      \* the frame buffer: the frame shown, and with sprites or not
  written,      \* files on disk, each with what it shows and how much of it is there
  disk,         \* "sound", or "failing" from where a write may come short
  saveWrites,   \* g_saveWrites
  loaded,       \* what an increment of it has read
  flushes,      \* history: calls of WriteNDSSave
  reported      \* the number of save writes main has printed
world    == <<clock, disk>>
counters == <<saveWrites, loaded, flushes>>
vars == <<made, main, code, pc, frame, world, input, spritesOff, played, picture,
          written, counters, reported>>

NoInput == [keys |-> {}, point |-> "released"]
Nothing == [frame |-> 0, off |-> FALSE]

Init ==
  /\ made = {} /\ main = "setup" /\ code = "running"
  /\ pc = [c \in Consoles |-> "unborn"] /\ frame = [c \in Consoles |-> 1]
  /\ clock = 0 /\ disk = "sound"
  /\ input = [c \in Consoles |-> NoInput]
  /\ spritesOff = [c \in Consoles |-> FALSE]
  /\ played = [c \in Consoles |-> << >>]
  /\ picture = [c \in Consoles |-> Nothing]
  /\ written = [c \in Consoles |-> [s \in {} |-> Nothing]]
  /\ saveWrites = 0 /\ flushes = 0 /\ loaded = [c \in Consoles |-> 0]
  /\ reported = 0

Running     == code = "running"
Goto(c, l)  == pc' = [pc EXCEPT ![c] = l]
Emulator    == <<input, spritesOff, played, picture>>

(***************************************************************************)
(* main().                                                                 *)
(***************************************************************************)
\* A file is missing, has the wrong size, or does not parse; or an argument is
\* wrong, before the first console.
DieInSetup ==
  /\ Running /\ main = "setup" /\ made # Consoles
  /\ code' = "2"
  /\ UNCHANGED <<made, main, pc, frame, world, Emulator, written, counters, reported>>

MakeConsole ==
  /\ Running /\ main = "setup"
  /\ \E c \in Consoles \ made :
       /\ c = FIRST \/ FIRST \in made
       /\ made' = made \cup {c}
  /\ UNCHANGED <<main, code, pc, frame, world, Emulator, written, counters, reported>>

\* Where the loop of play() goes for frame f.
Reach(c, f) ==
  CASE f <= Frames -> "pace"
    [] f > Frames  -> IF c \in Recorded THEN "wav" ELSE "over"

\* The second console's thread, if there is one, and play() in this one.
\* Mutant: nobody runs the second console.
StartedFirst == [c \in Consoles |-> IF c = FIRST THEN Reach(c, 1) ELSE "unborn"]
Started      == [c \in Consoles |-> Reach(c, 1)]

Play ==
  /\ Running /\ main = "setup" /\ made = Consoles
  /\ main' = "play"
  /\ pc' = Started
  /\ UNCHANGED <<made, code, frame, world, Emulator, written, counters, reported>>

\* Mutant: the main thread does not wait for the second console.
JoinedNobody == pc[FIRST] = "over"
Joined       == \A c \in Consoles : pc[c] = "over"

Join ==
  /\ Running /\ main = "play" /\ pc[FIRST] = "over" /\ Joined
  /\ main' = "count"
  /\ UNCHANGED <<made, code, pc, frame, world, Emulator, written, counters, reported>>

CountSaves ==
  /\ Running /\ main = "count"
  /\ reported' = saveWrites /\ main' = "report"
  /\ UNCHANGED <<made, code, pc, frame, world, Emulator, written, counters>>

\* printReport, of each console in turn, and the end of main().
ReadReport ==
  /\ Running /\ main = "report"
  /\ main' = "end" /\ code' = "0"
  /\ UNCHANGED <<made, pc, frame, world, Emulator, written, counters, reported>>

(***************************************************************************)
(* play(), frame by frame.                                                 *)
(***************************************************************************)
Tick ==
  /\ Running /\ main = "play" /\ clock < Frames
  /\ clock' = clock + 1
  /\ UNCHANGED <<made, main, code, pc, frame, disk, Emulator, written, counters,
                 reported>>

\* The disk is full, or errs.  Nobody is told but by the results of C's writes.
DiskFails ==
  /\ Running /\ disk = "sound"
  /\ disk' = "failing"
  /\ UNCHANGED <<made, main, code, pc, frame, clock, Emulator, written, counters,
                 reported>>

\* Two consoles keep to real time, one runs as fast as it can.
Pace(c) ==
  /\ Running /\ pc[c] = "pace"
  /\ Second = {} \/ clock >= frame[c]
  /\ Goto(c, "input")
  /\ UNCHANGED <<made, main, code, frame, world, Emulator, written, counters, reported>>

\* Mutant: the last frame of a press is one too many.
DuringOneMore(f, s) == f >= s.frame /\ f <= (s.frame + s.hold) % 2 ^ FrameBits
During(f, s)        == f >= s.frame /\ f < (s.frame + s.hold) % 2 ^ FrameBits

\* The keys of every press under way in frame f; of the touches, the last of the
\* script.
Held(c, f)    == {p.key : p \in {q \in Presses[c] : During(f, q)}}
Touched(c, f) ==
  LET ts == SelectSeq(Touches[c], LAMBDA t : During(f, t))
  IN  IF ts = << >> THEN "released" ELSE Last(ts).point

SetInput(c) ==
  /\ Running /\ pc[c] = "input"
  /\ input' = [input EXCEPT ![c] = [keys  |-> Held(c, frame[c]),
                                       point |-> Touched(c, frame[c])]]
  /\ Goto(c, "background")
  /\ UNCHANGED <<made, main, code, frame, world, spritesOff, played, picture, written,
                 counters, reported>>

Due(c)  == {s \in Outputs[c] : s.frame = frame[c]}
Left(c) == Due(c) \ DOMAIN written[c]

\* Sprites and the 3D layer off on both screens, before the frame is run.
HideSprites(c) ==
  /\ Running /\ pc[c] = "background"
  /\ spritesOff' = [spritesOff EXCEPT
                      ![c] = @ \/ \E s \in Due(c) : s.kind = "background"]
  /\ Goto(c, "run")
  /\ UNCHANGED <<made, main, code, frame, world, input, played, picture, written,
                 counters, reported>>

\* NDS::RunFrame.  The game may save, and may set DISPCNT for the next frame.
RunFrame(c) ==
  /\ Running /\ pc[c] = "run"
  /\ played' = [played EXCEPT ![c] = Append(@, input[c])]
  /\ picture' = [picture EXCEPT ![c] = [frame |-> frame[c], off |-> spritesOff[c]]]
  /\ \E b \in {spritesOff[c], FALSE} : spritesOff' = [spritesOff EXCEPT ![c] = b]
  /\ Goto(c, "shots")
  /\ UNCHANGED <<made, main, code, frame, world, input, written, counters, reported>>

\* A frame in which the game flushes its save memory: g_saveWrites++, by the
\* thread of the console, with no lock.
LoadCount(c) ==
  /\ Running /\ pc[c] = "run" /\ flushes < Frames
  /\ loaded' = [loaded EXCEPT ![c] = saveWrites] /\ flushes' = flushes + 1
  /\ Goto(c, "store")
  /\ UNCHANGED <<made, main, code, frame, world, Emulator, written, saveWrites, reported>>
StoreCount(c) ==
  /\ Running /\ pc[c] = "store"
  /\ saveWrites' = loaded[c] + 1
  /\ Goto(c, "run")
  /\ UNCHANGED <<made, main, code, frame, world, Emulator, written, loaded, flushes,
                 reported>>

\* Mutant: a picture is taken of what the frame before has left.
ShownBefore(c) == [frame |-> frame[c] - 1, off |-> spritesOff[c]]
ShownNow(c)    == picture[c]

(***************************************************************************)
(* A file: fopen, which is checked, makes or empties it; what fprintf,     *)
(* fwrite and fclose answer is not looked at, so a write that comes short  *)
(* leaves part of the file and stops nobody.                               *)
(***************************************************************************)
Write(c, s, file) ==
  written' = [written EXCEPT ![c] = [r \in DOMAIN @ \cup {s} |->
                                       IF r = s THEN file ELSE @[r]]]
Opened  == [shown |-> Nothing, data |-> "open"]
Open(c) == {s \in DOMAIN written[c] : written[c][s].data = "open"}

\* How much of what was written is in the file when it is closed.
Stores == IF disk = "sound" THEN {"all"} ELSE {"all", "part"}

\* writePPM, one screenshot after the other, then what --save asks for.
OpenFileDue(c) ==
  /\ Running /\ pc[c] = "shots" /\ Open(c) = {}
  /\ \E s \in Left(c) :
       /\ s.kind = "memory" => \A r \in Left(c) : r.kind = "memory"
       /\ Write(c, s, Opened)
  /\ UNCHANGED <<made, main, code, pc, frame, world, Emulator, counters, reported>>

WriteFile(c) ==
  /\ Running /\ pc[c] = "shots"
  /\ \E s \in Open(c), d \in Stores :
       Write(c, s, [shown |-> ShownNow(c), data |-> d])
  /\ UNCHANGED <<made, main, code, pc, frame, world, Emulator, counters, reported>>

\* The sound of all frames, when the last is over.
Wav == [frame |-> Frames, kind |-> "wav"]
OpenWav(c) ==
  /\ Running /\ pc[c] = "wav" /\ Wav \notin DOMAIN written[c]
  /\ Write(c, Wav, Opened)
  /\ UNCHANGED <<made, main, code, pc, frame, world, Emulator, counters, reported>>

WriteWav(c) ==
  /\ Running /\ pc[c] = "wav" /\ Wav \in DOMAIN written[c]
  /\ \E d \in Stores :
       Write(c, Wav, [shown |-> [frame |-> Len(played[c]), off |-> FALSE], data |-> d])
  /\ Goto(c, "over")
  /\ UNCHANGED <<made, main, code, frame, world, Emulator, counters, reported>>

\* fopen fails: die().
CannotOpen(c) ==
  /\ Running
  /\ \/ pc[c] = "shots" /\ Left(c) # {} /\ Open(c) = {}
     \/ pc[c] = "wav" /\ Wav \notin DOMAIN written[c]
  /\ code' = "2"
  /\ UNCHANGED <<made, main, pc, frame, world, Emulator, written, counters, reported>>

NextFrame(c) ==
  /\ Running /\ pc[c] = "shots" /\ Left(c) = {} /\ Open(c) = {}
  /\ frame' = [frame EXCEPT ![c] = (@ + 1) % 2 ^ FrameBits]
  /\ Goto(c, Reach(c, frame[c] + 1))
  /\ UNCHANGED <<made, main, code, world, Emulator, written, counters, reported>>

Thread(c) ==
  \/ Pace(c) \/ SetInput(c) \/ HideSprites(c) \/ RunFrame(c)
  \/ LoadCount(c) \/ StoreCount(c) \/ OpenFileDue(c) \/ WriteFile(c)
  \/ OpenWav(c) \/ WriteWav(c) \/ CannotOpen(c) \/ NextFrame(c)
Main == DieInSetup \/ MakeConsole \/ Play \/ Join \/ CountSaves \/ ReadReport
Next == Main \/ Tick \/ DiskFails \/ \E c \in Consoles : Thread(c)

Spec == Init /\ [][Next]_vars
\* Neither thread waits for the other in play(), and the time passes.
FairSpec ==
  Spec /\ WF_vars(Main) /\ WF_vars(Tick) /\ \A c \in Consoles : WF_vars(Thread(c))

-----------------------------------------------------------------------------
(***************************************************************************)
(* Properties.                                                             *)
(***************************************************************************)

\* A file asked for that is closed, shows its frame and, had the disk no fault
\* until now, is there to its last byte.
Finished(c, s) ==
  /\ s \in DOMAIN written[c] \ Open(c)
  /\ written[c][s].shown.frame = s.frame
  /\ disk = "sound" => written[c][s].data = "all"

\* When main() goes on behind play() - tells the save writes, reads the consoles'
\* memory, ends with code 0 - no console runs any more, each has been played to
\* the end of its script, and every file asked for is closed and shows its frame,
\* a background the frame without sprites, a recording all frames.  Whole they
\* are as long as the disk has not failed: code 0 does not say that it has not.
SuccessMeansAllWritten ==
  main \in {"count", "report", "end"} => \A c \in Consoles :
    /\ pc[c] = "over" /\ Len(played[c]) = Frames
    /\ \A s \in Outputs[c] : s.frame \in 1 .. Frames =>
         /\ Finished(c, s)
         /\ s.kind = "background" => written[c][s].shown.off
    /\ c \in Recorded => Finished(c, Wav)

\* Every frame is run with the keys of exactly the presses that cover it.
PlayedAsScripted ==
  \A c \in Consoles : \A f \in 1 .. Len(played[c]) :
    played[c][f].keys = {p.key : p \in {q \in Presses[c] :
                                          f - q.frame \in 0 .. q.hold - 1}}

\* The number of save writes the harness prints is the number there were.
SavesCounted == main \in {"report", "end"} => reported = flushes

\* While main() sets up, and makeConsole opens NAND and SD card: OpenFile opens,
\* creates, empties and keeps files as the flags of the mode say.
OpensAsAsked == main = "setup" => AsAsked

\* Every run of the harness ends, with a code: main() does not wait for ever
\* for a console that has been made.
ProcessEnds == <>(code # "running")

==============================================================================
