-------------------------------- MODULE Log ---------------------------------
(***************************************************************************)
(* DSi::log and the boot summary (source9/core/log.cpp): a line is         *)
(* formatted into one static buffer, ended, written back from the ARM9's   *)
(* data cache, and its address given to the emulator, which reads it over  *)
(* the bus up to the first NUL.  Nothing keeps callers apart: a handler    *)
(* may log in the middle of somebody else's line.                          *)
(***************************************************************************)
EXTENDS Integers

CONSTANTS
  Callers,      \* who logs
  SUMMARY,      \* the one of them that is logBootSummary
  Size,         \* bytes in the buffer, 192 in the code
  Returns,      \* what OS_VSNPrintf may return: a line's length, or an error
  HackLines     \* lines each of the other callers logs

ASSUME LogAssumption ==
  /\ Size \in Nat /\ Size >= 2
  /\ Returns \subseteq Int /\ HackLines \in Nat /\ SUMMARY \in Callers

VARIABLES
  buffer,       \* as the ARM9 sees it
  ram,          \* as the emulator sees it
  left,         \* lines the caller has still to log
  pc, length, fill, at,
  mixed         \* history: the callers whose line another one has met
vars == <<buffer, ram, left, pc, length, fill, at, mixed>>

Index   == 0 .. Size - 1
NUL     == <<"nul", 0>>
Newline == <<"newline", 0>>
Text(c) == <<c, left[c]>>          \* a character of the caller's line
Cells   == {NUL, Newline} \cup (Callers \X Nat)

Labels == {"idle", "format", "newline", "nul", "flush", "out"}

\* Two lines in DSi mode, one in DS mode.
SummaryLines == {1, 2}

Init ==
  /\ buffer = [i \in Index |-> NUL] /\ ram = buffer
  /\ \E n \in SummaryLines :
       left = [c \in Callers |-> IF c = SUMMARY THEN n ELSE HackLines]
  /\ pc = [c \in Callers |-> "idle"]
  /\ length = [c \in Callers |-> 0]
  /\ fill = [c \in Callers |-> 0]
  /\ at = [c \in Callers |-> 0] /\ mixed = {}

Goto(c, l)  == pc' = [pc EXCEPT ![c] = l]
Put(i, v)   == buffer' = [buffer EXCEPT ![i] = v]
Finish(c)   == Goto(c, "idle") /\ left' = [left EXCEPT ![c] = @ - 1]

\* OS_VSNPrintf(buffer, Size - 1, ...) leaves room for its own NUL; how much it
\* has written when it reports an error is not known.
Room     == Size - 2
Fills(n) == IF n < 0 THEN 0 .. Room ELSE {IF n < Room THEN n ELSE Room}

Call(c) ==
  /\ pc[c] = "idle" /\ left[c] > 0
  /\ \E n \in Returns : \E k \in Fills(n) :
       /\ length' = [length EXCEPT ![c] = n]
       /\ fill' = [fill EXCEPT ![c] = k]
  /\ at' = [at EXCEPT ![c] = 0]
  /\ LET met == {d \in Callers \ {c} : pc[d] # "idle"}
     IN  mixed' = (mixed \ {c}) \cup met \cup (IF met = {} THEN {} ELSE {c})
  /\ Goto(c, "format")
  /\ UNCHANGED <<buffer, ram, left>>

PutChar(c) ==
  /\ pc[c] = "format" /\ at[c] < fill[c]
  /\ Put(at[c], Text(c))
  /\ at' = [at EXCEPT ![c] = @ + 1]
  /\ UNCHANGED <<ram, left, pc, length, fill, mixed>>

\* Mutant: the newline may have the last byte.
ClampedLate(n) == IF n > Size - 1 THEN Size - 1 ELSE n
Clamped(n)     == IF n > Size - 2 THEN Size - 2 ELSE n

\* OS_VSNPrintf's NUL, and what the code makes of the length it returns.
EndText(c) ==
  /\ pc[c] = "format" /\ at[c] = fill[c]
  /\ Put(at[c], NUL)
  /\ IF length[c] < 0
       THEN Finish(c) /\ UNCHANGED at
       ELSE /\ at' = [at EXCEPT ![c] = Clamped(length[c])]
            /\ Goto(c, "newline") /\ UNCHANGED left
  /\ UNCHANGED <<ram, length, fill, mixed>>

PutNewline(c) ==
  /\ pc[c] = "newline"
  /\ Put(at[c], Newline) /\ Goto(c, "nul")
  /\ UNCHANGED <<ram, left, length, fill, at, mixed>>

PutNul(c) ==
  /\ pc[c] = "nul"
  /\ Put(at[c] + 1, NUL) /\ Goto(c, "flush")
  /\ UNCHANGED <<ram, left, length, fill, at, mixed>>

\* Mutant: only the write buffer is drained, as if the cache were not there.
FlushedNothing == ram
Flushed        == buffer

\* DC_FlushRange, DC_WaitWriteBufferEmpty.  What another caller writes while
\* the lines go back one by one, WriteBack can carry on to memory as well.
Flush(c) ==
  /\ pc[c] = "flush"
  /\ ram' = Flushed /\ Goto(c, "out")
  /\ UNCHANGED <<buffer, left, length, fill, at, mixed>>

\* The store to the debug register: the emulator reads the string at once.
Out(c) ==
  /\ pc[c] = "out" /\ Finish(c)
  /\ UNCHANGED <<buffer, ram, length, fill, at, mixed>>

\* The cache may write a dirty byte back whenever it likes.
WriteBack(i) ==
  /\ ram[i] # buffer[i]
  /\ ram' = [ram EXCEPT ![i] = buffer[i]]
  /\ UNCHANGED <<buffer, left, pc, length, fill, at, mixed>>

Step(c) ==
  \/ Call(c) \/ PutChar(c) \/ EndText(c) \/ PutNewline(c) \/ PutNul(c)
  \/ Flush(c) \/ Out(c)
Next == (\E c \in Callers : Step(c)) \/ (\E i \in Index : WriteBack(i))

Spec == Init /\ [][Next]_vars

-----------------------------------------------------------------------------
(***************************************************************************)
(* Properties.                                                             *)
(***************************************************************************)

\* The index of the newline leaves a byte of the buffer for the NUL, and the
\* text one for each, whatever OS_VSNPrintf says of the line's length.
TypeOK ==
  /\ buffer \in [Index -> Cells] /\ ram \in [Index -> Cells]
  /\ pc \in [Callers -> Labels]
  /\ left \in [Callers -> Nat] /\ length \in [Callers -> Int]
  /\ fill \in [Callers -> 0 .. Room] /\ at \in [Callers -> 0 .. Room]

\* Whoever interrupts whom, and whatever the cache has written back: the string
\* the emulator is given ends within the buffer.
EndsInBuffer ==
  \A c \in Callers : pc[c] = "out" => \E i \in Index : ram[i] = NUL

\* What the emulator prints, up to the first NUL, is the caller's line, cut to
\* the room there is, and a newline, when no other line has met it; whatever
\* lines that did meet have left in buffer and cache.
Shown == {i \in Index : \A j \in 0 .. i : ram[j] # NUL}
LineWhole ==
  \A c \in Callers \ mixed : pc[c] = "out" =>
    /\ Shown = 0 .. fill[c]
    /\ \A i \in Shown : ram[i] = IF i < fill[c] THEN Text(c) ELSE Newline

==============================================================================
