----------------------------- MODULE LogProofs ------------------------------
(***************************************************************************)
(* For any callers, any size of the buffer, any lines and any behaviour of *)
(* OS_VSNPrintf within its contract, and with the cache writing back at    *)
(* any time: no store leaves the buffer, and what the emulator is handed   *)
(* ends within it.  The reason is its last byte, which nobody but PutNul   *)
(* ever reaches.  A line that met no other comes out whole: what is said   *)
(* of it at each step speaks of its own bytes only, and so of none that an *)
(* earlier line has left.                                                  *)
(***************************************************************************)
EXTENDS Log, TLAPS

LastByte == Size - 1

LastIsNul == buffer[LastByte] = NUL /\ ram[LastByte] = NUL

\* A caller inside DSi::log has a line to log, and whoever puts the newline
\* got a length and no error.
LineUnderWay ==
  \A c \in Callers :
    /\ pc[c] # "idle" => left[c] > 0
    /\ pc[c] = "format" => at[c] <= fill[c]

Inv == TypeOK /\ LastIsNul /\ LineUnderWay

\* The buffer has an index for the last byte, and the text ends before it.
LEMMA Bounds ==
  /\ LastByte \in Index /\ Room \in Nat /\ 0 \in 0 .. Room
  /\ \A i \in 0 .. Room : i \in Index /\ i # LastByte /\ i + 1 \in Index
  BY LogAssumption DEF LastByte, Index, Room

\* What OS_VSNPrintf writes fits into the room it is given.
LEMMA FillsFit ==
  ASSUME NEW n \in Int, NEW k \in Fills(n)
  PROVE  k \in 0 .. Room
  BY LogAssumption DEF Fills, Room

\* The code's clamp keeps the newline's index inside the room.
LEMMA ClampFits ==
  ASSUME NEW n \in Int, ~ (n < 0)
  PROVE  Clamped(n) \in 0 .. Room
  BY LogAssumption DEF Clamped, Room

\* The empty buffer satisfies the invariant.
LEMMA InitInv == Init => Inv
<1> SUFFICES ASSUME Init PROVE Inv OBVIOUS
<1>1. NUL \in Cells BY DEF Cells
<1>2. SUMMARY \in Callers /\ HackLines \in Nat BY LogAssumption
<1>3. left \in [Callers -> Nat] BY <1>2 DEF Init, SummaryLines
<1>4. TypeOK BY <1>1, <1>3, Bounds DEF Init, TypeOK, Labels
<1>5. LastIsNul BY Bounds DEF Init, LastIsNul
<1>6. LineUnderWay BY DEF Init, LineUnderWay
<1> QED BY <1>4, <1>5, <1>6 DEF Inv

\* A store of a cell below the last byte keeps buffer's type and its last NUL.
LEMMA PutBelow ==
  ASSUME Inv, NEW i \in 0 .. Room, NEW v \in Cells, Put(i, v)
  PROVE  buffer' \in [Index -> Cells] /\ buffer'[LastByte] = NUL
  BY Bounds DEF Inv, TypeOK, LastIsNul, Put

\* Every step keeps the invariant.
LEMMA NextInv == Inv /\ [Next]_vars => Inv'
<1> SUFFICES ASSUME Inv, [Next]_vars PROVE Inv' OBVIOUS
<1> USE DEF Inv
<1>N. NUL \in Cells /\ Newline \in Cells BY DEF Cells
<1>1. ASSUME NEW c \in Callers, Call(c) PROVE Inv'
  <2>1. PICK n \in Returns : \E k \in Fills(n) :
          /\ length' = [length EXCEPT ![c] = n]
          /\ fill' = [fill EXCEPT ![c] = k]
    BY <1>1 DEF Call
  <2>2. PICK k \in Fills(n) : /\ length' = [length EXCEPT ![c] = n]
                              /\ fill' = [fill EXCEPT ![c] = k]
    BY <2>1
  <2>3. n \in Int /\ k \in 0 .. Room BY <2>2, FillsFit, LogAssumption
  <2>4. TypeOK' BY <1>1, <2>2, <2>3, Bounds DEF Call, TypeOK, Goto, Labels
  <2>5. LastIsNul' BY <1>1 DEF Call, LastIsNul
  <2>6. LineUnderWay'
    BY <1>1, <2>2, <2>3 DEF Call, LineUnderWay, TypeOK, Goto
  <2> QED BY <2>4, <2>5, <2>6
<1>2. ASSUME NEW c \in Callers, PutChar(c) PROVE Inv'
  <2>1. at[c] \in 0 .. Room /\ at[c] + 1 \in 0 .. Room /\ at[c] + 1 <= fill[c]
    BY <1>2, LogAssumption DEF PutChar, TypeOK, Room
  <2>2. Text(c) \in Cells BY DEF Text, Cells, TypeOK
  <2>3. Put(at[c], Text(c)) BY <1>2 DEF PutChar
  <2>4. buffer' \in [Index -> Cells] /\ buffer'[LastByte] = NUL
    BY <2>1, <2>2, <2>3, PutBelow
  <2>5. TypeOK' BY <1>2, <2>1, <2>4 DEF PutChar, TypeOK
  <2>6. LastIsNul' BY <1>2, <2>4 DEF PutChar, LastIsNul
  <2>7. LineUnderWay' BY <1>2, <2>1 DEF PutChar, LineUnderWay, TypeOK
  <2> QED BY <2>5, <2>6, <2>7
<1>3. ASSUME NEW c \in Callers, EndText(c) PROVE Inv'
  <2>1. buffer' \in [Index -> Cells] /\ buffer'[LastByte] = NUL
    BY <1>3, <1>N, PutBelow DEF EndText, TypeOK
  <2>2. left[c] \in Nat /\ left[c] > 0
    BY <1>3 DEF EndText, LineUnderWay, TypeOK
  <2>3. CASE length[c] < 0
    <3>1. TypeOK'
      BY <1>3, <2>1, <2>2, <2>3 DEF EndText, Finish, Goto, TypeOK, Labels
    <3>2. LineUnderWay'
      BY <1>3, <2>3 DEF EndText, Finish, Goto, LineUnderWay, TypeOK
    <3> QED BY <1>3, <2>1, <3>1, <3>2 DEF EndText, LastIsNul
  <2>4. CASE ~ (length[c] < 0)
    <3>1. Clamped(length[c]) \in 0 .. Room BY <2>4, ClampFits DEF TypeOK
    <3>2. TypeOK'
      BY <1>3, <2>1, <2>4, <3>1 DEF EndText, Goto, TypeOK, Labels
    <3>3. LineUnderWay'
      BY <1>3, <2>2, <2>4 DEF EndText, Goto, LineUnderWay, TypeOK
    <3> QED BY <1>3, <2>1, <3>2, <3>3 DEF EndText, LastIsNul
  <2> QED BY <2>3, <2>4
<1>4. ASSUME NEW c \in Callers, PutNewline(c) PROVE Inv'
  <2>1. buffer' \in [Index -> Cells] /\ buffer'[LastByte] = NUL
    BY <1>4, <1>N, PutBelow DEF PutNewline, TypeOK
  <2>2. TypeOK' BY <1>4, <2>1 DEF PutNewline, Goto, TypeOK, Labels
  <2>3. LineUnderWay' BY <1>4 DEF PutNewline, Goto, LineUnderWay, TypeOK
  <2> QED BY <1>4, <2>1, <2>2, <2>3 DEF PutNewline, LastIsNul
<1>5. ASSUME NEW c \in Callers, PutNul(c) PROVE Inv'
  <2>1. at[c] + 1 \in Index BY Bounds DEF TypeOK
  <2>2. buffer' \in [Index -> Cells] /\ buffer'[LastByte] = NUL
    BY <1>5, <1>N, <2>1 DEF PutNul, Put, TypeOK, LastIsNul
  <2>3. TypeOK' BY <1>5, <2>2 DEF PutNul, Goto, TypeOK, Labels
  <2>4. LineUnderWay' BY <1>5 DEF PutNul, Goto, LineUnderWay, TypeOK
  <2> QED BY <1>5, <2>2, <2>3, <2>4 DEF PutNul, LastIsNul
<1>6. ASSUME NEW c \in Callers, Flush(c) PROVE Inv'
  <2>1. TypeOK' BY <1>6 DEF Flush, Flushed, Goto, TypeOK, Labels
  <2>2. LastIsNul' BY <1>6 DEF Flush, Flushed, LastIsNul
  <2>3. LineUnderWay' BY <1>6 DEF Flush, Goto, LineUnderWay, TypeOK
  <2> QED BY <2>1, <2>2, <2>3
<1>7. ASSUME NEW c \in Callers, Out(c) PROVE Inv'
  <2>1. left[c] \in Nat /\ left[c] > 0
    BY <1>7 DEF Out, LineUnderWay, TypeOK
  <2>2. TypeOK' BY <1>7, <2>1 DEF Out, Finish, Goto, TypeOK, Labels
  <2>3. LineUnderWay' BY <1>7 DEF Out, Finish, Goto, LineUnderWay, TypeOK
  <2> QED BY <1>7, <2>2, <2>3 DEF Out, LastIsNul
<1>8. ASSUME NEW i \in Index, WriteBack(i) PROVE Inv'
  <2>1. TypeOK' BY <1>8 DEF WriteBack, TypeOK
  <2>2. LastIsNul' BY <1>8 DEF WriteBack, LastIsNul, TypeOK
  <2>3. LineUnderWay' BY <1>8 DEF WriteBack, LineUnderWay
  <2> QED BY <2>1, <2>2, <2>3
<1>9. CASE UNCHANGED vars
  BY <1>9 DEF vars, TypeOK, LastIsNul, LineUnderWay
<1> QED
  BY <1>1, <1>2, <1>3, <1>4, <1>5, <1>6, <1>7, <1>8, <1>9 DEF Next, Step

\* The invariant holds throughout.
LEMMA LogInvariance == Spec => []Inv
<1>1. Init => Inv BY InitInv
<1>2. Inv /\ [Next]_vars => Inv' BY NextInv
<1> QED BY <1>1, <1>2, PTL DEF Spec

\* DSi::log stays within its buffer: the text, the newline and the NUL.
THEOREM LogTypeCorrect == Spec => []TypeOK
<1>1. Inv => TypeOK BY DEF Inv
<1> QED BY <1>1, LogInvariance, PTL

\* The emulator always finds the end of the string inside the buffer.
THEOREM LogEndsInBuffer == Spec => []EndsInBuffer
<1>1. Inv => EndsInBuffer BY Bounds DEF Inv, LastIsNul, EndsInBuffer
<1> QED BY <1>1, LogInvariance, PTL

-----------------------------------------------------------------------------
(***************************************************************************)
(* The whole line.  A caller that no other line has met has the buffer for *)
(* itself, and each of its stores stays until the emulator reads them.     *)
(***************************************************************************)

\* Whoever has met no other line is the only one inside DSi::log.
Alone ==
  \A c \in Callers \ mixed : pc[c] # "idle" => \A d \in Callers \ {c} : pc[d] = "idle"

\* The newline goes where the text ends, whatever length OS_VSNPrintf tells.
Cut ==
  \A c \in Callers :
    /\ pc[c] # "idle" /\ length[c] >= 0 => fill[c] = Clamped(length[c])
    /\ pc[c] = "newline" => length[c] >= 0
    /\ pc[c] \in {"newline", "nul"} => at[c] = fill[c]

\* What is in the buffer of such a caller's line, and in memory once it is told.
HasText(c, n) == \A i \in 0 .. n - 1 : buffer[i] = Text(c)
Stored ==
  \A c \in Callers \ mixed :
    /\ pc[c] = "format" => HasText(c, at[c])
    /\ pc[c] \in {"newline", "nul", "flush", "out"} => HasText(c, fill[c])
    /\ pc[c] \in {"nul", "flush", "out"} => buffer[fill[c]] = Newline
    /\ pc[c] \in {"flush", "out"} => buffer[fill[c] + 1] = NUL
    /\ pc[c] = "out" => ram = buffer

LineInv == Inv /\ Alone /\ Cut /\ Stored

\* No line has been begun.
LEMMA LineInit == Init => LineInv
<1> SUFFICES ASSUME Init PROVE LineInv OBVIOUS
<1>1. Alone /\ Cut /\ Stored BY DEF Init, Alone, Cut, Stored
<1> QED BY <1>1, InitInv DEF LineInv

\* The text OS_VSNPrintf has written is as long as the code's clamp.
LEMMA FillIsCut ==
  ASSUME NEW n \in Int, n >= 0, NEW k \in Fills(n)
  PROVE  k = Clamped(n)
  BY LogAssumption DEF Fills, Clamped, Room

\* Every step keeps the line whole.
LEMMA LineStep == LineInv /\ [Next]_vars => LineInv'
<1> SUFFICES ASSUME LineInv, [Next]_vars PROVE Alone' /\ Cut' /\ Stored'
  BY NextInv DEF LineInv
<1> USE DEF LineInv, Inv
<1>1. ASSUME NEW c \in Callers, Call(c) PROVE Alone' /\ Cut' /\ Stored'
  <2>1. PICK n \in Returns : \E k \in Fills(n) :
          /\ length' = [length EXCEPT ![c] = n]
          /\ fill' = [fill EXCEPT ![c] = k]
    BY <1>1 DEF Call
  <2>2. PICK k \in Fills(n) : /\ length' = [length EXCEPT ![c] = n]
                              /\ fill' = [fill EXCEPT ![c] = k]
    BY <2>1
  <2>3. n \in Int /\ (n >= 0 => k = Clamped(n)) BY <2>2, FillIsCut, LogAssumption
  <2> DEFINE met == {d \in Callers \ {c} : pc[d] # "idle"}
  <2>4. mixed' = (mixed \ {c}) \cup met \cup (IF met = {} THEN {} ELSE {c})
    BY <1>1 DEF Call
  <2>5. \A d \in Callers \ mixed' : pc'[d] # "idle" => d = c /\ met = {}
    BY <1>1, <2>4 DEF Call, Goto, TypeOK
  <2>6. Alone' BY <1>1, <2>5 DEF Alone, Call, Goto, TypeOK
  <2>7. Cut' BY <1>1, <2>2, <2>3 DEF Cut, Call, Goto, TypeOK
  <2>8. pc'[c] = "format" /\ at'[c] = 0 BY <1>1 DEF Call, Goto, TypeOK
  <2>9. Stored' BY <2>5, <2>8 DEF Stored, HasText
  <2> QED BY <2>6, <2>7, <2>9
<1>2. ASSUME NEW c \in Callers, PutChar(c) PROVE Alone' /\ Cut' /\ Stored'
  <2>1. Alone' /\ Cut' BY <1>2 DEF Alone, Cut, PutChar, TypeOK
  <2>2. at[c] \in 0 .. Room /\ at[c] \in Index BY Bounds DEF TypeOK
  <2>3. Stored'
    BY <1>2, <2>2 DEF Stored, HasText, Alone, PutChar, Put, Text, TypeOK
  <2> QED BY <2>1, <2>3
<1>3. ASSUME NEW c \in Callers, EndText(c) PROVE Alone' /\ Cut' /\ Stored'
  <2>1. at[c] = fill[c] /\ fill[c] \in 0 .. Room /\ fill[c] \in Index /\ pc[c] = "format"
    BY <1>3, Bounds DEF EndText, TypeOK
  <2>2. buffer' = [buffer EXCEPT ![fill[c]] = NUL]
    BY <1>3, <2>1 DEF EndText, Put
  <2>3. CASE length[c] < 0
    <3>1. /\ pc' = [pc EXCEPT ![c] = "idle"] /\ left' = [left EXCEPT ![c] = @ - 1]
          /\ UNCHANGED <<ram, length, fill, mixed, at>>
      BY <1>3, <2>3 DEF EndText, Finish, Goto
    <3>2. Alone' /\ Cut' BY <3>1 DEF Alone, Cut, TypeOK
    <3>3. Stored' BY <2>1, <2>2, <3>1 DEF Stored, HasText, Alone, Text, TypeOK
    <3> QED BY <3>2, <3>3
  <2>4. CASE ~ (length[c] < 0)
    <3>1. /\ pc' = [pc EXCEPT ![c] = "newline"] /\ UNCHANGED left
          /\ at' = [at EXCEPT ![c] = Clamped(length[c])]
          /\ UNCHANGED <<ram, length, fill, mixed>>
      BY <1>3, <2>4 DEF EndText, Goto
    <3>2. length[c] >= 0 /\ fill[c] = Clamped(length[c])
      BY <2>1, <2>4 DEF Cut, TypeOK
    <3>3. Alone' BY <2>1, <3>1 DEF Alone, TypeOK
    <3>4. Cut' BY <3>1, <3>2 DEF Cut, TypeOK
    <3>5. Stored'
      BY <2>1, <2>2, <3>1 DEF Stored, HasText, Alone, Text, TypeOK
    <3> QED BY <3>3, <3>4, <3>5
  <2> QED BY <2>3, <2>4
<1>4. ASSUME NEW c \in Callers, PutNewline(c) PROVE Alone' /\ Cut' /\ Stored'
  <2>1. Alone' /\ Cut' BY <1>4 DEF Alone, Cut, PutNewline, Goto, TypeOK
  <2>2. at[c] = fill[c] /\ fill[c] \in 0 .. Room /\ fill[c] \in Index
    BY <1>4, Bounds DEF Cut, PutNewline, TypeOK
  <2>3. Stored'
    BY <1>4, <2>2 DEF Stored, HasText, Alone, PutNewline, Put, Goto, Text, TypeOK
  <2> QED BY <2>1, <2>3
<1>5. ASSUME NEW c \in Callers, PutNul(c) PROVE Alone' /\ Cut' /\ Stored'
  <2>1. Alone' /\ Cut' BY <1>5 DEF Alone, Cut, PutNul, Goto, TypeOK
  <2>2. at[c] = fill[c] /\ fill[c] \in 0 .. Room /\ fill[c] + 1 \in Index
        /\ fill[c] \in Index
    BY <1>5, Bounds DEF Cut, PutNul, TypeOK
  <2>3. Stored'
    BY <1>5, <2>2 DEF Stored, HasText, Alone, PutNul, Put, Goto, Text, TypeOK
  <2> QED BY <2>1, <2>3
<1>6. ASSUME NEW c \in Callers, Flush(c) PROVE Alone' /\ Cut' /\ Stored'
  BY <1>6 DEF Alone, Cut, Stored, HasText, Flush, Flushed, Goto, Text, TypeOK
<1>7. ASSUME NEW c \in Callers, Out(c) PROVE Alone' /\ Cut' /\ Stored'
  BY <1>7 DEF Alone, Cut, Stored, HasText, Out, Finish, Goto, Text, TypeOK
<1>8. ASSUME NEW i \in Index, WriteBack(i) PROVE Alone' /\ Cut' /\ Stored'
  BY <1>8 DEF Alone, Cut, Stored, HasText, WriteBack, Text, TypeOK
<1>9. CASE UNCHANGED vars
  BY <1>9 DEF vars, Alone, Cut, Stored, HasText, Text
<1> QED
  BY <1>1, <1>2, <1>3, <1>4, <1>5, <1>6, <1>7, <1>8, <1>9 DEF Next, Step

\* A line that has met no other is printed whole: cut to the room there is, with
\* its newline, whatever an earlier garbled line has left in buffer and cache.
THEOREM LogLineWhole == Spec => []LineWhole
<1>1. LineInv => LineWhole
  <2> SUFFICES ASSUME LineInv, NEW c \in Callers \ mixed, pc[c] = "out"
               PROVE  /\ Shown = 0 .. fill[c]
                      /\ \A i \in Shown :
                           ram[i] = IF i < fill[c] THEN Text(c) ELSE Newline
    BY DEF LineWhole
  <2>1. fill[c] \in 0 .. Room /\ fill[c] + 1 \in Index /\ left[c] \in Nat /\ left[c] > 0
    BY Bounds DEF LineInv, Inv, TypeOK, LineUnderWay
  <2>2. /\ \A i \in 0 .. fill[c] - 1 : ram[i] = Text(c)
        /\ ram[fill[c]] = Newline /\ ram[fill[c] + 1] = NUL
    BY DEF LineInv, Stored, HasText
  <2>3. Text(c) # NUL /\ Newline # NUL
    BY <2>1 DEF Text, NUL, Newline
  <2>4. Shown = 0 .. fill[c]
    BY <2>1, <2>2, <2>3, LogAssumption DEF Shown, Index, Room
  <2> QED BY <2>1, <2>2, <2>4, LogAssumption DEF Room
<1>2. Spec => []LineInv BY LineInit, LineStep, PTL DEF Spec
<1> QED BY <1>1, <1>2, PTL

==============================================================================
