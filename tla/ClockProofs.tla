---------------------------- MODULE ClockProofs -----------------------------
(***************************************************************************)
(* Theorems about the clock, for any number of callers and any room in the *)
(* arena.  The boot stage's call is what the safety of the later ones      *)
(* rests on: it either leaves a stub, and nobody installs another, or an   *)
(* arena without room, and nobody gets as far as the jump.                 *)
(***************************************************************************)
EXTENDS Clock, TLAPS

TypeOK ==
  /\ mode \in {"ds", "loader", "ours"} /\ component \in BOOLEAN
  /\ clk \in BOOLEAN /\ fastClock \in BOOLEAN /\ found \in BOOLEAN
  /\ stub \in {"null", "set"} /\ room \in Nat
  /\ pc \in [All -> Labels]
  /\ want \in [All -> BOOLEAN] /\ got \in [All -> BOOLEAN]
  /\ result \in [All -> {"none", "true", "false"}]
  /\ last \in All /\ overlapped \in BOOLEAN

\* Nobody gets past the guard in another mode.
GuardHolds == mode # "ours" => \A c \in All : pc[c] \in {"idle", "guard"}

\* The boot stage's call has the clock for itself.
BootAlone == ~ Booted => last = BOOT /\ \A c \in Callers : pc[c] = "idle"

\* After it there is a stub, and nobody installs one, or no room for any.
StubSettled ==
  Booted /\ mode = "ours" =>
    \/ stub = "set" /\ \A c \in All : pc[c] \notin {"install", "keep"}
    \/ stub = "null" /\ room = 0 /\ \A c \in All : pc[c] = "keep" => ~ got[c]

\* The boot stage's call only fails when nothing fits, and finds no stub itself.
BootKeeps ==
  /\ pc[BOOT] = "keep" /\ ~ got[BOOT] => room = 0
  /\ pc[BOOT] \in {"guard", "test", "install", "keep"} => stub = "null"

\* As long as there is no stub nobody has switched the clock.
Unswitched == mode = "ours" /\ stub = "null" => clk = found /\ ~ fastClock

StubWhenUsed == \A c \in All : pc[c] \in {"read", "switch", "reread", "store"} => stub = "set"

\* The last call, while it has met no other.
LastAlone == ~ overlapped => \A c \in All : c # last => pc[c] = "idle"
LastProgress ==
  mode = "ours" /\ ~ overlapped =>
    /\ pc[last] \in {"reread", "store"} => clk = want[last]
    /\ pc[last] = "store" => got[last] = clk
    /\ pc[last] = "idle" =>
         IF stub = "set"
           THEN result[last] = "true" /\ clk = want[last] /\ fastClock = clk
           ELSE result[last] = "false"

ClockInv ==
  /\ TypeOK /\ GuardHolds /\ BootAlone /\ StubSettled /\ BootKeeps
  /\ StubWhenUsed /\ LastAlone /\ LastProgress /\ Unswitched

\* The boot stage's call is the only one there is.
LEMMA ClockInit == Init => ClockInv
<1> SUFFICES ASSUME Init PROVE ClockInv
  OBVIOUS
<1> USE DEF Init, All, Labels
<1>1. room \in Nat
  BY CallersAssumption
<1>2. /\ clk \in BOOLEAN /\ fastClock \in BOOLEAN /\ component \in BOOLEAN
      /\ found \in BOOLEAN
  OBVIOUS
<1>3. want \in [All -> BOOLEAN] /\ got \in [All -> BOOLEAN] /\ overlapped \in BOOLEAN
  OBVIOUS
<1>4. /\ mode \in {"ds", "loader", "ours"} /\ stub \in {"null", "set"} /\ last \in All
      /\ pc \in [All -> Labels] /\ result \in [All -> {"none", "true", "false"}]
  OBVIOUS
<1>5. TypeOK
  BY <1>1, <1>2, <1>3, <1>4 DEF TypeOK
<1>6. GuardHolds /\ BootAlone /\ StubSettled /\ BootKeeps
  BY CallersAssumption DEF GuardHolds, BootAlone, StubSettled, BootKeeps, Booted
<1>7. StubWhenUsed /\ LastAlone /\ LastProgress /\ Unswitched
  BY DEF StubWhenUsed, LastAlone, LastProgress, Unswitched
<1> QED BY <1>5, <1>6, <1>7 DEF ClockInv

\* The last call is now this one, alone if everybody was at rest.
LEMMA StepCall ==
  ASSUME ClockInv, NEW c \in Callers, Call(c)
  PROVE  ClockInv'
<1> USE CallersAssumption DEF ClockInv, TypeOK, Call, Goto, GameRuns, world,
      calls, All, Booted
<1>1. TypeOK'
  BY DEF Labels
<1>2. /\ GuardHolds' /\ BootAlone' /\ StubSettled' /\ BootKeeps'
      /\ StubWhenUsed' /\ LastAlone' /\ LastProgress' /\ Unswitched'
  BY DEF Unswitched, GuardHolds, BootAlone, StubSettled, BootKeeps, StubWhenUsed,
      LastAlone, LastProgress, AtRest
<1> QED BY <1>1, <1>2

\* In our mode the guard lets everybody pass.
LEMMA StepGuard ==
  ASSUME ClockInv, NEW c \in All, Guard(c)
  PROVE  ClockInv'
<1> USE CallersAssumption DEF ClockInv, TypeOK, Guard, Goto, Passes, Return,
      world, calls, All, Booted
<1>1. TypeOK'
  BY DEF Labels
<1>2. /\ GuardHolds' /\ BootAlone' /\ StubSettled' /\ BootKeeps'
      /\ StubWhenUsed' /\ LastAlone' /\ LastProgress' /\ Unswitched'
  BY DEF Unswitched, GuardHolds, BootAlone, StubSettled, BootKeeps, StubWhenUsed,
      LastAlone, LastProgress
<1> QED BY <1>1, <1>2

\* Who finds no stub after the boot stage finds an arena without room.
LEMMA StepTestStub ==
  ASSUME ClockInv, NEW c \in All, TestStub(c)
  PROVE  ClockInv'
<1> USE CallersAssumption DEF ClockInv, TypeOK, TestStub, Goto, world, calls,
      All, Booted
<1>1. TypeOK'
  BY DEF Labels
<1>2. /\ GuardHolds' /\ BootAlone' /\ StubSettled' /\ BootKeeps'
      /\ StubWhenUsed' /\ LastAlone' /\ LastProgress' /\ Unswitched'
  BY DEF Unswitched, GuardHolds, BootAlone, StubSettled, BootKeeps, StubWhenUsed,
      LastAlone, LastProgress
<1> QED BY <1>1, <1>2

\* got is a Boolean and room a number, which no one prover takes together: the
\* first step says what the later ones need of both.
LEMMA StepInstallStub ==
  ASSUME ClockInv, NEW c \in All, InstallStub(c)
  PROVE  ClockInv'
<1> USE CallersAssumption DEF ClockInv, TypeOK, InstallStub, Goto, world,
      calls, All, Booted
<1>1. got'[c] <=> room > 0
  OBVIOUS
<1>2. TypeOK'
  BY DEF Labels
<1>3. StubSettled'
  BY <1>1 DEF StubSettled
<1>4. BootKeeps'
  BY <1>1 DEF BootKeeps
<1>5. /\ GuardHolds' /\ BootAlone' /\ StubWhenUsed' /\ LastAlone'
      /\ LastProgress' /\ Unswitched'
  BY DEF GuardHolds, BootAlone, StubWhenUsed, LastAlone, LastProgress, Unswitched
<1> QED BY <1>2, <1>3, <1>4, <1>5

\* The boot stage's, alone, settles the stub; of later ones only those that
\* got nothing are possible, and there was nothing.
LEMMA StepKeepStub ==
  ASSUME ClockInv, NEW c \in All, KeepStub(c)
  PROVE  ClockInv'
<1> USE CallersAssumption DEF ClockInv, TypeOK, KeepStub, Goto, Return, world,
      calls, All, Booted
<1>1. TypeOK'
  BY DEF Labels
<1>2. StubSettled'
  BY DEF StubSettled, BootAlone, BootKeeps
<1>3. StubWhenUsed'
  BY DEF StubWhenUsed, GuardHolds, BootAlone, StubSettled
<1>4. LastProgress'
  BY DEF LastProgress, LastAlone
<1>5. /\ GuardHolds' /\ BootAlone' /\ BootKeeps' /\ LastAlone'
  BY DEF GuardHolds, BootAlone, BootKeeps, LastAlone
<1>6. Unswitched'
  <2>1. mode = "ours" => stub = "null"
    <3>1. CASE Booted
      BY <3>1 DEF StubSettled
    <3>2. CASE ~ Booted
      <4>1. c = BOOT
        BY <3>2 DEF BootAlone
      <4> QED BY <4>1 DEF BootKeeps
    <3> QED BY <3>1, <3>2
  <2>2. UNCHANGED <<mode, found, clk, fastClock>>
    OBVIOUS
  <2> QED BY <2>1, <2>2 DEF Unswitched
<1> QED BY <1>1, <1>2, <1>3, <1>4, <1>5, <1>6

\* Nothing but a place changes.
LEMMA StepReadClk ==
  ASSUME ClockInv, NEW c \in All, ReadClk(c)
  PROVE  ClockInv'
<1> USE CallersAssumption DEF ClockInv, TypeOK, ReadClk, Goto, world, calls,
      All, Booted
<1>1. TypeOK'
  BY DEF Labels
<1>2. /\ GuardHolds' /\ BootAlone' /\ StubSettled' /\ BootKeeps'
      /\ StubWhenUsed' /\ LastAlone' /\ LastProgress' /\ Unswitched'
  BY DEF Unswitched, GuardHolds, BootAlone, StubSettled, BootKeeps, StubWhenUsed,
      LastAlone, LastProgress
<1> QED BY <1>1, <1>2

\* The last call's switch is the last one.
LEMMA StepSwitch ==
  ASSUME ClockInv, NEW c \in All, Switch(c)
  PROVE  ClockInv'
<1> USE CallersAssumption DEF ClockInv, TypeOK, Switch, Goto, ClkWritten,
      world, calls, All, Booted
<1>1. TypeOK'
  BY DEF Labels
<1>2. LastProgress'
  BY DEF LastProgress, LastAlone
<1>3. /\ GuardHolds' /\ BootAlone' /\ StubSettled' /\ BootKeeps'
      /\ StubWhenUsed' /\ LastAlone' /\ Unswitched'
  BY DEF GuardHolds, BootAlone, StubSettled, BootKeeps, StubWhenUsed,
      LastAlone, Unswitched
<1> QED BY <1>1, <1>2, <1>3

\* What is read is what was written.
LEMMA StepReread ==
  ASSUME ClockInv, NEW c \in All, Reread(c)
  PROVE  ClockInv'
<1> USE CallersAssumption DEF ClockInv, TypeOK, Reread, Goto, world, calls,
      All, Booted
<1>1. TypeOK'
  BY DEF Labels
<1>2. /\ GuardHolds' /\ BootAlone' /\ StubSettled' /\ BootKeeps'
      /\ StubWhenUsed' /\ LastAlone' /\ LastProgress' /\ Unswitched'
  BY DEF Unswitched, GuardHolds, BootAlone, StubSettled, BootKeeps, StubWhenUsed,
      LastAlone, LastProgress
<1> QED BY <1>1, <1>2

\* The boot stage is through with the stub in place.
LEMMA StepStore ==
  ASSUME ClockInv, NEW c \in All, Store(c)
  PROVE  ClockInv'
<1> USE CallersAssumption DEF ClockInv, TypeOK, Store, Goto, Return, world,
      calls, All, Booted
<1>1. TypeOK'
  BY DEF Labels
<1>2. StubSettled'
  BY DEF StubSettled, BootAlone, StubWhenUsed
<1>3. LastProgress'
  BY DEF LastProgress, StubWhenUsed, LastAlone
<1>4. /\ GuardHolds' /\ BootAlone' /\ BootKeeps' /\ StubWhenUsed'
      /\ LastAlone' /\ Unswitched'
  BY DEF GuardHolds, BootAlone, BootKeeps, StubWhenUsed, LastAlone, Unswitched
<1> QED BY <1>1, <1>2, <1>3, <1>4

\* Every step of every call keeps the invariant.
LEMMA ClockStep == ClockInv /\ [Next]_vars => ClockInv'
<1> SUFFICES ASSUME ClockInv, [Next]_vars PROVE ClockInv'
  OBVIOUS
<1>1. ASSUME NEW c \in All, Call(c) PROVE ClockInv'
  BY <1>1, StepCall DEF Call
<1>2. ASSUME NEW c \in All, Step(c) PROVE ClockInv'
  BY <1>2, StepGuard, StepTestStub, StepInstallStub, StepKeepStub, StepReadClk,
     StepSwitch, StepReread, StepStore DEF Step
<1>3. CASE UNCHANGED vars
  BY <1>3 DEF vars, world, calls, ClockInv, TypeOK, GuardHolds, BootAlone,
     StubSettled, BootKeeps, StubWhenUsed, LastAlone, LastProgress, Unswitched, Booted
<1> QED BY <1>1, <1>2, <1>3 DEF Next

\* Guard, stub, arena and last call fit together at every step.
THEOREM ClockInvariance == Spec => []ClockInv
BY ClockInit, ClockStep, PTL DEF Spec

\* Nobody jumps to a stub that is not there, however the calls of however many
\* callers meet, and whether or not the arena ever had room.
THEOREM StubNeverNull == Spec => []NeverCallsNull
<1>1. ClockInv => NeverCallsNull
  BY DEF ClockInv, StubWhenUsed, NeverCallsNull
<1> QED BY <1>1, ClockInvariance, PTL

\* A call that met no other has its effect and says so, or has none and says so,
\* after any history.
THEOREM LoneCallTakesEffect == Spec => []CallTakesEffect
<1>1. ClockInv => CallTakesEffect
  BY DEF ClockInv, TypeOK, LastProgress, Unswitched, CallTakesEffect, AtRest
<1> QED BY <1>1, ClockInvariance, PTL

\* In DS mode and under a loader no call changes the clock or the answer.
THEOREM OtherClocksUntouched == Spec => ClockNotOurs
<1>1. ClockInv /\ [Next]_vars => (mode # "ours" => UNCHANGED <<clk, fastClock>>)
  <2> SUFFICES ASSUME ClockInv, [Next]_vars, mode # "ours"
               PROVE  UNCHANGED <<clk, fastClock>>
    OBVIOUS
  <2>1. \A c \in All : pc[c] \in {"idle", "guard"}
    BY DEF ClockInv, GuardHolds
  <2> QED
    BY <2>1 DEF Next, Step, Call, Guard, TestStub, InstallStub, KeepStub, ReadClk,
       Switch, Reread, Store, vars
<1> QED BY <1>1, ClockInvariance, PTL DEF Spec, ClockNotOurs

==============================================================================
