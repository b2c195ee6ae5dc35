------------------------------- MODULE Clock --------------------------------
(***************************************************************************)
(* The ARM9's clock: DSi::setFastClock and its stub in the ITCM arena      *)
(* (source9/core/clock.cpp), the call the boot stage makes before anything *)
(* else can (source9/core/boot9.cpp, source9/fastclock), and the game's    *)
(* calls, one at a time per caller: a thread, or a handler that interrupts *)
(* one.  A step is one access to SCFG_CLK or to a variable of the module;  *)
(* with interrupts off nothing comes between.                              *)
(***************************************************************************)
EXTENDS Naturals

CONSTANTS
  Callers,      \* who calls setFastClock in the running game
  BOOT,         \* the boot stage's own call
  ArenaStubs    \* how many stubs the ITCM arena has room for, at most

ASSUME CallersAssumption == BOOT \notin Callers /\ ArenaStubs \in Nat

VARIABLES
  mode,         \* "ds", "loader", or "ours": DSi mode, SCFG open, no loader
  clk,          \* bit 0 of SCFG_CLK: 134MHz
  fastClock,    \* state.fastClock, what isFastClock() answers
  stub,         \* itcmStub: "null" or "set"
  room,         \* stubs that still fit in the arena
  component,    \* the FastClock component is built in
  found,        \* SCFG_CLK's bit as launcher or loader left it
  pc, want, got, result,
  last,         \* history: who made the last call
  overlapped    \* history: that call, or one during it, met another one
world  == <<mode, component, found>>
calls  == <<last, overlapped>>
vars   == <<world, clk, fastClock, stub, room, pc, want, got, result, calls>>

All    == Callers \cup {BOOT}
Labels == {"idle", "guard", "test", "install", "keep", "read", "switch", "reread",
           "store"}

Init ==
  /\ mode \in {"ds", "loader", "ours"} /\ component \in BOOLEAN
  /\ found \in BOOLEAN /\ (mode = "ds" => ~ found) /\ clk = found
  /\ fastClock = (mode = "loader" /\ clk)          \* DSi_afterOsInit
  /\ stub = "null" /\ room \in 0 .. ArenaStubs
  /\ pc = [c \in All |-> IF c = BOOT /\ mode = "ours" THEN "guard" ELSE "idle"]
  /\ want = [c \in All |-> c = BOOT /\ component]
  /\ got = [c \in All |-> FALSE]
  /\ result = [c \in All |-> "none"]
  /\ last = BOOT /\ overlapped = FALSE

Goto(c, l)   == pc' = [pc EXCEPT ![c] = l]
Return(c, b) == Goto(c, "idle") /\ result' = [result EXCEPT ![c] = b]

AtRest == \A c \in All : pc[c] = "idle"
Booted == pc[BOOT] = "idle"

\* Mutant: the boot stage leaves the clock, and the stub, for later.
BootedAtOnce == pc[BOOT] \in Labels
GameRuns     == Booted

Call(c) ==
  /\ c \in Callers /\ pc[c] = "idle" /\ GameRuns
  /\ \E b \in BOOLEAN : want' = [want EXCEPT ![c] = b]
  /\ result' = [result EXCEPT ![c] = "none"]
  /\ Goto(c, "guard")
  /\ last' = c /\ overlapped' = ~ AtRest
  /\ UNCHANGED <<world, clk, fastClock, stub, room, got>>

\* Mutant: the clock is everybody's.
GuardAlways(c) == pc[c] = "guard"
Passes(c)      == mode = "ours"

Guard(c) ==
  /\ pc[c] = "guard"
  /\ IF Passes(c) THEN Goto(c, "test") /\ UNCHANGED result
     ELSE Return(c, "false")
  /\ UNCHANGED <<world, clk, fastClock, stub, room, want, got, calls>>

TestStub(c) ==
  /\ pc[c] = "test"
  /\ Goto(c, IF stub = "set" THEN "read" ELSE "install")
  /\ UNCHANGED <<world, clk, fastClock, stub, room, want, got, result, calls>>

\* installStub(): the arena gives memory, or not; copying the code to memory
\* nobody else has is part of the step.
InstallStub(c) ==
  /\ pc[c] = "install"
  /\ got' = [got EXCEPT ![c] = room > 0]
  /\ room' = IF room > 0 THEN room - 1 ELSE room
  /\ Goto(c, "keep")
  /\ UNCHANGED <<world, clk, fastClock, stub, want, result, calls>>

\* The assignment, null or not, and the test of what was assigned.
KeepStub(c) ==
  /\ pc[c] = "keep"
  /\ stub' = IF got[c] THEN "set" ELSE "null"
  /\ IF got[c] THEN Goto(c, "read") /\ UNCHANGED result ELSE Return(c, "false")
  /\ UNCHANGED <<world, clk, fastClock, room, want, got, calls>>

\* The read half of SCFG_CLK's read-modify-write, interrupts still on.  Only
\* bit 0 is modelled, and it is replaced whatever was read.
ReadClk(c) ==
  /\ pc[c] = "read"
  /\ Goto(c, "switch")
  /\ UNCHANGED <<world, clk, fastClock, stub, room, want, got, result, calls>>

\* Mutant: the bit is computed and not written back.
ClkKept(c)    == clk
ClkWritten(c) == want[c]

\* itcmStub(clk), interrupts off.
Switch(c) ==
  /\ pc[c] = "switch" /\ stub = "set"
  /\ clk' = ClkWritten(c)
  /\ Goto(c, "reread")
  /\ UNCHANGED <<world, fastClock, stub, room, want, got, result, calls>>

Reread(c) ==
  /\ pc[c] = "reread"
  /\ got' = [got EXCEPT ![c] = clk]
  /\ Goto(c, "store")
  /\ UNCHANGED <<world, clk, fastClock, stub, room, want, result, calls>>

Store(c) ==
  /\ pc[c] = "store"
  /\ fastClock' = got[c]
  /\ Return(c, IF got[c] = want[c] THEN "true" ELSE "false")
  /\ UNCHANGED <<world, clk, stub, room, want, got, calls>>

Step(c) ==
  \/ Guard(c) \/ TestStub(c) \/ InstallStub(c) \/ KeepStub(c)
  \/ ReadClk(c) \/ Switch(c) \/ Reread(c) \/ Store(c)
Next == \E c \in All : Call(c) \/ Step(c)

Spec == Init /\ [][Next]_vars

-----------------------------------------------------------------------------
(***************************************************************************)
(* Properties.                                                             *)
(***************************************************************************)

\* Whoever is about to jump to the stub has one, although another caller may
\* have tried to install its own, failed, and stored the failure: the boot
\* stage's call settles it, one way or the other, before there are callers.
NeverCallsNull == \A c \in All : pc[c] = "switch" => stub = "set"

\* Outside DSi mode and under a loader, no call changes anything.
ClockNotOurs == [][mode # "ours" => UNCHANGED <<clk, fastClock>>]_vars

\* A call that is over and met no other one, the boot stage's included, has had
\* its effect, says so, and isFastClock() says so too, whatever calls have left
\* behind that met before; without a stub it says that it had none, and the clock
\* is as it was found and the answer as the boot stage put it, off.
CallTakesEffect ==
  AtRest /\ ~ overlapped /\ mode = "ours" =>
    IF stub = "set"
      THEN result[last] = "true" /\ clk = want[last] /\ fastClock = clk
      ELSE result[last] = "false" /\ clk = found /\ ~ fastClock

\* isFastClock(): "ARM9 running at 134MHz instead of 67MHz", once no call is
\* under way.
ClockTruthful ==
  AtRest /\ (mode = "ours" => stub = "set") => (fastClock <=> clk)

==============================================================================
