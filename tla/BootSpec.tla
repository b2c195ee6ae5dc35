------------------------------ MODULE BootSpec ------------------------------
(***************************************************************************)
(* What the core promises the game, with the two CPUs, the boot area's     *)
(* words and the handshake left out: the game comes up only when the boot  *)
(* data is where NTR code reads it, it is told truly how the console was   *)
(* started, and what it stores for its next boot is there on every later   *)
(* boot.                                                                   *)
(***************************************************************************)
CONSTANT GameWords

VARIABLES
  mode,     \* how the console was started
  stage,    \* "booting" or "up"
  data,     \* whether the boot data is in place: "missing" or "ready"
  kept,     \* the game's words that carry state over a soft reset
  answer    \* what isTwlMode() and isLoaderBoot() tell the game

vars == <<mode, stage, data, kept, answer>>

Init ==
  /\ mode \in {"ds", "launcher", "loader"}
  /\ stage = "booting"
  /\ data = IF mode = "launcher" THEN "missing" ELSE "ready"
  /\ kept = {}
  /\ answer = "none"

Provide ==
  /\ stage = "booting" /\ data = "missing"
  /\ data' = "ready"
  /\ UNCHANGED <<mode, stage, kept, answer>>

ComeUp ==
  /\ stage = "booting" /\ data = "ready"
  /\ stage' = "up"
  /\ answer' = mode
  /\ UNCHANGED <<mode, data, kept>>

Store(w) ==
  /\ stage = "up"
  /\ kept' = kept \cup {w}
  /\ UNCHANGED <<mode, stage, data, answer>>

Reset ==
  /\ stage = "up"
  /\ stage' = "booting"
  /\ answer' = "none"
  /\ UNCHANGED <<mode, data, kept>>

Next == Provide \/ ComeUp \/ (\E w \in GameWords : Store(w)) \/ Reset

Spec     == Init /\ [][Next]_vars
FairSpec == Spec /\ WF_vars(Provide \/ ComeUp)

==============================================================================
