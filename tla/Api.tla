--------------------------------- MODULE Api ---------------------------------
(***************************************************************************)
(* The public API of dsi/dsi.hpp, as its users may rely on it: what the    *)
(* queries answer is settled when the game comes up and stays until the    *)
(* next reset, the clock alone excepted, and every resource is optional    *)
(* but goes only to a game the DSi launcher started in DSi mode.           *)
(***************************************************************************)
VARIABLES
  mode,      \* how the console was started
  up,        \* the game runs
  answers,   \* what the queries answer, a heap as whether there is one
  fast       \* what isFastClock() answers

vars == <<mode, up, answers, fast>>

Answers == [isConsole : BOOLEAN, isTwlMode : BOOLEAN, isLoaderBoot : BOOLEAN,
            hasExtendedRam : BOOLEAN, extendedHeap : BOOLEAN, lowHeap : BOOLEAN,
            nwramHeap : BOOLEAN]
Silent  == [isConsole |-> FALSE, isTwlMode |-> FALSE, isLoaderBoot |-> FALSE,
            hasExtendedRam |-> FALSE, extendedHeap |-> FALSE, lowHeap |-> FALSE,
            nwramHeap |-> FALSE]

Init ==
  /\ mode \in {"ds", "launcher", "loader"}
  /\ up = FALSE /\ answers = Silent /\ fast = FALSE

\* What the queries may answer a game started in mode m.
Allowed(m) ==
  {a \in Answers :
     /\ a.isTwlMode <=> m # "ds"
     /\ a.isLoaderBoot <=> m = "loader"
     /\ a.isTwlMode => a.isConsole
     /\ a.hasExtendedRam \/ a.nwramHeap => m = "launcher"
     /\ a.extendedHeap \/ a.lowHeap => a.hasExtendedRam}

ComeUp ==
  /\ ~ up /\ up' = TRUE
  /\ answers' \in Allowed(mode)
  /\ fast' \in {FALSE, mode # "ds"}
  /\ UNCHANGED mode

\* setFastClock() where it may: it answers false, and does nothing, elsewhere.
SetFastClock ==
  /\ up /\ mode = "launcher"
  /\ fast' \in BOOLEAN
  /\ UNCHANGED <<mode, up, answers>>

Reset ==
  /\ up /\ up' = FALSE
  /\ answers' = Silent /\ fast' = FALSE
  /\ UNCHANGED mode

Next == ComeUp \/ SetFastClock \/ Reset
Spec == Init /\ [][Next]_vars

==============================================================================
