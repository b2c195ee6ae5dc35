----------------------------- MODULE MCHarness ------------------------------
(***************************************************************************)
(* Scripts for TLC: presses that begin, end and overlap within the frames, *)
(* a touch that another one replaces, an ordinary screenshot, one of the   *)
(* background in the same frame, memory saved, and a screenshot that is    *)
(* never due.                                                              *)
(***************************************************************************)
EXTENDS Harness

FirstPresses == {[frame |-> 1, hold |-> 2, key |-> "a"],
                 [frame |-> 2, hold |-> 5, key |-> "b"],
                 [frame |-> 0, hold |-> 2, key |-> "start"]}
FirstTouches == << [frame |-> 1, hold |-> 3, point |-> "left"],
                   [frame |-> 2, hold |-> 1, point |-> "right"] >>
FirstOutputs == {[frame |-> 2, kind |-> "shot"],
                 [frame |-> 2, kind |-> "background"],
                 [frame |-> 2, kind |-> "memory"],
                 [frame |-> Frames, kind |-> "shot"],
                 [frame |-> Frames + 1, kind |-> "shot"]}

ScriptPresses == [c \in Consoles |-> IF c = FIRST THEN FirstPresses ELSE {}]
ScriptTouches == [c \in Consoles |-> IF c = FIRST THEN FirstTouches ELSE << >>]
ScriptOutputs == [c \in Consoles |-> IF c = FIRST THEN FirstOutputs
                    ELSE {[frame |-> 2, kind |-> "shot"]}]

==============================================================================
