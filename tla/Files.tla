-------------------------------- MODULE Files --------------------------------
(***************************************************************************)
(* Platform::OpenFile of tools/harness/platform.cpp: the emulator's file   *)
(* modes, sets of flags, turned into those of C.  Of a file it says only   *)
(* whether it is there and whether what was in it is kept.                 *)
(***************************************************************************)
EXTENDS Naturals

Flag == {"Read", "Write", "Preserve", "NoCreate", "Append"}
Mode == SUBSET Flag

\* Opening fails, or gives a file that can be read, written, and keeps or not
\* what was in it.
Null == [open |-> FALSE, read |-> FALSE, write |-> FALSE, kept |-> FALSE]

\* C's fopen: "r" wants the file, "w" empties it, "a" writes behind it; "+" both
\* reads and writes.
fopen(m, exists) ==
  IF m[1] = "r" /\ ~ exists THEN Null
  ELSE [open |-> TRUE, read |-> m[1] = "r" \/ m[2] = "+",
        write |-> m[1] # "r" \/ m[2] = "+", kept |-> exists /\ m[1] # "w"]

\* Mutant: Preserve wants the file to be there.
EffectiveAsGiven(mode, exists) == mode
Effective(mode, exists) ==
  IF "NoCreate" \notin mode /\ ~ exists THEN mode \ {"Preserve"} ELSE mode

\* The letter and the plus of the C mode.
CMode(mode) ==
  CASE "Append" \in mode -> <<"a", IF "Read" \in mode THEN "+" ELSE "">>
    [] "Append" \notin mode /\ "Write" \in mode ->
         IF "Preserve" \in mode THEN <<"r", "+">>
         ELSE <<"w", IF "Read" \in mode THEN "+" ELSE "">>
    [] "Append" \notin mode /\ "Write" \notin mode -> <<"r", "">>

OpenFile(mode, exists) ==
  IF \/ mode \cap {"Read", "Write"} = {}
     \/ "NoCreate" \in mode /\ ~ exists
  THEN Null ELSE fopen(CMode(Effective(mode, exists)), exists)

\* What the flags say by their names: a missing file is made by every mode that
\* writes unless it is forbidden, what is in a file is lost to Write alone, and
\* what was asked for can be done.
AsAsked ==
  \A mode \in {m \in Mode : m \cap {"Read", "Write"} # {}}, exists \in BOOLEAN :
    LET f == OpenFile(mode, exists) IN
      /\ f.open <=> exists \/ (mode \cap {"Write", "Append"} # {} /\ "NoCreate" \notin mode)
      /\ f.open /\ exists =>
           (f.kept <=> "Write" \notin mode \/ mode \cap {"Preserve", "Append"} # {})
      /\ f.open => ("Read" \in mode => f.read) /\ ("Write" \in mode => f.write)

==============================================================================
