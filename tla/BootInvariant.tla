---------------------------- MODULE BootInvariant ----------------------------
(***************************************************************************)
(* Why the boot protocol is safe without a lock: an inductive invariant of *)
(* BootProtocol, in named parts.                                           *)
(***************************************************************************)
EXTENDS BootProtocol

\* The registers tell how the console was started, before and after the hooks
\* clear bits in them.
RegistersTell ==
  /\ Detects9(a9rom, ext[9]) <=> launch # "ds"
  /\ Detects7(ext[7]) <=> launch # "ds"
  /\ launch # "ds" => snd

\* Each CPU's labels and local answers fit the launch.
AnswersFit ==
  \A c \in CPU :
    /\ pc[c] # "hook" => (twl[c] <=> launch # "ds")
    /\ pc[c] \in {"crcField", "unit", "crc"} => launch # "ds"
    /\ pc[c] \in {"switchOff", "compare", "copy"} => launch = "launcher"
    /\ loader[c] => launch = "loader"
    /\ launch = "loader" /\ pc[c] \notin InStartedByLoader => loader[c]

\* The labels belong to their CPU, and the ARM9 is behind the handshake.
LabelsFit ==
  /\ pc[9] \notin {"pubValue", "pubFlags", "pubMagic"}
  /\ pc[7] # "afterOsInit"
  /\ pc[9] \in {"afterOsInit", "game"} => pc[7] = "game"

\* Where the words of the NTR area can come from.
OriginsFit ==
  /\ \A w \in Words : ntr[w] = "game" => w \in GameWords
  /\ \A w \in Words : ntr[w] \in
       IF launch = "launcher" THEN {"twl", "junk", "game"} ELSE {"ntr", "game"}

\* The header goes last and its CRC word last of it: with that word in place
\* everything before it is.
CrcWordLast ==
  ntr[N] = "twl" => \A w \in 1 .. N : ntr[w] \in {"twl", "game"}

\* What a CPU has compared or copied so far.
ProgressFits ==
  \A c \in CPU :
    /\ pc[c] = "compare" => /\ idx[c] \in Header
                            /\ \A w \in H .. idx[c] - 1 : ntr[w] = "twl"
    /\ pc[c] = "copy" => /\ idx[c] \in Words
                         /\ \A w \in 1 .. idx[c] - 1 : ntr[w] = "twl"

\* Nobody leaves the hook before the header is there, and once it is, the card
\* ID is there or somebody is about to write it.
HeaderBeforeExit ==
  launch = "launcher" =>
    /\ \A c \in CPU : Past(c) => ntr[N] = "twl"
    /\ ntr[N] = "twl" => ntr[CardWord] = "twl" \/ \E c \in CPU : pc[c] = "copy"

\* With a word of the game in the area, no CPU copies or will copy.
NoLateCopy ==
  launch = "launcher" /\ (\E w \in Words : ntr[w] = "game") =>
    ntr[N] = "twl" /\ \A c \in CPU : pc[c] # "copy"

\* Half a copy never passes for a loader's header: a CRC check that starts on
\* leftovers keeps a leftover byte in its sum, and one that could start on the
\* new CRC field is not started, the unit code being new already.
CrcCheckFits ==
  \A c \in CPU :
    /\ pc[c] = "hook" => idx[c] = 0 /\ seen[c] = {}
    /\ pc[c] = "crcField" => idx[c] \in {0, 1} /\ (idx[c] = 0 => seen[c] = {})
    /\ pc[c] = "crc" => idx[c] \in Header
    /\ pc[c] \in {"unit", "crc"} \/ (pc[c] = "crcField" /\ idx[c] = 1) =>
         /\ launch = "loader" => seen[c] = {"ntr"}
         /\ launch = "launcher" =>
              "junk" \in seen[c] \/ (pc[c] # "crc" /\ ntr[N] = "twl")

\* The shared block as far as the ARM7 has filled it in.
BlockFits ==
  /\ pc[7] \in {"pubFlags", "pubMagic", "osInit", "game"} => blk.value = "ext7"
  /\ pc[7] \in {"pubMagic", "osInit", "game"} => blk.flags = FlagsFound
  /\ pc[7] \in {"osInit", "game"} => blk.magic
  /\ pc[9] = "game" => (console <=> snd)

\* Region 1 from the ARM9's hook to its OS_Init, and what is put back after.
RegionFits ==
  launch # "ds" /\ pc[9] # "hook" =>
    /\ Covers(keep1, REGION1_16MB)
    /\ pc[9] # "afterOsInit" => region1 = keep1

BootInv ==
  /\ TypeOK
  /\ RegistersTell /\ AnswersFit /\ LabelsFit /\ OriginsFit
  /\ CrcWordLast /\ ProgressFits /\ HeaderBeforeExit /\ NoLateCopy
  /\ CrcCheckFits /\ BlockFits /\ RegionFits

==============================================================================
