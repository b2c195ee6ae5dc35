------------------------------- MODULE MCLog --------------------------------
(***************************************************************************)
(* What OS_VSNPrintf returns for TLC: an error, an empty line, one that    *)
(* fits with nothing to spare, and the first ones that do not.             *)
(***************************************************************************)
EXTENDS Log

LineLengths == {-1, 0, Size - 3, Size - 2, Size - 1, Size}

==============================================================================
