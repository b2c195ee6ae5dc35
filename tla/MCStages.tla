------------------------------ MODULE MCStages ------------------------------
(***************************************************************************)
(* Stages for TLC: arenas that start on and off a 32-byte boundary, end on *)
(* and off one, one that is too small for a heap; MBK9 open, closed and    *)
(* closed in part.                                                         *)
(***************************************************************************)
EXTENDS Checks

MCArenas == {[lo |-> \h02190000, hi |-> \h023E0000],
             [lo |-> \h0219A004, hi |-> \h023DFFF4],
             [lo |-> \h023DF004, hi |-> \h023DF010]}
MCLoaderArenas == {[lo |-> \h02190010, hi |-> \h027C0000]}
MCProtections == {{}, {1, 2, 3, 4, 5}, {3}}
MCMbkFound    == {{}, {1, 2}, {1, 2, 3, 4, 5}}

\* All DSi resources; access and 16MB only.
MCExt9Kept == {{31, 25, 24, 18, 17, 16, 15, 14}, {31, 15}}

==============================================================================
