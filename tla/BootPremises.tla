---------------------------- MODULE BootPremises -----------------------------
(***************************************************************************)
(* What BootProtocol takes for granted of the real table and the real      *)
(* checksum, whose definitions are constant: it has to be so whenever a    *)
(* CPU copies, or checks a header.                                         *)
(***************************************************************************)
EXTENDS BootInvariant, BootRanges, HeaderCrc

Copying  == \E c \in CPU : pc[c] = "copy"
Checking == \E c \in CPU : pc[c] = "crc"

\* mirrorBootArea() copies in the order of BootProtocol's numbers, writes no word
\* of the same 4KB that others own, and has written all that NTR code reads when
\* the header is complete.
CopyAsNumbered == Copying => InTheNumberedOrder /\ SparesOthers /\ HeaderClosesCopy

\* headerCrc16() is the sum that a loader's header carries; startedByLoader()
\* takes no two headers for valid that differ in a burst, and no cleared memory
\* for a header.
SumTells == Checking => MatchesPolynomial /\ BurstsFound /\ ZeroesAreNoHeader

==============================================================================
