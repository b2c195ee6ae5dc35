---------------------------- MODULE ToolsProofs -----------------------------
(***************************************************************************)
(* Theorems about two of the tools.                                        *)
(*                                                                         *)
(* The harness's semaphore, for any set of threads and posts of any size:  *)
(* no count is lost, and nobody sleeps through one.  A wait that has found *)
(* a count relies on the mutex to keep it until it is taken (Mutex,        *)
(* FoundIsThere); a thread only falls asleep on an empty semaphore, and    *)
(* whoever fills it wakes all.                                             *)
(*                                                                         *)
(* The set-up script, for any number of failures, interruptions and        *)
(* changes of the pinned revisions: what it has passed it has brought to   *)
(* the revision pinned, and it only touches headers that no .ncpatcher.env *)
(* names yet.                                                              *)
(***************************************************************************)
EXTENDS Semaphore, Setup, TLAPS

-----------------------------------------------------------------------------
Types ==
  /\ count \in Nat /\ posted \in Nat /\ taken \in Nat /\ dropped \in Nat
  /\ holder \in Threads \cup {NoThread}
  /\ pc \in [Threads -> Labels] /\ op \in [Threads -> Ops]
  /\ amount \in [Threads -> Nat] /\ expired \in [Threads -> BOOLEAN]

Mutex == \A t \in Threads : pc[t] \in {"held", "take"} <=> holder = t

FoundIsThere == \A t \in Threads : pc[t] = "take" => count > 0

Inv == Types /\ Mutex /\ FoundIsThere /\ NothingLost /\ NoLostWakeup

\* Nothing is posted and nobody is inside.
LEMMA InitInv == Init => Inv
  BY SemaphoreAssumption
  DEF Init, Inv, Types, Mutex, FoundIsThere, NothingLost, NoLostWakeup, Labels, Ops

\* Every step keeps the invariant.
LEMMA NextInv == Inv /\ [Next]_vars => Inv'
<1> SUFFICES ASSUME Inv, [Next]_vars PROVE Inv' OBVIOUS
<1> USE SemaphoreAssumption
<1> USE DEF Inv
<1>1. ASSUME NEW t \in Threads, NEW o \in Ops, NEW n \in Nat, Enter(t, o, n)
      PROVE  Inv'
  <2>1. Types' BY <1>1 DEF Enter, Goto, history, Types, Labels
  <2>2. Mutex' BY <1>1 DEF Enter, Goto, Types, Mutex
  <2>3. FoundIsThere' BY <1>1 DEF Enter, Goto, Types, FoundIsThere
  <2>4. NothingLost' BY <1>1 DEF Enter, history, NothingLost
  <2>5. NoLostWakeup' BY <1>1 DEF Enter, Goto, Types, NoLostWakeup
  <2> QED BY <2>1, <2>2, <2>3, <2>4, <2>5
<1>2. ASSUME NEW t \in Threads, Call(t) PROVE Inv'
  <2>1. CASE \E o \in {"wait", "trywait", "reset"} : Enter(t, o, 0)
    BY <1>1, <2>1 DEF Ops
  <2>2. CASE \E n \in 1 .. MaxPost :
               posted + n <= MaxPosted /\ Enter(t, "post", n)
    <3>1. PICK n \in 1 .. MaxPost : Enter(t, "post", n) BY <2>2
    <3>2. n \in Nat /\ "post" \in Ops BY DEF Ops
    <3> QED BY <1>1, <3>1, <3>2
  <2> QED BY <1>2, <2>1, <2>2 DEF Call
<1>3. ASSUME NEW t \in Threads, Lock(t) PROVE Inv'
  <2>1. Types' BY <1>3 DEF Lock, Goto, history, Types, Labels
  <2>2. Mutex' BY <1>3 DEF Lock, Locks, Goto, Types, Mutex
  <2>3. FoundIsThere' BY <1>3 DEF Lock, Goto, Types, FoundIsThere
  <2>4. NothingLost' BY <1>3 DEF Lock, history, NothingLost
  <2>5. NoLostWakeup' BY <1>3 DEF Lock, Goto, Types, NoLostWakeup
  <2> QED BY <2>1, <2>2, <2>3, <2>4, <2>5
<1>4. ASSUME NEW t \in Threads, Find(t) PROVE Inv'
  <2>1. Types' BY <1>4 DEF Find, Goto, history, Types, Labels
  <2>2. Mutex' BY <1>4 DEF Find, Waits, Goto, Types, Mutex
  <2>3. FoundIsThere' BY <1>4 DEF Find, Goto, Types, FoundIsThere
  <2>4. NothingLost' BY <1>4 DEF Find, history, NothingLost
  <2>5. NoLostWakeup' BY <1>4 DEF Find, Waits, Goto, Types, NoLostWakeup
  <2> QED BY <2>1, <2>2, <2>3, <2>4, <2>5
<1>5. ASSUME NEW t \in Threads, Take(t) PROVE Inv'
  <2>1. count \in Nat /\ count > 0 /\ holder = t
    BY <1>5 DEF Take, Types, Mutex, FoundIsThere
  <2>2. Types' BY <1>5, <2>1 DEF Take, Goto, Types, Labels
  <2>3. Mutex' BY <1>5, <2>1 DEF Take, Goto, Types, Mutex
  <2>4. FoundIsThere'
    BY <1>5, <2>1 DEF Take, Goto, Types, Mutex, FoundIsThere
  <2>5. NothingLost' BY <1>5, <2>1 DEF Take, Types, NothingLost
  <2>6. NoLostWakeup' BY <1>5, <2>1 DEF Take, Goto, Types, NoLostWakeup
  <2> QED BY <2>2, <2>3, <2>4, <2>5, <2>6
<1>6. ASSUME NEW t \in Threads, Sleep(t) PROVE Inv'
  <2>1. holder = t BY <1>6 DEF Sleep, Waits, Mutex
  <2>2. Types' BY <1>6 DEF Sleep, Goto, history, Types, Labels
  <2>3. Mutex' BY <1>6, <2>1 DEF Sleep, Goto, Types, Mutex
  <2>4. FoundIsThere' BY <1>6 DEF Sleep, Goto, Types, FoundIsThere
  <2>5. NothingLost' BY <1>6 DEF Sleep, history, NothingLost
  <2>6. NoLostWakeup' BY <1>6 DEF Sleep, NoLostWakeup
  <2> QED BY <2>2, <2>3, <2>4, <2>5, <2>6
<1>7. ASSUME NEW t \in Threads, GiveUp(t) PROVE Inv'
  <2>1. holder = t BY <1>7 DEF GiveUp, Waits, Mutex
  <2>2. Types' BY <1>7 DEF GiveUp, Goto, history, Types, Labels
  <2>3. Mutex' BY <1>7, <2>1 DEF GiveUp, Goto, Types, Mutex
  <2>4. FoundIsThere' BY <1>7 DEF GiveUp, Goto, Types, FoundIsThere
  <2>5. NothingLost' BY <1>7 DEF GiveUp, history, NothingLost
  <2>6. NoLostWakeup' BY <1>7 DEF GiveUp, NoLostWakeup
  <2> QED BY <2>2, <2>3, <2>4, <2>5, <2>6
<1>8. ASSUME NEW t \in Threads, Spurious(t) \/ Expire(t) PROVE Inv'
  <2>1. Types' BY <1>8 DEF Spurious, Expire, Goto, history, Types, Labels
  <2>2. Mutex' BY <1>8 DEF Spurious, Expire, Goto, Types, Mutex
  <2>3. FoundIsThere' BY <1>8 DEF Spurious, Expire, Goto, Types, FoundIsThere
  <2>4. NothingLost' BY <1>8 DEF Spurious, Expire, history, NothingLost
  <2>5. NoLostWakeup' BY <1>8 DEF Spurious, Expire, Goto, Types, NoLostWakeup
  <2> QED BY <2>1, <2>2, <2>3, <2>4, <2>5
<1>9. ASSUME NEW t \in Threads, Add(t) PROVE Inv'
  <2>1. holder = t /\ amount[t] \in Nat BY <1>9 DEF Add, Types, Mutex
  <2>2. Types' BY <1>9, <2>1 DEF Add, Goto, Types, Labels
  <2>3. Mutex' BY <1>9, <2>1 DEF Add, Goto, Types, Mutex
  <2>4. FoundIsThere' BY <1>9, <2>1 DEF Add, Goto, Types, FoundIsThere
  <2>5. NothingLost' BY <1>9, <2>1 DEF Add, Types, NothingLost
  <2>6. NoLostWakeup' BY <1>9 DEF Add, Goto, Types, NoLostWakeup
  <2> QED BY <2>2, <2>3, <2>4, <2>5, <2>6
<1>10. ASSUME NEW t \in Threads, NotifyAll(t) PROVE Inv'
  <2>1. \A u \in Threads : pc'[u] # "asleep"
    BY <1>10 DEF NotifyAll, Woken
  <2>2. Types' BY <1>10 DEF NotifyAll, history, Types, Labels
  <2>3. Mutex' BY <1>10 DEF NotifyAll, Woken, Types, Mutex
  <2>4. FoundIsThere' BY <1>10 DEF NotifyAll, Types, FoundIsThere
  <2>5. NothingLost' BY <1>10 DEF NotifyAll, history, NothingLost
  <2>6. NoLostWakeup' BY <2>1 DEF NoLostWakeup
  <2> QED BY <2>2, <2>3, <2>4, <2>5, <2>6
<1>11. ASSUME NEW t \in Threads, Reset(t) PROVE Inv'
  <2>1. holder = t BY <1>11 DEF Reset, Mutex
  <2>2. Types' BY <1>11 DEF Reset, Goto, Types, Labels
  <2>3. Mutex' BY <1>11, <2>1 DEF Reset, Goto, Types, Mutex
  <2>4. FoundIsThere'
    BY <1>11, <2>1 DEF Reset, Goto, Types, Mutex, FoundIsThere
  <2>5. NothingLost' BY <1>11 DEF Reset, Types, NothingLost
  <2>6. NoLostWakeup' BY <1>11 DEF Reset, NoLostWakeup
  <2> QED BY <2>2, <2>3, <2>4, <2>5, <2>6
<1>12. CASE UNCHANGED vars
  BY <1>12 DEF vars, history, Types, Mutex, FoundIsThere, NothingLost, NoLostWakeup
<1> QED
  BY <1>2, <1>3, <1>4, <1>5, <1>6, <1>7, <1>8, <1>9, <1>10, <1>11, <1>12
  DEF Next, Proceed

\* The invariant holds throughout.
LEMMA SemaphoreInvariance == Spec => []Inv
<1>1. Init => Inv BY InitInv
<1>2. Inv /\ [Next]_vars => Inv' BY NextInv
<1> QED BY <1>1, <1>2, PTL DEF Spec

\* Semaphore_Post's counts go to waits, stay, or are reset away.
THEOREM SemaphoreNothingLost == Spec => []NothingLost
<1>1. Inv => NothingLost BY DEF Inv
<1> QED BY <1>1, SemaphoreInvariance, PTL

\* Semaphore_Wait does not sleep on a count nobody will wake it for.
THEOREM SemaphoreNoLostWakeup == Spec => []NoLostWakeup
<1>1. Inv => NoLostWakeup BY DEF Inv
<1> QED BY <1>1, SemaphoreInvariance, PTL

-----------------------------------------------------------------------------
(***************************************************************************)
(* tools/bootstrap.sh.                                                     *)
(***************************************************************************)
\* Where the script is once it has built the harness, if asked to; has looked
\* for the headers; has the reference checked out; has built NCPatcher.
PastHarness   == {"env", "done"}
PastHeaders   == PastHarness \cup {"melonDS", "buildHarness"}
PastReference == PastHeaders \cup {"headers", "NSMB-Code-Template", "copy", "convert"}
PastBuild     == PastReference \cup {"NSMB-Code-Reference"}

ScriptTypes ==
  /\ pin \in Nat /\ tool \in Nat /\ harness \in Nat
  /\ rev \in [Repos -> Nat]
  /\ converter \in Nat /\ copiedBy \in Nat
  /\ nitro \in BOOLEAN /\ withHarness \in BOOLEAN /\ brokenOff \in BOOLEAN
  /\ faults \in Nat
  /\ headers \in {"none", "part", "partNitro", "raw", "half", "converted"}
  /\ env \in {"none", "empty", "written"}
  /\ at \in PastBuild \cup {"idle", "failed", "NCPatcher", "buildNcp"}

\* What is behind the script is at the revision pinned now: no pin moves while
\* it runs.
StepsDone ==
  /\ at = "buildNcp" => rev["NCPatcher"] = Pinned
  /\ at \in PastBuild => tool = Pinned
  /\ at \in PastReference => rev["NSMB-Code-Reference"] = Pinned
  /\ at = "buildHarness" => rev["melonDS"] = Pinned
  /\ at \in PastHarness /\ withHarness => harness = Pinned

\* The headers are copied over nothing that has nitro.h, with the converter of
\* this version checked out; nitro.h there, they have been through it as long as
\* no run was broken off on the way.
HeadersFit ==
  /\ at \in {"NSMB-Code-Template", "copy"} => ~ HasNitro
  /\ at \in {"copy", "convert"} => rev["NSMB-Code-Template"] = Pinned
  /\ at = "convert" => headers = "raw" /\ copiedBy = Pinned
  /\ at \in PastHeaders => HasNitro
  /\ ~ brokenOff /\ at # "convert" /\ HasNitro =>
       headers = "converted" /\ converter = copiedBy

ScriptInv == ScriptTypes /\ StepsDone /\ HeadersFit /\ EnvNamesWhatIsThere

USE DEF PastHarness, PastHeaders, PastReference, PastBuild

\* An empty .deps.
LEMMA ScriptInitInv ==
  ASSUME ScriptInit PROVE ScriptInv
<1> USE BoundsAssumption DEF ScriptInit, None
<1>1. ScriptTypes BY DEF ScriptTypes
<1>2. StepsDone BY DEF StepsDone
<1>3. HeadersFit BY DEF HeadersFit, HasNitro
<1>4. EnvNamesWhatIsThere BY DEF EnvNamesWhatIsThere
<1> QED BY <1>1, <1>2, <1>3, <1>4 DEF ScriptInv

\* Every step of the script, its failures and the moves of the pins keep it.
LEMMA ScriptNextInv ==
  ASSUME ScriptInv, [ScriptNext]_scriptVars
  PROVE  ScriptInv'
<1> USE BoundsAssumption DEF ScriptInv, ScriptTypes, Pinned, None,
            Head, Repos, HasNitro, NcpRuns, deps,
            args, past
<1>1. CASE Start
  BY <1>1 DEF Start, Idle, StepsDone, HeadersFit, EnvNamesWhatIsThere
<1>2. CASE MovePins
  BY <1>2 DEF MovePins, Idle, StepsDone, HeadersFit,
              EnvNamesWhatIsThere
<1>3. CASE Checkout("NCPatcher", "buildNcp")
  BY <1>3 DEF Checkout, CheckedOut, GitTakes, Clones,
              StepsDone, HeadersFit, EnvNamesWhatIsThere
<1>4. CASE BuildNcp
  BY <1>4 DEF BuildNcp, StepsDone, HeadersFit, EnvNamesWhatIsThere
<1>5. CASE Checkout("NSMB-Code-Reference", "headers")
  BY <1>5 DEF Checkout, CheckedOut, GitTakes, Clones,
              StepsDone, HeadersFit, EnvNamesWhatIsThere
<1>6. CASE LookForHeaders
  BY <1>6 DEF LookForHeaders, AfterHeaders, StepsDone, HeadersFit,
              EnvNamesWhatIsThere
<1>7. CASE Checkout("NSMB-Code-Template", "copy")
  BY <1>7 DEF Checkout, CheckedOut, GitTakes, Clones,
              StepsDone, HeadersFit, EnvNamesWhatIsThere
<1>8. CASE CopyHeaders
  BY <1>8 DEF CopyHeaders, AfterCopy, StepsDone, HeadersFit,
              EnvNamesWhatIsThere
<1>9. CASE ConvertHeaders
  BY <1>9 DEF ConvertHeaders, AfterHeaders, StepsDone, HeadersFit,
              EnvNamesWhatIsThere
<1>10. CASE Checkout("melonDS", "buildHarness")
  BY <1>10 DEF Checkout, CheckedOut, GitTakes, Clones,
               StepsDone, HeadersFit, EnvNamesWhatIsThere
<1>11. CASE BuildHarness
  BY <1>11 DEF BuildHarness, StepsDone, HeadersFit, EnvNamesWhatIsThere
<1>12. CASE WriteEnv
  BY <1>12 DEF WriteEnv, StepsDone, HeadersFit, EnvNamesWhatIsThere
<1>13. CASE Fail
  <2>1. /\ at' = "failed" /\ UNCHANGED <<pin, tool, harness, nitro, withHarness>>
        /\ faults' \in Nat /\ brokenOff' \in BOOLEAN
    BY <1>13 DEF Fail
  <2>2. /\ rev' \in [Repos -> Nat]
        /\ \A r \in Repos : rev[r] # 0 => rev'[r] # 0
    BY <1>13 DEF Fail, Clones
  <2>3. /\ headers' \in {"none", "part", "partNitro", "raw", "half", "converted"}
        /\ at \notin {"copy", "convert"} => headers' = headers
        /\ at = "convert" => headers' \in {"raw", "half"}
    BY <1>13 DEF Fail
  <2>4. /\ UNCHANGED <<converter, copiedBy>>
        /\ brokenOff' = (brokenOff \/ (at \in {"copy", "convert"} /\ HasNitro'))
        /\ env' \in {env, "empty"}
    BY <1>13 DEF Fail
  <2>5. ScriptTypes' BY <2>1, <2>2, <2>3, <2>4
  <2>6. StepsDone' BY <2>1 DEF StepsDone
  <2>7. HeadersFit' BY <2>1, <2>3, <2>4 DEF HeadersFit
  <2>8. EnvNamesWhatIsThere'
    BY <2>1, <2>2, <2>3, <2>4 DEF HeadersFit, EnvNamesWhatIsThere
  <2> QED BY <2>5, <2>6, <2>7, <2>8
<1>14. CASE UNCHANGED scriptVars
  BY <1>14 DEF scriptVars, StepsDone, HeadersFit, EnvNamesWhatIsThere
<1> QED
  BY <1>1, <1>2, <1>3, <1>4, <1>5, <1>6, <1>7, <1>8, <1>9, <1>10, <1>11, <1>12, <1>13,
     <1>14
  DEF ScriptNext, ScriptStep

\* It holds throughout.
LEMMA ScriptInvariance == ScriptSpec => []ScriptInv
<1>1. ScriptInit => ScriptInv BY ScriptInitInv
<1>2. ScriptInv /\ [ScriptNext]_scriptVars => ScriptInv' BY ScriptNextInv
<1> QED BY <1>1, <1>2, PTL DEF ScriptSpec

\* When bootstrap.sh says "Done", what this version of it pins is checked out and
\* built, whatever earlier runs and earlier versions left, and the headers are
\* converted unless a run was broken off while it copied or converted them.
THEOREM DoneMeansReadyHolds == ScriptSpec => []DoneMeansReady
<1>1. ScriptInv => DoneMeansReady
  BY DEF ScriptInv, StepsDone, HeadersFit, DoneMeansReady, HasNitro
<1> QED BY <1>1, ScriptInvariance, PTL

\* A written .ncpatcher.env names directories that are there, nitro.h included.
THEOREM EnvNamesWhatIsThereHolds == ScriptSpec => []EnvNamesWhatIsThere
<1>1. ScriptInv => EnvNamesWhatIsThere
  BY DEF ScriptInv
<1> QED BY <1>1, ScriptInvariance, PTL

==============================================================================
