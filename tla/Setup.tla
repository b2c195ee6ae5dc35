-------------------------------- MODULE Setup --------------------------------
(***************************************************************************)
(* tools/bootstrap.sh: what it leaves in .deps, step by step, when a step  *)
(* fails or the run is interrupted (set -e ends the script there), when it *)
(* is run again with other arguments, and after the revisions it pins have *)
(* moved on.  tools/ncp.sh runs what it has installed.                     *)
(***************************************************************************)
EXTENDS Naturals

CONSTANTS
  MaxPin,       \* bound on how often the pinned revisions change
  MaxFaults     \* bound on the steps that fail

ASSUME BoundsAssumption == MaxPin \in Nat /\ MaxFaults \in Nat

Repos == {"NCPatcher", "NSMB-Code-Reference", "NSMB-Code-Template", "melonDS"}
None == 0                \* no clone; k + 1 is the k-th revision pinned,
Head == MaxPin + 2       \* and this what a clone is at before the checkout

VARIABLES
  pin,          \* how often the pinned revisions have changed
  rev,          \* what is checked out of each repository
  tool,         \* the revision of the ncpatcher installed
  harness,      \* the revision of melonDS the harness is built with
  headers,      \* nitrosdk/include: "none" there; a copy broken off before nitro.h
                \* ("part") or after it came ("partNitro"); the originals ("raw");
                \* a conversion broken off ("half"); "converted"
  converter,    \* the revision of NSMB-Code-Template that has converted them
  env,          \* .ncpatcher.env: "none", "empty" or "written"
  nitro, withHarness,        \* --nitro and --harness of the run under way
  at,           \* where the script is
  faults,       \* history: failed steps,
  brokenOff,    \* whether one left nitro.h there and the headers not converted,
  copiedBy      \* and what the script pinned when it last copied headers

deps == <<rev, tool, harness, headers, converter, env>>
args == <<nitro, withHarness>>
past == <<faults, brokenOff, copiedBy>>
scriptVars == <<pin, deps, args, at, past>>

Pinned == pin + 1
Idle   == at \in {"idle", "done", "failed"}

ScriptInit ==
  /\ pin = 0 /\ rev = [r \in Repos |-> None] /\ tool = None /\ harness = None
  /\ headers = "none" /\ converter = None /\ env = "none"
  /\ nitro = FALSE /\ withHarness = FALSE
  /\ at = "idle" /\ faults = 0 /\ brokenOff = FALSE /\ copiedBy = None

\* Somebody runs the script; somebody pulls a newer one.
Start ==
  /\ Idle
  /\ nitro' \in BOOLEAN /\ withHarness' \in BOOLEAN
  /\ at' = "NCPatcher"
  /\ UNCHANGED <<pin, deps, past>>

MovePins ==
  /\ Idle /\ pin < MaxPin
  /\ pin' = pin + 1 /\ at' = "idle"
  /\ UNCHANGED <<deps, args, past>>

(***************************************************************************)
(* checkout(): clone if there is no clone yet, fetch, check out.  git takes *)
(* back a clone that fails; broken off after it, the clone stays at Head.  *)
(***************************************************************************)
\* Mutants: what is cloned is taken to be right; it is cloned every time, which
\* git refuses where something is already.
CheckedOutOnce(r) == IF rev[r] \in {None, Head} THEN Pinned ELSE rev[r]
CheckedOut(r)     == Pinned
ClonesAlways(r)   == r \in Repos
Clones(r)         == rev[r] = None

GitTakes(r) == Clones(r) => rev[r] = None

Checkout(r, next) ==
  /\ at = r
  /\ rev' = IF GitTakes(r) THEN [rev EXCEPT ![r] = CheckedOut(r)] ELSE rev
  /\ at' = IF GitTakes(r) THEN next ELSE "failed"
  /\ UNCHANGED <<pin, tool, harness, headers, converter, env, args, past>>

BuildNcp ==
  /\ at = "buildNcp"
  /\ tool' = rev["NCPatcher"] /\ at' = "NSMB-Code-Reference"
  /\ UNCHANGED <<pin, rev, harness, headers, converter, env, args, past>>

\* [[ -f nitrosdk/include/nitro.h ]].  Mutant: the directory is enough.
HasDirectory == headers # "none"
HasNitro     == headers \notin {"none", "part"}

AfterHeaders == IF withHarness THEN "melonDS" ELSE "env"
LookForHeaders ==
  /\ at = "headers"
  /\ at' = CASE HasNitro -> AfterHeaders
             [] ~ HasNitro /\ nitro -> "NSMB-Code-Template"
             [] ~ HasNitro /\ ~ nitro -> "failed"
  /\ UNCHANGED <<pin, deps, args, past>>

\* Mutant: the conversion is forgotten.
AfterCopySkips == AfterHeaders
AfterCopy      == "convert"

CopyHeaders ==
  /\ at = "copy"
  /\ headers' = "raw" /\ at' = AfterCopy
  /\ copiedBy' = Pinned
  /\ UNCHANGED <<pin, rev, tool, harness, converter, env, args, faults, brokenOff>>

ConvertHeaders ==
  /\ at = "convert"
  /\ headers' = "converted" /\ converter' = rev["NSMB-Code-Template"]
  /\ at' = AfterHeaders
  /\ UNCHANGED <<pin, rev, tool, harness, env, args, past>>

BuildHarness ==
  /\ at = "buildHarness"
  /\ harness' = rev["melonDS"] /\ at' = "env"
  /\ UNCHANGED <<pin, rev, tool, headers, converter, env, args, past>>

WriteEnv ==
  /\ at = "env"
  /\ env' = "written" /\ at' = "done"
  /\ UNCHANGED <<pin, rev, tool, harness, headers, converter, args, past>>

\* [[ -x ncpatcher ]] of tools/ncp.sh.
NcpRuns == tool # None

ScriptStep ==
  \/ Checkout("NCPatcher", "buildNcp") \/ BuildNcp
  \/ Checkout("NSMB-Code-Reference", "headers") \/ LookForHeaders
  \/ Checkout("NSMB-Code-Template", "copy") \/ CopyHeaders \/ ConvertHeaders
  \/ Checkout("melonDS", "buildHarness") \/ BuildHarness \/ WriteEnv

\* A step fails, or somebody stops the script in it, with the step done in part.
\* cp goes through the directory in an order of its own.
Fail ==
  /\ ~ Idle /\ at # "headers" /\ faults < MaxFaults
  /\ at' = "failed" /\ faults' = faults + 1
  /\ headers' \in CASE at = "copy" -> {headers, "part", "partNitro", "raw"}
                    [] at = "convert" -> {"raw", "half"}
                    [] OTHER -> {headers}
  /\ brokenOff' = (brokenOff \/ (at \in {"copy", "convert"} /\ HasNitro'))
  /\ env' \in IF at = "env" THEN {env, "empty"} ELSE {env}
  /\ rev' \in {rev} \cup {[rev EXCEPT ![r] = Head] : r \in {r \in Repos : at = r /\ Clones(r)}}
  /\ UNCHANGED <<pin, tool, harness, converter, args, copiedBy>>

ScriptNext == Start \/ MovePins \/ ScriptStep \/ Fail
ScriptSpec == ScriptInit /\ [][ScriptNext]_scriptVars
\* The script goes on from a step to the next.
ScriptFairSpec == ScriptSpec /\ WF_scriptVars(ScriptStep)

-----------------------------------------------------------------------------
(***************************************************************************)
(* Properties.                                                             *)
(***************************************************************************)

\* "Done" means that the ncpatcher installed, the reference and, if asked for, the
\* harness are what this version of the script pins, whatever earlier runs, of
\* earlier versions, have left.  The headers have been converted by the converter
\* that the version pinned which copied them - this one's, unless the pins have
\* moved since: nitro.h there, nothing is converted again.  But once a run broke
\* off behind nitro.h and short of the conversion's end, they may be anything.
DoneMeansReady ==
  at = "done" =>
    /\ tool = Pinned /\ rev["NSMB-Code-Reference"] = Pinned
    /\ withHarness => harness = Pinned
    /\ ~ brokenOff => headers = "converted" /\ converter = copiedBy

\* Once .ncpatcher.env names the two directories and ncp.sh can be run, they are
\* there, nitro.h included, whatever a later run breaks off.
EnvNamesWhatIsThere ==
  env = "written" =>
    /\ NcpRuns /\ rev["NSMB-Code-Reference"] # None
    /\ headers \notin {"none", "part"}

\* A run with --nitro in which nothing fails ends with "Done", whatever the runs
\* before it have left behind.
RerunSucceeds ==
  (at = "NCPatcher" /\ nitro /\ faults = MaxFaults) ~> (at = "done")

==============================================================================
