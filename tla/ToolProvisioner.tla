-------------------------- MODULE ToolProvisioner --------------------------
(***************************************************************************)
(* The command line tools the application downloads (tool_provisioner.rs,  *)
(* tool_installer.rs; install_tool and launch_tool in commands.rs): one    *)
(* tool, its version directories, the pointer to the active version and    *)
(* the provenance record, changed by one installation at a time and read   *)
(* by launches that take no lock.  The application may die at any step.    *)
(* Releases are numbered; the publisher only adds to them.                 *)
(***************************************************************************)
EXTENDS Naturals, FiniteSets, FiniteSetsExt

CONSTANTS Releases,  \* the publisher's releases are 1..Releases
          Broken,    \* those that fail their smoke test
          Launch,    \* launches in a terminal
          MaxToolMishaps \* bound on failing file operations and foreign writes

ASSUME ProvisionerAssumption ==
    /\ Releases \in Nat \ {0}
    /\ Broken \subseteq 1..Releases
    /\ MaxToolMishaps \in Nat

VARIABLES official, \* the newest release
          known,    \* the version in the release cache, 0 for none
          bin,      \* each version's binary: "absent", "good" or "changed"
          current,  \* the version the pointer names, 0 without a pointer
          prov,     \* the version in provenance.json, whose hash is the good one
          system,   \* the user has installed the tool
          job,      \* the installation that holds the InstallGuard
          flag,     \* its cancel flag is set
          launch,   \* each launch
          toolMishaps

toolVars == <<official, known, bin, current, prov, system, job, flag, launch, toolMishaps>>

Version == 1..Releases
NoJob == [pc |-> "none", plan |-> 0, had |-> 0, whole |-> FALSE, told |-> "nothing"]
Idle == [pc |-> "idle", path |-> 0, read |-> 0, expected |-> 0]

ToolInit ==
    /\ official = 1
    /\ known = 0
    /\ bin = [v \in Version |-> "absent"]
    /\ current = 0
    /\ prov = 0
    /\ system = FALSE
    /\ job = NoJob
    /\ flag = FALSE
    /\ launch = [l \in Launch |-> Idle]
    /\ toolMishaps = 0

-----------------------------------------------------------------------------
\* managed_tool: the version the pointer names, when its binary is there.
Managed == IF current # 0 /\ bin[current] # "absent" THEN current ELSE 0
\* A launch of the managed version would pass its integrity check.
Launchable == Managed # 0 /\ prov = Managed /\ bin[Managed] = "good"

JobAt(pc) == job.pc = pc
JobGoes(pc) == job' = [job EXCEPT !.pc = pc]
JobEnds(told) == job' = [job EXCEPT !.pc = "none", !.told = told]
Disk == <<bin, current, prov>>
World == <<official, system, launch>>

ShouldProvision == ~system /\ (Managed = 0 \/ known > Managed)

\* install_tool, under the InstallGuard of the tool; the token of the download
\* replaces one that was cancelled before.
BeginInstallTool ==
    /\ JobAt("none")
    /\ ShouldProvision
    /\ job' = [pc |-> "resolve", plan |-> 0, had |-> Managed, whole |-> Launchable,
               told |-> "nothing"]
    /\ flag' = FALSE
    /\ UNCHANGED <<known, toolMishaps>> /\ UNCHANGED Disk /\ UNCHANGED World

\* resolve_plan: fresh metadata, which is cached if it can be; the cache is used
\* when the publisher cannot be reached.
Resolve ==
    /\ JobAt("resolve")
    /\ \/ /\ known' \in {known, official}
          /\ job' = [job EXCEPT !.pc = "download", !.plan = official]
       \/ /\ known # 0
          /\ job' = [job EXCEPT !.pc = "download", !.plan = known]
          /\ UNCHANGED known
    /\ UNCHANGED <<flag, toolMishaps>> /\ UNCHANGED Disk /\ UNCHANGED World

\* refresh_release_caches, in the background.
RefreshCache ==
    /\ known' = official
    /\ UNCHANGED <<job, flag, toolMishaps>> /\ UNCHANGED Disk /\ UNCHANGED World

\* download_verified and extract_binary: a file whose hash is not the published one
\* is deleted; nothing but the staged binary is left.
Download ==
    /\ JobAt("download")
    /\ ~flag
    /\ JobGoes("smoke")
    /\ UNCHANGED <<known, flag, toolMishaps>> /\ UNCHANGED Disk /\ UNCHANGED World

CancelInstall ==
    /\ job.pc \notin {"none", "npm"}
    /\ flag' = TRUE
    /\ UNCHANGED <<known, job, toolMishaps>> /\ UNCHANGED Disk /\ UNCHANGED World

\* Fault: the binary is not tried before it replaces another one.
PassesUntried(v) == TRUE
Passes(v) == v \notin Broken

SmokeTest ==
    /\ JobAt("smoke")
    /\ ~flag
    /\ Passes(job.plan)
    /\ JobGoes("clear")
    /\ UNCHANGED <<known, flag, toolMishaps>> /\ UNCHANGED Disk /\ UNCHANGED World

\* finalize_install
ClearTarget ==
    /\ JobAt("clear")
    /\ bin' = [bin EXCEPT ![job.plan] = "absent"]
    /\ JobGoes("place")
    /\ UNCHANGED <<known, flag, toolMishaps, current, prov>> /\ UNCHANGED World

Place ==
    /\ JobAt("place")
    /\ bin' = [bin EXCEPT ![job.plan] = "good"]
    /\ JobGoes("point")
    /\ UNCHANGED <<known, flag, toolMishaps, current, prov>> /\ UNCHANGED World

Point ==
    /\ JobAt("point")
    /\ current' = job.plan
    /\ JobGoes("record")
    /\ UNCHANGED <<known, flag, toolMishaps, bin, prov>> /\ UNCHANGED World

RecordProvenance ==
    /\ JobAt("record")
    /\ prov' = job.plan
    /\ JobGoes("prune")
    /\ UNCHANGED <<known, flag, toolMishaps, bin, current>> /\ UNCHANGED World

\* prune_old_versions keeps the newest of the others.
Others(v) == {w \in Version \ {v} : bin[w] # "absent"}
Prune ==
    /\ JobAt("prune")
    /\ \E gone \in SUBSET (IF Others(job.plan) = {} THEN {}
                           ELSE Others(job.plan) \ {Max(Others(job.plan))}) :
         bin' = [v \in Version |-> IF v \in gone THEN "absent" ELSE bin[v]]
    /\ JobEnds("installed")
    /\ UNCHANGED <<known, flag, toolMishaps, current, prov>> /\ UNCHANGED World

\* Any of these may fail: the publisher cannot be reached, the download is cancelled
\* or broken, the smoke test fails, the file system refuses.  An update that failed
\* is reported, a first installation turns to npm unless it was cancelled.
InstallFails ==
    /\ job.pc \notin {"none", "npm"}
    /\ \/ JobAt("resolve") /\ toolMishaps' = toolMishaps
       \/ JobAt("download") /\ toolMishaps' = toolMishaps
       \/ JobAt("smoke") /\ (flag \/ ~Passes(job.plan)) /\ toolMishaps' = toolMishaps
       \/ /\ job.pc \in {"clear", "place", "point", "record"}
          /\ toolMishaps < MaxToolMishaps /\ toolMishaps' = toolMishaps + 1
    /\ \/ (flag \/ job.had # 0) /\ JobEnds("failed")
       \/ ~(flag \/ job.had # 0) /\ JobGoes("npm")
    /\ UNCHANGED <<known, flag>> /\ UNCHANGED Disk /\ UNCHANGED World

NpmEnds ==
    /\ JobAt("npm")
    /\ \E ok \in BOOLEAN : /\ system' = (system \/ ok)
                           /\ JobEnds(IF ok THEN "installed" ELSE "failed")
    /\ UNCHANGED <<known, flag, toolMishaps, official, launch>> /\ UNCHANGED Disk

-----------------------------------------------------------------------------
\* launch_tool in a terminal: the path, then the integrity check, then the start.
LaunchAt(l, pc) == launch[l].pc = pc
Around == UNCHANGED <<official, known, system, job, flag, toolMishaps>>

BeginLaunchTool(l) ==
    /\ LaunchAt(l, "idle")
    /\ ~system /\ Managed # 0
    /\ launch' = [launch EXCEPT ![l] = [Idle EXCEPT !.pc = "verify", !.path = Managed]]
    /\ Around /\ UNCHANGED Disk

ReadPointer(l) ==
    /\ LaunchAt(l, "verify")
    /\ launch' = [launch EXCEPT ![l] = IF Managed = 0 THEN Idle
                                       ELSE [@ EXCEPT !.pc = "record", !.read = Managed]]
    /\ Around /\ UNCHANGED Disk

ReadProvenance(l) ==
    /\ LaunchAt(l, "record")
    /\ launch' = [launch EXCEPT ![l].pc = "hash", ![l].expected = prov]
    /\ Around /\ UNCHANGED Disk

\* A binary that does not match loses the pointer, whatever it names by now.
CheckHash(l) ==
    /\ LaunchAt(l, "hash")
    /\ LET k == launch[l] IN
       IF k.expected = k.read /\ bin[k.read] = "good"
       THEN launch' = [launch EXCEPT ![l].pc = "start"] /\ UNCHANGED current
       ELSE /\ launch' = [launch EXCEPT ![l] = Idle]
            /\ current' \in (IF k.expected = k.read /\ bin[k.read] = "absent"
                             THEN {current} ELSE {0, current})
    /\ Around /\ UNCHANGED <<bin, prov>>

StartTool(l) ==
    /\ LaunchAt(l, "start")
    /\ launch' = [launch EXCEPT ![l] = Idle]
    /\ Around /\ UNCHANGED Disk

-----------------------------------------------------------------------------
Publish ==
    /\ official < Releases
    /\ official' = official + 1
    /\ UNCHANGED <<known, job, flag, system, launch, toolMishaps>> /\ UNCHANGED Disk

\* Something else writes to a binary.
ForeignWrite(v) ==
    /\ bin[v] = "good"
    /\ toolMishaps < MaxToolMishaps
    /\ toolMishaps' = toolMishaps + 1
    /\ bin' = [bin EXCEPT ![v] = "changed"]
    /\ UNCHANGED <<known, job, flag, current, prov>> /\ UNCHANGED World

UserInstalls ==
    /\ system' = ~system
    /\ UNCHANGED <<official, known, job, flag, launch, toolMishaps>> /\ UNCHANGED Disk

ToolCrash ==
    /\ job' = [NoJob EXCEPT !.told = IF JobAt("none") THEN job.told ELSE "nothing"]
    /\ flag' = FALSE
    /\ launch' = [l \in Launch |-> Idle]
    /\ UNCHANGED <<official, known, system, toolMishaps>> /\ UNCHANGED Disk

ToolNext ==
    \/ BeginInstallTool \/ Resolve \/ RefreshCache \/ Download \/ CancelInstall \/ SmokeTest
    \/ ClearTarget \/ Place \/ Point \/ RecordProvenance \/ Prune \/ InstallFails \/ NpmEnds
    \/ \E l \in Launch : \/ BeginLaunchTool(l) \/ ReadPointer(l) \/ ReadProvenance(l)
                         \/ CheckHash(l) \/ StartTool(l)
    \/ Publish \/ UserInstalls \/ ToolCrash
    \/ \E v \in Version : ForeignWrite(v)

ToolSpec == ToolInit /\ [][ToolNext]_toolVars

-----------------------------------------------------------------------------
\* Types; an installation that has resolved its release has one.
ToolTypeOK ==
    /\ official \in Version /\ known \in 0..Releases
    /\ bin \in [Version -> {"absent", "good", "changed"}]
    /\ current \in 0..Releases /\ prov \in 0..Releases
    /\ job.plan \in 0..Releases /\ job.had \in 0..Releases
    /\ toolMishaps \in 0..MaxToolMishaps
    /\ job.plan = 0 => job.pc \in {"none", "resolve", "npm"}

\* The pointer names a version that is there and passed its smoke test, wherever an
\* installation stopped: "a broken release can never replace a working one".
PointerIsSound == current # 0 => bin[current] # "absent" /\ current \notin Broken

\* commands.rs, install_tool: "The previous managed version stays active when an
\* update fails".  What a launch would have run before still runs, unless
\* something else has written to it.
FailedUpdateKeepsTool ==
    [][job.pc # "none" /\ job'.told = "failed" /\ job.whole /\ bin'[job.had] = "good"
          => Launchable']_toolVars
=============================================================================
